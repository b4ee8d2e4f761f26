-------------------------- MODULE Sessions_proofs --------------------------
(***************************************************************************)
(* Theorems about Sessions, for any members, channels and connections and  *)
(* any order of their steps.                                               *)
(***************************************************************************)
EXTENDS Sessions, TLAPS

Pair == Member \X Channel
ConnState == [who : Member, at : Phase, allowed : SUBSET Pair,
              owed : BOOLEAN, spoke : BOOLEAN]

(* From when a connection is in a map until it has left it. *)
InClients == {"registered", "live", "subscribing", "answering", "unsink", "unclient"}
InSinks == {"live", "subscribing", "answering", "unsink"}
MaySubscribe == {"live", "subscribing", "answering", "unsink", "unclient", "unsubscribe"}
InLatest == InClients \cup {"unsubscribe", "leave"}

Types ==
    /\ row \in [Member -> {"none", "active", "banned"}]
    /\ views \subseteq Pair /\ channels \subseteq Channel /\ subs \subseteq Pair
    /\ clients \in [Member -> Conn \cup {NoConn}]
    /\ sinks \in [Member -> Conn \cup {NoConn}]
    /\ latest \in [Member -> Conn \cup {NoConn}]
    /\ protocol \in [Member -> {1, 2}]
    /\ conn \in [Conn -> ConnState]

ConnsConsistent ==
    \A c \in Conn :
        /\ \A p \in conn[c].allowed : p[1] = conn[c].who /\ conn[c].at = "subscribing"
        /\ conn[c].owed => conn[c].at = "answering"
        /\ conn[c].at \in {"new", "known", "registered"} => ~conn[c].spoke

ClientsConnected ==
    \A m \in Member : clients[m] # NoConn =>
        conn[clients[m]].who = m /\ conn[clients[m]].at \in InClients

SinksConnected ==
    \A m \in Member : sinks[m] # NoConn =>
        conn[sinks[m]].who = m /\ conn[sinks[m]].at \in InSinks

SubscribersConnected ==
    \A p \in subs : \E c \in Conn : conn[c].who = p[1] /\ conn[c].at \in MaySubscribe

LatestRegistered ==
    \A m \in Member : latest[m] # NoConn =>
        LET c == latest[m] IN
        /\ conn[c].who = m /\ conn[c].at \in InLatest
        /\ conn[c].at \in InClients => clients[m] = c /\ (conn[c].spoke => protocol[m] = 2)

SessionsInv ==
    /\ Types
    /\ ConnsConsistent
    /\ ClientsConnected
    /\ SinksConnected
    /\ SubscribersConnected
    /\ LatestRegistered
    /\ StaleSubscriptionsExplained

-----------------------------------------------------------------------------
(* What the invariant says of the properties. *)

LEMMA PairsOfAMember ==
    ASSUME NEW m, NEW p \in Pair
    PROVE  p \in Of(m) <=> p[1] = m
<1> QED
  BY DEF Pair, Of

LEMMA InvImpliesProperties ==
    SessionsInv => SessionsTypeOK /\ LatestConnectionKept /\ StaleSubscriptionsExplained
<1> SUFFICES ASSUME SessionsInv PROVE SessionsTypeOK /\ LatestConnectionKept
  BY DEF SessionsInv
<1> USE DEF SessionsInv
<1>1. ASSUME NEW c \in Conn
      PROVE  /\ conn[c].at \in Phase
             /\ conn[c].allowed \subseteq Of(Who(c))
             /\ conn[c].owed => Is(c, "answering")
  <2>1. conn[c] \in ConnState
    BY DEF Types
  <2>2. conn[c].allowed \subseteq Pair
    BY <2>1 DEF ConnState
  <2>3. \A p \in conn[c].allowed : p \in Of(Who(c))
    BY <2>2, PairsOfAMember DEF ConnsConsistent, Who
  <2> QED
    BY <2>1, <2>3 DEF ConnState, ConnsConsistent, Is
<1>2. ASSUME NEW m \in Member
      PROVE  \A c \in {clients[m], sinks[m]} : c # NoConn => Who(c) = m /\ ~Gone(c)
  BY DEF ClientsConnected, SinksConnected, InClients, InSinks, Who, Gone, Is
<1>3. ASSUME NEW m \in Member, \A c \in Conn : Who(c) = m => Gone(c)
      PROVE  subs \cap Of(m) = {}
  <2> SUFFICES ASSUME NEW p \in subs, p \in Of(m) PROVE FALSE
    OBVIOUS
  <2>1. p[1] = m
    BY PairsOfAMember DEF Types
  <2> QED
    BY <1>3, <2>1 DEF SubscribersConnected, MaySubscribe, Who, Gone, Is
<1>4. SessionsTypeOK
  BY <1>1, <1>2, <1>3 DEF SessionsTypeOK, Types, Pair
<1>5. LatestConnectionKept
  BY DEF LatestConnectionKept, LatestRegistered, InClients
<1> QED
  BY <1>4, <1>5

LEMMA InitEstablishesSessionsInv == SessionsInit => SessionsInv
<1> SUFFICES ASSUME SessionsInit PROVE SessionsInv
  OBVIOUS
<1> USE SessionsAssumption DEF SessionsInit
<1>1. Types
  BY DEF Types, New, ConnState, Phase
<1>2. ConnsConsistent
  BY DEF ConnsConsistent, New
<1>3. ClientsConnected /\ SinksConnected /\ SubscribersConnected /\ LatestRegistered
  BY DEF ClientsConnected, SinksConnected, SubscribersConnected, LatestRegistered
<1>4. StaleSubscriptionsExplained
  BY DEF StaleSubscriptionsExplained, Stale
<1> QED
  BY <1>1, <1>2, <1>3, <1>4 DEF SessionsInv

-----------------------------------------------------------------------------
(* A step changes one connection. *)

Elsewhere(c) == \A d \in Conn : d # c => conn'[d] = conn[d]

LEMMA OneConnection ==
    ASSUME Types, NEW c \in Conn, NEW r \in ConnState, conn' = [conn EXCEPT ![c] = r]
    PROVE  conn' \in [Conn -> ConnState] /\ conn'[c] = r /\ Elsewhere(c)
<1> QED
  BY DEF Types, Elsewhere

LEMMA AtUpdated ==
    ASSUME NEW n \in ConnState, NEW phase \in Phase
    PROVE  /\ [n EXCEPT !.at = phase] \in ConnState
           /\ [n EXCEPT !.at = phase] =
                [who |-> n.who, at |-> phase, allowed |-> n.allowed, owed |-> n.owed,
                 spoke |-> n.spoke]
<1> QED
  BY DEF ConnState

LEMMA AllowedUpdated ==
    ASSUME NEW n \in ConnState, NEW a \in SUBSET Pair
    PROVE  [n EXCEPT !.allowed = a] =
                [who |-> n.who, at |-> n.at, allowed |-> a, owed |-> n.owed, spoke |-> n.spoke]
<1> QED
  BY DEF ConnState

LEMMA OwedUpdated ==
    ASSUME NEW n \in ConnState, NEW b \in BOOLEAN
    PROVE  [n EXCEPT !.owed = b] =
                [who |-> n.who, at |-> n.at, allowed |-> n.allowed, owed |-> b, spoke |-> n.spoke]
<1> QED
  BY DEF ConnState

LEMMA ClosedIs ==
    /\ Closed = [who |-> Owner, at |-> "done", allowed |-> {}, owed |-> FALSE, spoke |-> FALSE]
    /\ Closed \in ConnState
<1>1. /\ New \in ConnState /\ New.who = Owner /\ New.allowed = {}
      /\ New.owed = FALSE /\ New.spoke = FALSE
  BY SessionsAssumption DEF New, ConnState, Phase
<1>2. \A n \in ConnState : [n EXCEPT !.at = "done"] =
          [who |-> n.who, at |-> "done", allowed |-> n.allowed, owed |-> n.owed,
           spoke |-> n.spoke]
  BY DEF ConnState
<1>3. Closed = [who |-> New.who, at |-> "done", allowed |-> New.allowed, owed |-> New.owed,
                spoke |-> New.spoke]
  BY <1>1, <1>2 DEF Closed
<1>4. Closed = [who |-> Owner, at |-> "done", allowed |-> {}, owed |-> FALSE, spoke |-> FALSE]
  BY <1>1, <1>3
<1> QED
  BY <1>4, SessionsAssumption DEF ConnState, Phase

(* A step that moves a connection on and leaves its other fields. *)
MovesTo(c, phase) ==
    /\ conn' \in [Conn -> ConnState]
    /\ conn'[c].at = phase /\ conn'[c].who = conn[c].who
    /\ conn'[c].allowed = conn[c].allowed /\ conn'[c].owed = conn[c].owed
    /\ conn'[c].spoke = conn[c].spoke
    /\ Elsewhere(c)

LEMMA GotoMoves ==
    ASSUME Types, NEW c \in Conn, NEW phase \in Phase, Goto(c, phase)
    PROVE  MovesTo(c, phase)
<1> DEFINE r == [who |-> conn[c].who, at |-> phase, allowed |-> conn[c].allowed,
                 owed |-> conn[c].owed, spoke |-> conn[c].spoke]
<1>1. conn[c] \in ConnState
  BY DEF Types
<1>2. r \in ConnState
  BY <1>1 DEF ConnState
<1>3. [conn[c] EXCEPT !.at = phase] = r
  BY <1>1 DEF ConnState
<1>4. conn' = [conn EXCEPT ![c] = r]
  BY <1>3 DEF Goto
<1> HIDE DEF r
<1>5. conn' \in [Conn -> ConnState] /\ conn'[c] = r /\ Elsewhere(c)
  BY <1>2, <1>4, OneConnection
<1> QED
  BY <1>5 DEF r, MovesTo

SetsAllowed(c, phase, a) == conn' = [conn EXCEPT ![c].at = phase, ![c].allowed = a]

LEMMA MovesAllowing ==
    ASSUME Types, NEW c \in Conn, NEW phase \in Phase, NEW a \in SUBSET Pair,
           SetsAllowed(c, phase, a)
    PROVE  /\ conn' \in [Conn -> ConnState] /\ Elsewhere(c)
           /\ conn'[c] = [who |-> conn[c].who, at |-> phase, allowed |-> a,
                        owed |-> conn[c].owed, spoke |-> conn[c].spoke]
<1>1. conn[c] \in ConnState
  BY DEF Types
<1>2. PICK n \in ConnState :
          /\ n = [conn[c] EXCEPT !.at = phase]
          /\ n = [who |-> conn[c].who, at |-> phase, allowed |-> conn[c].allowed,
                  owed |-> conn[c].owed, spoke |-> conn[c].spoke]
  BY <1>1, AtUpdated
<1>3. conn' = [conn EXCEPT ![c] = [n EXCEPT !.allowed = a]]
  BY <1>2 DEF Types, SetsAllowed
<1>4. PICK r : r = [n EXCEPT !.allowed = a] /\ r \in ConnState /\
               r = [who |-> conn[c].who, at |-> phase, allowed |-> a,
                        owed |-> conn[c].owed, spoke |-> conn[c].spoke]
  BY <1>1, <1>2, AllowedUpdated DEF ConnState
<1>5. conn' = [conn EXCEPT ![c] = r]
  BY <1>3, <1>4
<1> QED
  BY <1>4, <1>5, OneConnection

SetsOwed(c, phase, b) == conn' = [conn EXCEPT ![c].at = phase, ![c].owed = b]

LEMMA MovesOwing ==
    ASSUME Types, NEW c \in Conn, NEW phase \in Phase, NEW b \in BOOLEAN,
           SetsOwed(c, phase, b)
    PROVE  /\ conn' \in [Conn -> ConnState] /\ Elsewhere(c)
           /\ conn'[c] = [who |-> conn[c].who, at |-> phase, allowed |-> conn[c].allowed,
                        owed |-> b, spoke |-> conn[c].spoke]
<1>1. conn[c] \in ConnState
  BY DEF Types
<1>2. PICK n \in ConnState :
          /\ n = [conn[c] EXCEPT !.at = phase]
          /\ n = [who |-> conn[c].who, at |-> phase, allowed |-> conn[c].allowed,
                  owed |-> conn[c].owed, spoke |-> conn[c].spoke]
  BY <1>1, AtUpdated
<1>3. conn' = [conn EXCEPT ![c] = [n EXCEPT !.owed = b]]
  BY <1>2 DEF Types, SetsOwed
<1>4. PICK r : r = [n EXCEPT !.owed = b] /\ r \in ConnState /\
               r = [who |-> conn[c].who, at |-> phase, allowed |-> conn[c].allowed,
                        owed |-> b, spoke |-> conn[c].spoke]
  BY <1>1, <1>2, OwedUpdated DEF ConnState
<1>5. conn' = [conn EXCEPT ![c] = r]
  BY <1>3, <1>4
<1> QED
  BY <1>4, <1>5, OneConnection

-----------------------------------------------------------------------------
(* The invariant, action by action. *)

LEMMA AuthenticateKeeps ==
    ASSUME SessionsInv, NEW c \in Conn, NEW m \in Member, Authenticate(c, m)
    PROVE  SessionsInv'
<1> USE DEF SessionsInv
<1> DEFINE r == [who |-> m, at |-> "known", allowed |-> conn[c].allowed,
                 owed |-> conn[c].owed, spoke |-> conn[c].spoke]
<1>1. conn[c] \in ConnState /\ conn[c].at = "new"
  BY DEF Types, Authenticate, Is
<1>2. r \in ConnState
  BY <1>1 DEF ConnState, Phase
<1>3. conn' = [conn EXCEPT ![c] = r]
  BY <1>1 DEF Authenticate, ConnState, Types
<1>4. conn' \in [Conn -> ConnState] /\ conn'[c] = r /\ Elsewhere(c)
  <2> HIDE DEF r
  <2> QED
    BY <1>2, <1>3, OneConnection
<1>5. UNCHANGED <<clients, subs, protocol, sinks, latest, slipped, channels>>
  BY DEF Authenticate, maps, access
<1>6. \/ row' = row /\ views' = views
      \/ /\ row[m] # "active" /\ row' = [row EXCEPT ![m] = "active"]
         /\ \E seen \in SUBSET Of(m) : views' = (views \ Of(m)) \cup seen
  BY DEF Authenticate, access
<1>7. Types'
  <2>1. row' \in [Member -> {"none", "active", "banned"}]
    BY <1>6 DEF Types
  <2>2. views' \subseteq Pair
    BY <1>6 DEF Types, Pair, Of
  <2> QED
    BY <1>4, <1>5, <2>1, <2>2 DEF Types
<1>8. ConnsConsistent'
  <2>1. \A p \in conn[c].allowed : FALSE
    BY <1>1 DEF ConnsConsistent
  <2> QED
    BY <1>1, <1>4, <2>1 DEF ConnsConsistent, Elsewhere
<1>9. ClientsConnected' /\ SinksConnected'
  BY <1>1, <1>4, <1>5
  DEF ClientsConnected, SinksConnected, InClients, InSinks, Types, Elsewhere
<1>10. SubscribersConnected'
  BY <1>1, <1>4, <1>5 DEF SubscribersConnected, MaySubscribe, Elsewhere
<1>11. LatestRegistered'
  BY <1>1, <1>4, <1>5 DEF LatestRegistered, InLatest, InClients, Types, Elsewhere
<1>12. StaleSubscriptionsExplained'
  <2>1. ASSUME NEW p \in subs, Visible(p) PROVE Visible(p)'
    <3>1. p \in Pair /\ row[p[1]] = "active"
      BY <2>1 DEF Types, Visible
    <3>2. CASE row' = row /\ views' = views
      BY <2>1, <3>2, <1>5 DEF Visible
    <3>3. CASE /\ row[m] # "active" /\ row' = [row EXCEPT ![m] = "active"]
               /\ \E seen \in SUBSET Of(m) : views' = (views \ Of(m)) \cup seen
      <4>1. p[1] # m /\ p \notin Of(m)
        BY <3>1, <3>3, PairsOfAMember
      <4> QED
        BY <2>1, <3>1, <3>3, <4>1, <1>5 DEF Visible, Types, Pair
    <3> QED
      BY <1>6, <3>2, <3>3
  <2>2. Stale' \subseteq Stale
    BY <2>1, <1>5 DEF Stale
  <2>3. \A d \in Conn : conn[d].owed => conn'[d].owed
    BY <1>4 DEF Elsewhere
  <2> QED
    BY <1>5, <2>2, <2>3 DEF StaleSubscriptionsExplained
<1> QED
  BY <1>7, <1>8, <1>9, <1>10, <1>11, <1>12

LEMMA UnreachableKeeps ==
    ASSUME SessionsInv, NEW c \in Conn, Unreachable(c)
    PROVE  SessionsInv'
<1> USE DEF SessionsInv
<1> DEFINE r == [who |-> Owner, at |-> "done", allowed |-> {}, owed |-> FALSE, spoke |-> FALSE]
<1>1. conn[c] \in ConnState /\ conn[c].at = "known"
  BY DEF Types, Unreachable, Is
<1>2. r \in ConnState /\ Closed = r
  BY ClosedIs
<1>3. conn' = [conn EXCEPT ![c] = r]
  BY <1>2 DEF Unreachable
<1>4. conn' \in [Conn -> ConnState] /\ conn'[c] = r /\ Elsewhere(c)
  <2> HIDE DEF r
  <2> QED
    BY <1>2, <1>3, OneConnection
<1> USE DEF Elsewhere, Unreachable
<1>5. Types' /\ ConnsConsistent'
  BY <1>1, <1>4 DEF Types, access, maps, ConnsConsistent
<1>6. ClientsConnected' /\ SinksConnected' /\ SubscribersConnected' /\ LatestRegistered'
  BY <1>1, <1>4 DEF ClientsConnected, SinksConnected, InClients, InSinks, Types, maps,
                    SubscribersConnected, MaySubscribe, LatestRegistered, InLatest
<1>7. StaleSubscriptionsExplained'
  <2>1. Stale' = Stale
    BY DEF Stale, Visible, access, maps
  <2>2. \A d \in Conn : conn[d].owed => conn'[d].owed
    BY <1>1, <1>4 DEF ConnsConsistent
  <2> QED
    BY <2>1, <2>2 DEF StaleSubscriptionsExplained
<1> QED
  BY <1>5, <1>6, <1>7

LEMMA RegisterKeeps ==
    ASSUME SessionsInv, NEW c \in Conn, Register(c)
    PROVE  SessionsInv'
<1> USE DEF SessionsInv
<1>1. MovesTo(c, "registered")
  BY GotoMoves DEF Register, Phase
<1>2. conn[c] \in ConnState /\ conn[c].at = "known" /\ Who(c) \in Member
  BY DEF Types, Register, Is, Who, ConnState
<1> USE DEF Register, MovesTo, Elsewhere
<1>3. /\ clients'[Who(c)] = c /\ latest'[Who(c)] = c
      /\ \A m \in Member : m # Who(c) => clients'[m] = clients[m] /\ latest'[m] = latest[m]
      /\ clients' \in [Member -> Conn \cup {NoConn}]
      /\ latest' \in [Member -> Conn \cup {NoConn}]
  BY <1>2 DEF Types
<1>4. Types' /\ ConnsConsistent'
  BY <1>1, <1>2, <1>3 DEF Types, access, ConnsConsistent
<1>5. ClientsConnected'
  BY <1>1, <1>2, <1>3 DEF ClientsConnected, InClients, Types, Who
<1>6. SinksConnected' /\ SubscribersConnected'
  BY <1>1, <1>2 DEF SinksConnected, SubscribersConnected, InSinks, MaySubscribe, Types
<1>7. LatestRegistered'
  BY <1>1, <1>2, <1>3 DEF LatestRegistered, InLatest, InClients, ConnsConsistent, Types, Who
<1>8. StaleSubscriptionsExplained'
  BY <1>1 DEF StaleSubscriptionsExplained, Stale, Visible, access
<1> QED
  BY <1>4, <1>5, <1>6, <1>7, <1>8

LEMMA OpenVoiceKeeps ==
    ASSUME SessionsInv, NEW c \in Conn, OpenVoice(c)
    PROVE  SessionsInv'
<1> USE DEF SessionsInv
<1>1. MovesTo(c, "live")
  BY GotoMoves DEF OpenVoice, Phase
<1>2. conn[c] \in ConnState /\ conn[c].at = "registered" /\ Who(c) \in Member
  BY DEF Types, OpenVoice, Is, Who, ConnState
<1> USE DEF OpenVoice, MovesTo, Elsewhere
<1>3. /\ sinks'[Who(c)] = c
      /\ \A m \in Member : m # Who(c) => sinks'[m] = sinks[m]
      /\ sinks' \in [Member -> Conn \cup {NoConn}]
  BY <1>2 DEF Types
<1>4. Types' /\ ConnsConsistent'
  BY <1>1, <1>2, <1>3 DEF Types, access, ConnsConsistent
<1>5. ClientsConnected' /\ SubscribersConnected'
  BY <1>1, <1>2 DEF ClientsConnected, SubscribersConnected, InClients, MaySubscribe, Types
<1>6. SinksConnected'
  BY <1>1, <1>2, <1>3 DEF SinksConnected, InSinks, Types, Who
<1>7. LatestRegistered'
  BY <1>1, <1>2 DEF LatestRegistered, InLatest, InClients, Types
<1>8. StaleSubscriptionsExplained'
  BY <1>1 DEF StaleSubscriptionsExplained, Stale, Visible, access
<1> QED
  BY <1>4, <1>5, <1>6, <1>7, <1>8

(* A live connection that stays so, the maps of connections untouched. *)
StaysLive(c) ==
    /\ conn[c].at \in InSinks /\ conn'[c].at \in InSinks
    /\ conn'[c].who = conn[c].who /\ conn'[c].spoke = conn[c].spoke
    /\ conn' \in [Conn -> ConnState] /\ Elsewhere(c)
    /\ UNCHANGED <<clients, sinks, latest, protocol>>

LEMMA StayingLiveKeepsMaps ==
    ASSUME SessionsInv, NEW c \in Conn, StaysLive(c)
    PROVE  /\ ClientsConnected' /\ SinksConnected' /\ LatestRegistered'
           /\ (\A p \in subs' : p \in subs \/ p[1] = conn[c].who) => SubscribersConnected'
<1> USE DEF SessionsInv, StaysLive, Elsewhere
<1>1. ClientsConnected' /\ SinksConnected'
  BY DEF ClientsConnected, SinksConnected, InClients, InSinks, Types
<1>2. LatestRegistered'
  BY DEF LatestRegistered, InLatest, InClients, InSinks, Types
<1>3. ASSUME \A p \in subs' : p \in subs \/ p[1] = conn[c].who
      PROVE  SubscribersConnected'
  <2>1. ASSUME NEW p \in subs' PROVE \E d \in Conn : conn'[d].who = p[1] /\ conn'[d].at \in MaySubscribe
    <3>1. CASE p[1] = conn[c].who
      BY <3>1 DEF InSinks, MaySubscribe
    <3>2. CASE p \in subs
      <4>1. PICK d \in Conn : conn[d].who = p[1] /\ conn[d].at \in MaySubscribe
        BY <3>2 DEF SubscribersConnected
      <4>2. CASE d = c
        BY <4>1, <4>2 DEF InSinks, MaySubscribe
      <4>3. CASE d # c
        BY <4>1, <4>3
      <4> QED
        BY <4>2, <4>3
    <3> QED
      BY <1>3, <3>1, <3>2
  <2> QED
    BY <2>1 DEF SubscribersConnected
<1> QED
  BY <1>1, <1>2, <1>3

LEMMA NegotiateProtocolKeeps ==
    ASSUME SessionsInv, NEW c \in Conn, NegotiateProtocol(c)
    PROVE  SessionsInv'
<1> USE DEF SessionsInv
<1> DEFINE r == [who |-> conn[c].who, at |-> conn[c].at, allowed |-> conn[c].allowed,
                 owed |-> conn[c].owed, spoke |-> TRUE]
<1>1. conn[c] \in ConnState /\ conn[c].at = "live" /\ Who(c) \in Member
  BY DEF Types, NegotiateProtocol, Is, Who, ConnState
<1>2. r \in ConnState
  BY <1>1 DEF ConnState
<1>3. \A n \in ConnState, b \in BOOLEAN : [n EXCEPT !.spoke = b] =
          [who |-> n.who, at |-> n.at, allowed |-> n.allowed, owed |-> n.owed, spoke |-> b]
  BY DEF ConnState
<1>4. conn' = [conn EXCEPT ![c] = r]
  BY <1>1, <1>3 DEF NegotiateProtocol
<1>5. conn' \in [Conn -> ConnState] /\ conn'[c] = r /\ Elsewhere(c)
  <2> HIDE DEF r
  <2> QED
    BY <1>2, <1>4, OneConnection
<1>6. /\ protocol'[Who(c)] = 2 /\ protocol' \in [Member -> {1, 2}]
      /\ \A m \in Member : m # Who(c) => protocol'[m] = protocol[m]
  BY <1>1 DEF Types, NegotiateProtocol
<1>7. UNCHANGED <<access, clients, subs, sinks, latest, slipped>>
  BY DEF NegotiateProtocol
<1> USE DEF access, Elsewhere
<1>8. Types' /\ ConnsConsistent'
  BY <1>1, <1>5, <1>6, <1>7 DEF Types, ConnsConsistent
<1>9. ClientsConnected' /\ SinksConnected' /\ SubscribersConnected'
  BY <1>1, <1>5, <1>7 DEF ClientsConnected, SinksConnected, SubscribersConnected, Types
<1>10. LatestRegistered'
  BY <1>1, <1>5, <1>6, <1>7 DEF LatestRegistered, Types, Who
<1>11. StaleSubscriptionsExplained'
  BY <1>1, <1>5, <1>7 DEF StaleSubscriptionsExplained, Stale, Visible
<1> QED
  BY <1>8, <1>9, <1>10, <1>11

LEMMA SubscribeFilterKeeps ==
    ASSUME SessionsInv, NEW c \in Conn, NEW requested \in SUBSET Of(Who(c)),
           SubscribeFilter(c, requested)
    PROVE  SessionsInv'
<1> USE DEF SessionsInv
<1> DEFINE allowed == {p \in requested : Visible(p)}
           r == [who |-> conn[c].who, at |-> "subscribing", allowed |-> allowed,
                 owed |-> conn[c].owed, spoke |-> conn[c].spoke]
<1>1. conn[c] \in ConnState /\ conn[c].at = "live" /\ Who(c) \in Member
  BY DEF Types, SubscribeFilter, Is, Who, ConnState
<1>2. allowed \subseteq Pair /\ \A p \in allowed : p[1] = conn[c].who
  BY <1>1 DEF Of, Pair, Who
<1>3. SetsAllowed(c, "subscribing", allowed)
  BY DEF SubscribeFilter, SetsAllowed
<1>4. conn' \in [Conn -> ConnState] /\ conn'[c] = r /\ Elsewhere(c)
  <2> HIDE DEF allowed
  <2> QED
    BY <1>2, <1>3, MovesAllowing DEF Phase
<1>5. UNCHANGED <<access, maps, latest, slipped>>
  BY DEF SubscribeFilter
<1> HIDE DEF allowed
<1> USE DEF access, maps, Elsewhere
<1>6. Types' /\ ConnsConsistent'
  BY <1>1, <1>2, <1>4, <1>5 DEF Types, ConnsConsistent
<1>7. ClientsConnected' /\ SinksConnected' /\ LatestRegistered' /\ SubscribersConnected'
  BY <1>1, <1>4, <1>5, StayingLiveKeepsMaps DEF StaysLive, InSinks
<1>8. StaleSubscriptionsExplained'
  BY <1>1, <1>4, <1>5 DEF StaleSubscriptionsExplained, Stale, Visible
<1> QED
  BY <1>6, <1>7, <1>8

LEMMA SubscribeWriteKeeps ==
    ASSUME SessionsInv, NEW c \in Conn, SubscribeWrite(c)
    PROVE  SessionsInv'
<1> USE DEF SessionsInv
<1> DEFINE r == [who |-> conn[c].who, at |-> "live", allowed |-> {},
                 owed |-> conn[c].owed, spoke |-> conn[c].spoke]
<1>1. conn[c] \in ConnState /\ conn[c].at = "subscribing" /\ Who(c) \in Member
  BY DEF Types, SubscribeWrite, Is, Who, ConnState
<1>2. SetsAllowed(c, "live", {})
  BY DEF SubscribeWrite, SetsAllowed
<1>3. conn' \in [Conn -> ConnState] /\ conn'[c] = r /\ Elsewhere(c)
  BY <1>2, MovesAllowing DEF Phase
<1>4. /\ UNCHANGED <<access, clients, protocol, sinks, latest>>
      /\ subs' = (subs \ Of(Who(c))) \cup conn[c].allowed
      /\ slipped' = (slipped \ Of(Who(c))) \cup {p \in conn[c].allowed : ~Visible(p)}
  BY DEF SubscribeWrite
<1>5. conn[c].allowed \subseteq Pair /\ \A p \in conn[c].allowed : p[1] = conn[c].who
  BY <1>1 DEF ConnState, ConnsConsistent
<1> USE DEF access, Elsewhere
<1>6. Types' /\ ConnsConsistent'
  BY <1>1, <1>3, <1>4, <1>5 DEF Types, ConnsConsistent
<1>7. ClientsConnected' /\ SinksConnected' /\ LatestRegistered' /\ SubscribersConnected'
  <2>1. \A p \in subs' : p \in subs \/ p[1] = conn[c].who
    BY <1>4, <1>5
  <2> QED
    BY <1>1, <1>3, <1>4, <2>1, StayingLiveKeepsMaps DEF StaysLive, InSinks
<1>8. StaleSubscriptionsExplained'
  <2>1. \A p : Visible(p)' <=> Visible(p)
    BY <1>4 DEF Visible
  <2>2. ASSUME NEW p \in Stale' PROVE p \in slipped' \/ (p \in Stale /\ p \notin Of(Who(c)))
    <3>1. p \in subs' /\ ~Visible(p)
      BY <2>1 DEF Stale
    <3>2. p \in conn[c].allowed \/ (p \in subs /\ p \notin Of(Who(c)))
      BY <1>4, <3>1
    <3>3. p \in conn[c].allowed => p \in slipped'
      BY <1>4, <3>1
    <3> QED
      BY <3>1, <3>2, <3>3 DEF Stale
  <2>3. \A d \in Conn : conn[d].owed => conn'[d].owed
    BY <1>3
  <2> QED
    BY <1>4, <2>2, <2>3 DEF StaleSubscriptionsExplained
<1> QED
  BY <1>6, <1>7, <1>8

-----------------------------------------------------------------------------
(* The requests that change who sees what. *)

(* Whatever a request did, its event announces it or it made nothing stale  *)
(* that is not accounted for.                                               *)
LEMMA HandledKeeps ==
    ASSUME SessionsInv, NEW c \in Conn, NEW event, Handled(c, event),
           row' \in [Member -> {"none", "active", "banned"}],
           views' \subseteq Pair, channels' \subseteq Channel, slipped \subseteq slipped',
           \/ Announces(event)
           \/ \A p \in subs : ~Visible(p)' => p \in Stale \/ p \in slipped'
    PROVE  SessionsInv'
<1> USE DEF SessionsInv
<1> DEFINE r == [who |-> conn[c].who, at |-> "answering", allowed |-> conn[c].allowed,
                 owed |-> Announces(event), spoke |-> conn[c].spoke]
<1>1. conn[c] \in ConnState /\ conn[c].at = "live" /\ Who(c) \in Member
  BY DEF Types, Handled, Is, Who, ConnState
<1>2. SetsOwed(c, "answering", Announces(event)) /\ Announces(event) \in BOOLEAN
  BY DEF Handled, SetsOwed, Announces
<1>3. conn' \in [Conn -> ConnState] /\ conn'[c] = r /\ Elsewhere(c)
  BY <1>2, MovesOwing DEF Phase
<1>4. UNCHANGED <<clients, subs, protocol, sinks, latest>>
  BY DEF Handled, maps
<1>5. Types' /\ ConnsConsistent'
  BY <1>1, <1>3, <1>4 DEF Types, ConnsConsistent, Elsewhere
<1>6. ClientsConnected' /\ SinksConnected' /\ LatestRegistered' /\ SubscribersConnected'
  BY <1>1, <1>3, <1>4, StayingLiveKeepsMaps DEF StaysLive, InSinks
<1>7. StaleSubscriptionsExplained'
  <2>1. CASE Announces(event)
    BY <1>3, <2>1 DEF StaleSubscriptionsExplained
  <2>2. CASE \A p \in subs : ~Visible(p)' => p \in Stale \/ p \in slipped'
    <3>1. \A d \in Conn : conn[d].owed => conn'[d].owed
      BY <1>1, <1>3 DEF ConnsConsistent, Elsewhere
    <3>2. ASSUME NEW p \in Stale' PROVE p \in Stale \/ p \in slipped'
      BY <1>4, <2>2 DEF Stale
    <3> QED
      BY <3>1, <3>2 DEF StaleSubscriptionsExplained
  <2> QED
    BY <2>1, <2>2
<1> QED
  BY <1>5, <1>6, <1>7

LEMMA RequestsKeep ==
    ASSUME SessionsInv, NEW c \in Conn,
           \/ \E m \in Member : KickMember(c, m) \/ BanMember(c, m) \/ UnbanMember(c, m)
           \/ \E p \in Member \X Channel : ChangePermissions(c, p) \/ DeleteCategory(c, p)
           \/ \E ch \in Channel : DeleteChannel(c, ch)
    PROVE  SessionsInv'
<1>0. /\ Announces("MemberLeft") /\ Announces("MemberBanned")
      /\ Announces("PermissionsChanged") /\ Announces("ChannelDeleted")
  BY DEF Announces, ChangesAccess
<1>1. Types
  BY DEF SessionsInv
<1>2. \A p \in Pair : Toggled(p) \subseteq Pair
  BY <1>1 DEF Toggled, Types
<1>3. ASSUME NEW m \in Member, KickMember(c, m) PROVE SessionsInv'
  <2>1. /\ row' \in [Member -> {"none", "active", "banned"}]
        /\ views' \subseteq Pair /\ channels' \subseteq Channel /\ slipped \subseteq slipped'
        /\ Handled(c, "MemberLeft")
    BY <1>1, <1>3 DEF KickMember, Types
  <2> QED
    BY <1>0, <2>1, HandledKeeps
<1>4. ASSUME NEW m \in Member, BanMember(c, m) PROVE SessionsInv'
  <2>1. /\ row' \in [Member -> {"none", "active", "banned"}]
        /\ views' \subseteq Pair /\ channels' \subseteq Channel /\ slipped \subseteq slipped'
        /\ Handled(c, "MemberBanned")
    BY <1>1, <1>4 DEF BanMember, Types
  <2> QED
    BY <1>0, <2>1, HandledKeeps
<1>5. ASSUME NEW m \in Member, UnbanMember(c, m) PROVE SessionsInv'
  <2>1. /\ row' \in [Member -> {"none", "active", "banned"}]
        /\ views' \subseteq Pair /\ channels' \subseteq Channel /\ slipped \subseteq slipped'
        /\ Handled(c, "MemberUnbanned")
    BY <1>1, <1>5 DEF UnbanMember, Types
  <2>2. ASSUME NEW p \in subs, Visible(p) PROVE Visible(p)'
    BY <1>1, <1>5, <2>2 DEF UnbanMember, Visible, Types, Pair
  <2>3. \A p \in subs : ~Visible(p)' => p \in Stale \/ p \in slipped'
    BY <2>2 DEF Stale
  <2> QED
    BY <2>1, <2>3, HandledKeeps
<1>6. ASSUME NEW p \in Pair, ChangePermissions(c, p) PROVE SessionsInv'
  <2>1. /\ row' \in [Member -> {"none", "active", "banned"}]
        /\ views' \subseteq Pair /\ channels' \subseteq Channel /\ slipped \subseteq slipped'
        /\ Handled(c, "PermissionsChanged")
    BY <1>1, <1>2, <1>6 DEF ChangePermissions, Types
  <2> QED
    BY <1>0, <2>1, HandledKeeps
<1>7. ASSUME NEW ch \in Channel, DeleteChannel(c, ch) PROVE SessionsInv'
  <2>1. /\ row' \in [Member -> {"none", "active", "banned"}]
        /\ views' \subseteq Pair /\ channels' \subseteq Channel /\ slipped \subseteq slipped'
        /\ Handled(c, "ChannelDeleted")
    BY <1>1, <1>7 DEF DeleteChannel, Types
  <2> QED
    BY <1>0, <2>1, HandledKeeps
<1>8. ASSUME NEW p \in Pair, DeleteCategory(c, p) PROVE SessionsInv'
  <2>1. /\ row' \in [Member -> {"none", "active", "banned"}]
        /\ views' \subseteq Pair /\ channels' \subseteq Channel
        /\ slipped' = slipped \cup {q \in subs : ~Visible(q)'}
        /\ Handled(c, "CategoryDeleted")
    BY <1>1, <1>2, <1>8 DEF DeleteCategory, Types
  <2>2. \A q \in subs : ~Visible(q)' => q \in slipped'
    BY <2>1
  <2> QED
    BY <2>1, <2>2, HandledKeeps
<1> QED
  BY <1>3, <1>4, <1>5, <1>6, <1>7, <1>8 DEF Pair

LEMMA RevalidatingLeavesNothingStale ==
    ASSUME Revalidate, UNCHANGED access
    PROVE  Stale' = {} /\ subs' \subseteq subs
<1>1. \A p : Visible(p)' <=> Visible(p)
  BY DEF Visible, access
<1>2. ASSUME NEW p \in Stale' PROVE FALSE
  <2>1. p \in subs' /\ ~Visible(p)
    BY <1>1 DEF Stale
  <2> QED
    BY <2>1 DEF Revalidate, Stale
<1> QED
  BY <1>2 DEF Revalidate

LEMMA AnsweredKeeps ==
    ASSUME SessionsInv, NEW c \in Conn, Answered(c)
    PROVE  SessionsInv'
<1> USE DEF SessionsInv
<1> DEFINE r == [who |-> conn[c].who, at |-> "live", allowed |-> conn[c].allowed,
                 owed |-> FALSE, spoke |-> conn[c].spoke]
<1>1. conn[c] \in ConnState /\ conn[c].at = "answering"
  BY DEF Types, Answered, Is
<1>2. SetsOwed(c, "live", FALSE)
  BY DEF Answered, SetsOwed
<1>3. conn' \in [Conn -> ConnState] /\ conn'[c] = r /\ Elsewhere(c)
  BY <1>2, MovesOwing DEF Phase
<1>4. /\ UNCHANGED <<access, clients, protocol, sinks, latest>>
      /\ subs' \subseteq subs
      /\ \/ Stale' = {}
         \/ ~conn[c].owed /\ UNCHANGED <<subs, slipped>>
  <2>1. UNCHANGED <<access, clients, protocol, sinks, latest>>
    BY DEF Answered
  <2>2. CASE conn[c].owed
    BY <2>1, <2>2, RevalidatingLeavesNothingStale DEF Answered
  <2>3. CASE ~conn[c].owed
    BY <2>1, <2>3 DEF Answered
  <2> QED
    BY <2>1, <2>2, <2>3
<1>5. Types' /\ ConnsConsistent'
  BY <1>1, <1>3, <1>4 DEF Types, ConnsConsistent, Elsewhere, access
<1>6. ClientsConnected' /\ SinksConnected' /\ LatestRegistered' /\ SubscribersConnected'
  BY <1>1, <1>3, <1>4, StayingLiveKeepsMaps DEF StaysLive, InSinks
<1>7. StaleSubscriptionsExplained'
  <2>1. CASE Stale' = {}
    BY <2>1 DEF StaleSubscriptionsExplained
  <2>2. CASE ~conn[c].owed /\ UNCHANGED <<subs, slipped>>
    <3>1. Stale' = Stale
      BY <1>4, <2>2 DEF Stale, Visible, access
    <3>2. \A d \in Conn : conn[d].owed => conn'[d].owed
      BY <1>3, <2>2 DEF Elsewhere
    <3> QED
      BY <2>2, <3>1, <3>2 DEF StaleSubscriptionsExplained
  <2> QED
    BY <1>4, <2>1, <2>2
<1> QED
  BY <1>5, <1>6, <1>7

LEMMA AnswerLostKeeps ==
    ASSUME SessionsInv, NEW c \in Conn, AnswerLost(c)
    PROVE  SessionsInv'
<1> USE DEF SessionsInv
<1> DEFINE r == [who |-> conn[c].who, at |-> "unsink", allowed |-> conn[c].allowed,
                 owed |-> FALSE, spoke |-> conn[c].spoke]
<1>1. conn[c] \in ConnState /\ conn[c].at = "answering"
  BY DEF Types, AnswerLost, Is
<1>2. SetsOwed(c, "unsink", FALSE)
  BY DEF AnswerLost, SetsOwed
<1>3. conn' \in [Conn -> ConnState] /\ conn'[c] = r /\ Elsewhere(c)
  BY <1>2, MovesOwing DEF Phase
<1>4. UNCHANGED <<access, maps, latest>> /\ slipped' = slipped \cup Stale
  BY DEF AnswerLost
<1> USE DEF access, maps
<1>5. Types' /\ ConnsConsistent'
  BY <1>1, <1>3, <1>4 DEF Types, ConnsConsistent, Elsewhere
<1>6. ClientsConnected' /\ SinksConnected' /\ LatestRegistered' /\ SubscribersConnected'
  BY <1>1, <1>3, <1>4, StayingLiveKeepsMaps DEF StaysLive, InSinks
<1>7. StaleSubscriptionsExplained'
  <2>1. Stale' = Stale
    BY <1>4 DEF Stale, Visible
  <2> QED
    BY <1>4, <2>1 DEF StaleSubscriptionsExplained
<1> QED
  BY <1>5, <1>6, <1>7

-----------------------------------------------------------------------------
(* Going. *)

(* A connection that moves on towards its end. *)
LEMMA GoingOn ==
    ASSUME SessionsInv, NEW c \in Conn, NEW phase \in Phase, Goto(c, phase),
           conn[c].at # "answering", conn[c].at # "subscribing",
           phase \notin {"new", "known", "registered"}, UNCHANGED access
    PROVE  /\ MovesTo(c, phase) /\ conn[c] \in ConnState /\ Who(c) \in Member
           /\ ConnsConsistent'
           /\ \A d \in Conn : conn[d].owed => conn'[d].owed
<1>1. MovesTo(c, phase)
  BY GotoMoves DEF SessionsInv
<1>2. conn[c] \in ConnState
  BY DEF SessionsInv, Types
<1>3. ConnsConsistent'
  BY <1>1 DEF SessionsInv, ConnsConsistent, MovesTo, Elsewhere
<1>4. \A d \in Conn : conn[d].owed => conn'[d].owed
  BY <1>1 DEF MovesTo, Elsewhere
<1> QED
  BY <1>1, <1>2, <1>3, <1>4 DEF Who, ConnState

LEMMA DisconnectKeeps ==
    ASSUME SessionsInv, NEW c \in Conn, Disconnect(c)
    PROVE  SessionsInv'
<1> USE DEF SessionsInv
<1>1. /\ conn[c].at = "live" /\ Goto(c, "unsink")
      /\ UNCHANGED <<access, maps, latest, slipped>>
  BY DEF Disconnect, Is
<1>2. /\ MovesTo(c, "unsink") /\ ConnsConsistent'
      /\ \A d \in Conn : conn[d].owed => conn'[d].owed
  BY <1>1, GoingOn DEF Phase
<1> USE DEF access, maps, MovesTo
<1>3. Types'
  BY <1>1, <1>2 DEF Types
<1>4. ClientsConnected' /\ SinksConnected' /\ LatestRegistered' /\ SubscribersConnected'
  BY <1>1, <1>2, StayingLiveKeepsMaps DEF StaysLive, InSinks
<1>5. StaleSubscriptionsExplained'
  BY <1>1, <1>2 DEF StaleSubscriptionsExplained, Stale, Visible
<1> QED
  BY <1>2, <1>3, <1>4, <1>5

LEMMA CloseVoiceKeeps ==
    ASSUME SessionsInv, NEW c \in Conn, CloseVoice(c)
    PROVE  SessionsInv'
<1> USE DEF SessionsInv
<1>1. /\ conn[c].at = "unsink" /\ Goto(c, "unclient")
      /\ UNCHANGED <<access, clients, subs, protocol, latest, slipped>>
  BY DEF CloseVoice, Is
<1>2. /\ MovesTo(c, "unclient") /\ Who(c) \in Member /\ ConnsConsistent'
      /\ \A d \in Conn : conn[d].owed => conn'[d].owed
  BY <1>1, GoingOn DEF Phase
<1>3. /\ sinks'[Who(c)] = NoConn /\ sinks' \in [Member -> Conn \cup {NoConn}]
      /\ \A m \in Member : m # Who(c) => sinks'[m] = sinks[m]
  BY <1>2 DEF CloseVoice, Types
<1> USE DEF access, MovesTo, Elsewhere
<1>4. Types'
  BY <1>1, <1>2, <1>3 DEF Types
<1>5. ClientsConnected' /\ SubscribersConnected'
  BY <1>1, <1>2 DEF ClientsConnected, SubscribersConnected, InClients, MaySubscribe, Types
<1>6. SinksConnected'
  BY <1>1, <1>2, <1>3 DEF SinksConnected, Types, Who
<1>7. LatestRegistered'
  BY <1>1, <1>2 DEF LatestRegistered, InLatest, InClients, Types
<1>8. StaleSubscriptionsExplained'
  BY <1>1, <1>2 DEF StaleSubscriptionsExplained, Stale, Visible
<1> QED
  BY <1>2, <1>4, <1>5, <1>6, <1>7, <1>8

LEMMA EvictKeeps ==
    ASSUME SessionsInv, NEW c \in Conn, Evict(c)
    PROVE  SessionsInv'
<1> USE DEF SessionsInv
<1>1. /\ conn[c].at = "unclient" /\ Goto(c, "unsubscribe")
      /\ UNCHANGED <<access, subs, sinks, latest, slipped>>
  BY DEF Evict, Is
<1>2. /\ MovesTo(c, "unsubscribe") /\ Who(c) \in Member /\ ConnsConsistent'
      /\ \A d \in Conn : conn[d].owed => conn'[d].owed
  BY <1>1, GoingOn DEF Phase
<1>3. /\ clients' \in [Member -> Conn \cup {NoConn}] /\ protocol' \in [Member -> {1, 2}]
      /\ clients'[Who(c)] # c
      /\ \A m \in Member :
            clients[m] # c => clients'[m] = clients[m] /\ protocol'[m] = protocol[m]
      /\ \A m \in Member : clients'[m] # NoConn => clients'[m] = clients[m]
  <2>1. CASE StillOurs(c)
    <3>1. /\ clients' = [clients EXCEPT ![Who(c)] = NoConn]
          /\ protocol' = [protocol EXCEPT ![Who(c)] = 1]
      BY <2>1 DEF Evict
    <3> QED
      BY <1>2, <2>1, <3>1, SessionsAssumption DEF StillOurs, Types
  <2>2. CASE ~StillOurs(c)
    BY <2>2 DEF Evict, StillOurs, Types
  <2> QED
    BY <2>1, <2>2
<1> USE DEF access, MovesTo, Elsewhere
<1>4. Types'
  BY <1>1, <1>2, <1>3 DEF Types
<1>5. ClientsConnected'
  BY <1>1, <1>2, <1>3 DEF ClientsConnected, InClients, Types, Who
<1>6. SinksConnected' /\ SubscribersConnected'
  BY <1>1, <1>2 DEF SinksConnected, SubscribersConnected, InSinks, MaySubscribe, Types
<1>7. LatestRegistered'
  BY <1>1, <1>2, <1>3 DEF LatestRegistered, InLatest, InClients, Types, Who
<1>8. StaleSubscriptionsExplained'
  BY <1>1, <1>2 DEF StaleSubscriptionsExplained, Stale, Visible
<1> QED
  BY <1>2, <1>4, <1>5, <1>6, <1>7, <1>8

LEMMA UnsubscribeKeeps ==
    ASSUME SessionsInv, NEW c \in Conn, Unsubscribe(c)
    PROVE  SessionsInv'
<1> USE DEF SessionsInv
<1>1. /\ conn[c].at = "unsubscribe" /\ Goto(c, "leave")
      /\ UNCHANGED <<access, clients, protocol, sinks, latest>>
      /\ subs' = subs \ Of(Who(c)) /\ slipped' = slipped \ Of(Who(c))
  BY DEF Unsubscribe, Is, WithoutMine
<1>2. /\ MovesTo(c, "leave") /\ Who(c) \in Member /\ ConnsConsistent'
      /\ \A d \in Conn : conn[d].owed => conn'[d].owed
  BY <1>1, GoingOn DEF Phase
<1> USE DEF access, MovesTo, Elsewhere
<1>3. Types'
  BY <1>1, <1>2 DEF Types
<1>4. ClientsConnected' /\ SinksConnected'
  BY <1>1, <1>2 DEF ClientsConnected, SinksConnected, InClients, InSinks, Types
<1>5. SubscribersConnected'
  <2>1. ASSUME NEW p \in subs'
        PROVE  \E d \in Conn : conn'[d].who = p[1] /\ conn'[d].at \in MaySubscribe
    <3>1. p \in subs /\ p[1] # Who(c)
      BY <1>1, PairsOfAMember DEF Types
    <3>2. PICK d \in Conn : conn[d].who = p[1] /\ conn[d].at \in MaySubscribe
      BY <3>1 DEF SubscribersConnected
    <3> QED
      BY <1>2, <3>1, <3>2 DEF Who
  <2> QED
    BY <2>1 DEF SubscribersConnected
<1>6. LatestRegistered'
  BY <1>1, <1>2 DEF LatestRegistered, InLatest, InClients, Types
<1>7. StaleSubscriptionsExplained'
  <2>1. \A p : Visible(p)' <=> Visible(p)
    BY <1>1 DEF Visible
  <2>2. \A p \in Stale' : p \in Stale /\ p \notin Of(Who(c))
    BY <1>1, <2>1 DEF Stale
  <2> QED
    BY <1>1, <1>2, <2>2 DEF StaleSubscriptionsExplained
<1> QED
  BY <1>2, <1>3, <1>4, <1>5, <1>6, <1>7

LEMMA LeaveKeeps ==
    ASSUME SessionsInv, NEW c \in Conn, Leave(c)
    PROVE  SessionsInv'
<1> USE DEF SessionsInv
<1>1. conn[c].at = "leave" /\ UNCHANGED <<access, clients, protocol, sinks>> /\ Revalidate
  BY DEF Leave, Is
<1>2. conn' \in [Conn -> ConnState] /\ conn'[c] = Closed /\ Elsewhere(c)
  <2>1. Closed \in ConnState /\ conn' = [conn EXCEPT ![c] = Closed]
    BY ClosedIs DEF Leave
  <2> QED
    BY <2>1, OneConnection
<1>3. /\ Closed.at = "done" /\ Closed.allowed = {} /\ Closed.owed = FALSE
      /\ Closed.spoke = FALSE
  BY ClosedIs
<1>4. /\ latest' \in [Member -> Conn \cup {NoConn}]
      /\ \A m \in Member : latest'[m] # NoConn => latest'[m] = latest[m] /\ latest[m] # c
  BY DEF Leave, Types
<1>5. Stale' = {} /\ subs' \subseteq subs /\ slipped' = {}
  BY <1>1, RevalidatingLeavesNothingStale DEF Revalidate
<1> USE DEF access, Elsewhere
<1>6. Types' /\ ConnsConsistent'
  BY <1>1, <1>2, <1>3, <1>4, <1>5 DEF Types, ConnsConsistent
<1>7. ClientsConnected' /\ SinksConnected' /\ SubscribersConnected'
  BY <1>1, <1>2, <1>5
  DEF ClientsConnected, SinksConnected, SubscribersConnected, InClients, InSinks,
      MaySubscribe, Types
<1>8. LatestRegistered'
  BY <1>1, <1>2, <1>4 DEF LatestRegistered, InLatest, InClients, Types
<1>9. StaleSubscriptionsExplained'
  BY <1>5 DEF StaleSubscriptionsExplained
<1> QED
  BY <1>6, <1>7, <1>8, <1>9

-----------------------------------------------------------------------------
(* The theorems. *)

LEMMA NextKeepsSessionsInv == SessionsInv /\ [SessionsNext]_sessionVars => SessionsInv'
<1> SUFFICES ASSUME SessionsInv, [SessionsNext]_sessionVars PROVE SessionsInv'
  OBVIOUS
<1>1. ASSUME NEW c \in Conn, Coming(c) PROVE SessionsInv'
  BY <1>1, AuthenticateKeeps, UnreachableKeeps, RegisterKeeps, OpenVoiceKeeps,
     NegotiateProtocolKeeps DEF Coming
<1>2. ASSUME NEW c \in Conn, Asking(c) PROVE SessionsInv'
  BY <1>2, SubscribeFilterKeeps, SubscribeWriteKeeps, RequestsKeep, AnsweredKeeps,
     AnswerLostKeeps DEF Asking
<1>3. ASSUME NEW c \in Conn, Going(c) PROVE SessionsInv'
  BY <1>3, DisconnectKeeps, CloseVoiceKeeps, EvictKeeps, UnsubscribeKeeps, LeaveKeeps DEF Going
<1>4. CASE UNCHANGED sessionVars
  BY <1>4 DEF sessionVars, access, maps, SessionsInv, Types, ConnsConsistent, ClientsConnected,
              SinksConnected, SubscribersConnected, LatestRegistered,
              StaleSubscriptionsExplained, Stale, Visible
<1> QED
  BY <1>1, <1>2, <1>3, <1>4 DEF SessionsNext

(* Types of the maps, and what they say of connections: nothing is left of  *)
(* a member whose last connection is gone, for any number of connections of *)
(* any members closing in any order (cleanup_session).                      *)
THEOREM SessionsTypeInvariant == SessionsSpec => []SessionsTypeOK
<1>1. SessionsInv => SessionsTypeOK
  BY InvImpliesProperties
<1> QED
  BY <1>1, InitEstablishesSessionsInv, NextKeepsSessionsInv, PTL DEF SessionsSpec

(* The connection a member registered last keeps its slot and the version   *)
(* it negotiated, whatever the overtaken ones do (the same-connection guard *)
(* of cleanup_session).                                                     *)
THEOREM LastConnectionWins == SessionsSpec => []LatestConnectionKept
<1>1. SessionsInv => LatestConnectionKept
  BY InvImpliesProperties
<1> QED
  BY <1>1, InitEstablishesSessionsInv, NextKeepsSessionsInv, PTL DEF SessionsSpec

(* A subscription outlives its member's sight of the channel only through   *)
(* the subscribe race, a lost answer or a deleted category, and only until  *)
(* the next revalidation (revalidate, event_changes_access).                *)
THEOREM StaleSubscriptionsAreExplained == SessionsSpec => []StaleSubscriptionsExplained
<1>1. SessionsInv => StaleSubscriptionsExplained
  BY InvImpliesProperties
<1> QED
  BY <1>1, InitEstablishesSessionsInv, NextKeepsSessionsInv, PTL DEF SessionsSpec
=============================================================================
