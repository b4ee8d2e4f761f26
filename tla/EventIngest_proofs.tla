------------------------ MODULE EventIngest_proofs ------------------------
(***************************************************************************)
(* Theorems about EventIngest, for any members, channels, blobs and legacy *)
(* messages, and any order of requests, sweeps, crashes and restarts.      *)
(*                                                                         *)
(* What the messages table says of the log does not depend on the files:   *)
(* RowsInv is about the log and the rows alone, and CountInv adds the      *)
(* counts to it.                                                           *)
(***************************************************************************)
EXTENDS EventIngest, Functions, FiniteSetTheorems, WellFoundedInduction, TLAPS

EventRecord ==
    [kind : {"post", "edit", "delete", "redact"}, author : Member,
     channel : Channel \cup {None}, target : Nat \cup {None}, blob : Blob \cup {None}]

Row ==
    [author : Member \cup {Nobody}, body : Nat \cup Legacy \cup {Gone},
     reply : Nat \cup Legacy \cup {None, Gone}]

LogSound ==
    /\ log \in Seq(EventRecord) /\ Len(log) <= MaxLog
    /\ \A i \in DOMAIN log : log[i].kind \in {"edit", "delete"} => log[i].target \in Events("post")
    /\ \A i \in Events("edit") : log[i].author = log[log[i].target].author

RowsTyped == DOMAIN rows \subseteq Keys /\ rows \in [DOMAIN rows -> Row]

(* A derived row is its post's; a data deletion may have taken the name. *)
FromPosts ==
    \A k \in DOMAIN rows \ Legacy :
        /\ log[k].kind = "post"
        /\ rows[k].author \in {log[k].author, Nobody}
        /\ log[k].channel \in Sealed => rows[k].body \in Nat

RepliesHeld == \A k \in DOMAIN rows : rows[k].reply \in DOMAIN rows \cup {None, Gone}

(* Rows without a name are past being replayed: they must never lag. *)
EditsShown ==
    \A k \in DOMAIN rows \ Legacy :
        (log[k].channel \in Sealed /\ (rows[k].author = Nobody \/ phase \in {"up", "links", "files"})) =>
            \A i \in Events("edit") : log[i].target = k => rows[k].body >= i

ViewComplete == phase \in {"edits", "links", "files"} => Missing = {}

LinksRepaired ==
    phase = "files" =>
        \A i \in Events("post") \cap DOMAIN rows :
            ResolveReply(log[i].target, log[i].channel, rows, log) # None => rows[i].reply # None

Phases == phase \in {"up", "down", "derive", "edits", "links", "files"}

RowsInv ==
    /\ LogSound /\ RowsTyped /\ FromPosts /\ RepliesHeld /\ RepliesStayInChannel
    /\ TombstonesWin /\ EditsShown /\ ViewComplete /\ LinksRepaired
    /\ Phases /\ deletions \subseteq Member

-----------------------------------------------------------------------------
(* What the helpers do. *)

LEMMA LogLength ==
    ASSUME LogSound
    PROVE  /\ Len(log) \in Nat /\ DOMAIN log = 1..Len(log)
           /\ \A i \in DOMAIN log : log[i] \in EventRecord
BY DEF LogSound

(* An accepted event leaves the log's past as it was. *)
LEMMA Appended ==
    ASSUME LogSound, NEW e \in EventRecord, Len(log) < MaxLog, log' = Append(log, e)
    PROVE  /\ Len(log') = Len(log) + 1
           /\ Len(log') <= MaxLog /\ log' \in Seq(EventRecord)
           /\ DOMAIN log' = DOMAIN log \cup {Len(log) + 1}
           /\ \A i \in DOMAIN log : log'[i] = log[i] /\ i # Len(log) + 1
           /\ log'[Len(log) + 1] = e
           /\ DOMAIN log = 1..Len(log)
<1>1. Len(log) \in Nat /\ DOMAIN log = 1..Len(log) /\ log \in Seq(EventRecord)
    BY LogLength DEF LogSound
<1>2. MaxLog \in Nat
    BY StoreConstants
<1>3. log' \in Seq(EventRecord) /\ Len(log') = Len(log) + 1
    BY <1>1
<1>4. DOMAIN log' = 1..(Len(log) + 1)
    BY <1>1, <1>3
<1>5. \A i \in 1..Len(log) : log'[i] = log[i]
    BY <1>1
<1>6. log'[Len(log) + 1] = e
    BY <1>1
<1> QED
    BY <1>1, <1>2, <1>3, <1>4, <1>5, <1>6

(* The log stays sound when what is appended aims at a post, and an edit   *)
(* is its author's.                                                        *)
LEMMA AppendedSound ==
    ASSUME LogSound, NEW e \in EventRecord, Len(log) < MaxLog, log' = Append(log, e),
           e.kind \in {"edit", "delete"} => e.target \in Events("post"),
           e.kind = "edit" => e.author = log[e.target].author
    PROVE  /\ LogSound'
           /\ Events("post")' = Events("post") \cup (IF e.kind = "post" THEN {Len(log) + 1} ELSE {})
           /\ Events("edit")' = Events("edit") \cup (IF e.kind = "edit" THEN {Len(log) + 1} ELSE {})
           /\ \A k : Tombstoned(k)' <=> Tombstoned(k) \/ (e.kind = "delete" /\ e.target = k)
<1>1. /\ Len(log') <= MaxLog /\ log' \in Seq(EventRecord)
      /\ DOMAIN log' = DOMAIN log \cup {Len(log) + 1}
      /\ \A i \in DOMAIN log : log'[i] = log[i] /\ i # Len(log) + 1
      /\ log'[Len(log) + 1] = e
    BY Appended
<1>2. \A kind : Events(kind)' = Events(kind) \cup (IF e.kind = kind THEN {Len(log) + 1} ELSE {})
    BY <1>1 DEF Events
<1>3. \A k : Tombstoned(k)' <=> Tombstoned(k) \/ (e.kind = "delete" /\ e.target = k)
    BY <1>1, <1>2 DEF Tombstoned, Events
<1>4. \A i \in DOMAIN log' :
          log'[i].kind \in {"edit", "delete"} => log'[i].target \in Events("post")'
    BY <1>1, <1>2 DEF LogSound
<1>5. \A i \in Events("edit")' : log'[i].author = log'[log'[i].target].author
  <2>1. \A i \in Events("edit") :
            i \in DOMAIN log /\ log[i].target \in DOMAIN log /\ log'[i] = log[i]
            /\ log'[log[i].target] = log[log[i].target]
    BY <1>1 DEF LogSound, Events
  <2>2. e.kind = "edit" => log'[e.target] = log[e.target]
    BY <1>1 DEF Events
  <2> SUFFICES ASSUME NEW i \in Events("edit")'
               PROVE  log'[i].author = log'[log'[i].target].author
    OBVIOUS
  <2>3. CASE i \in Events("edit")
    BY <2>1, <2>3 DEF LogSound
  <2>4. CASE i = Len(log) + 1 /\ e.kind = "edit"
    BY <1>1, <2>2, <2>4
  <2> QED
    BY <1>2, <2>3, <2>4
<1> QED
    BY <1>1, <1>2, <1>3, <1>4, <1>5 DEF LogSound
-----------------------------------------------------------------------------
(* The log keeps what it has. *)
Grown == /\ Len(log) <= Len(log')
         /\ \A i \in DOMAIN log : i \in DOMAIN log' /\ log'[i] = log[i]

LEMMA GrownKeys ==
    ASSUME LogSound, LogSound', Grown
    PROVE  /\ Keys \subseteq Keys'
           /\ \A k \in Keys \ Legacy : k \in DOMAIN log /\ log'[k] = log[k]
           /\ \A k \in Keys : ChannelOf(k, log') = ChannelOf(k, log)
BY LogLength DEF LogSound, Grown, Keys, ChannelOf

(* Nothing but the phase of the server and what the files hold. *)
LEMMA QuietRows ==
    ASSUME RowsInv, UNCHANGED <<log, rows>>, deletions' \subseteq Member,
           \/ phase' \in {phase, "down"}
           \/ phase = "down" /\ phase' = "derive"
           \/ phase = "files" /\ phase' = "up"
    PROVE  RowsInv'
<1>1. LogSound' /\ RowsTyped' /\ FromPosts' /\ RepliesHeld'
    BY DEF RowsInv, LogSound, RowsTyped, FromPosts, RepliesHeld, Events, Keys
<1>2. RepliesStayInChannel' /\ TombstonesWin'
    BY DEF RowsInv, RepliesStayInChannel, TombstonesWin, Tombstoned, Events, ChannelOf
<1>3. EditsShown' /\ ViewComplete' /\ LinksRepaired' /\ Phases'
    BY DEF RowsInv, EditsShown, ViewComplete, LinksRepaired, Phases, Missing, Events, Tombstoned,
           ResolveReply, ChannelOf
<1> QED
    BY <1>1, <1>2, <1>3 DEF RowsInv

(* Rows that go: no reply is left pointing at them. *)
LEMMA RowsGo ==
    ASSUME RowsInv, LogSound', Grown, NEW gone, gone \subseteq DOMAIN rows,
           rows' = RemoveRows(rows, gone)
    PROVE  /\ RowsTyped' /\ FromPosts' /\ RepliesHeld' /\ RepliesStayInChannel'
           /\ DOMAIN rows' = DOMAIN rows \ gone
           /\ \A k \in DOMAIN rows' : /\ rows'[k].author = rows[k].author
                                      /\ rows'[k].body = rows[k].body
                                      /\ rows[k].reply # None => rows'[k].reply # None
<1>1. /\ DOMAIN rows' = DOMAIN rows \ gone
      /\ rows' = [k \in DOMAIN rows' |-> rows'[k]]
      /\ \A k \in DOMAIN rows' :
            rows'[k] = IF rows[k].reply \in gone THEN [rows[k] EXCEPT !.reply = Gone] ELSE rows[k]
    BY DEF RemoveRows
<1>2. \A k \in DOMAIN rows : rows[k] \in Row
    BY DEF RowsInv, RowsTyped
<1>3. \A k \in DOMAIN rows' :
          /\ rows'[k] \in Row
          /\ rows'[k].author = rows[k].author /\ rows'[k].body = rows[k].body
          /\ rows'[k].reply \in (IF rows[k].reply \in gone THEN {Gone} ELSE {rows[k].reply})
    BY <1>1, <1>2 DEF Row
<1>4. /\ Keys \subseteq Keys'
      /\ \A k \in Keys \ Legacy : k \in DOMAIN log /\ log'[k] = log[k]
      /\ \A k \in Keys : ChannelOf(k, log') = ChannelOf(k, log)
    BY GrownKeys DEF RowsInv
<1>5. DOMAIN rows \subseteq Keys
    BY DEF RowsInv, RowsTyped
<1>6. RowsTyped'
    BY <1>1, <1>3, <1>4, <1>5 DEF RowsTyped
<1>7. FromPosts'
    BY <1>1, <1>3, <1>4, <1>5 DEF RowsInv, FromPosts
<1>8. RepliesHeld'
    BY <1>1, <1>3 DEF RowsInv, RepliesHeld
<1>9. Gone \notin DOMAIN rows
    BY <1>5, LogLength, StoreConstants DEF RowsInv, Keys
<1>10. RepliesStayInChannel'
  <2> SUFFICES ASSUME NEW k \in DOMAIN rows' \ Legacy, rows'[k].reply \in DOMAIN rows'
               PROVE  ChannelOf(rows'[k].reply, log') = log'[k].channel
    BY DEF RepliesStayInChannel
  <2>1. rows'[k].reply = rows[k].reply
    BY <1>1, <1>3, <1>9
  <2> QED
    BY <1>1, <1>4, <1>5, <2>1 DEF RowsInv, RepliesStayInChannel
<1>11. \A k \in DOMAIN rows' : rows[k].reply # None => rows'[k].reply # None
    BY <1>3, StoreConstants
<1> QED
    BY <1>1, <1>3, <1>6, <1>7, <1>8, <1>10, <1>11

(* A row that comes, and points at nothing or at a row of its channel. *)
LEMMA RowComes ==
    ASSUME RowsInv, LogSound', Grown, NEW k \in Keys', k \notin DOMAIN rows,
           DOMAIN rows' = DOMAIN rows \cup {k},
           rows' = [j \in DOMAIN rows' |-> rows'[j]],
           \A j \in DOMAIN rows : rows'[j] = rows[j],
           rows'[k] \in Row,
           rows'[k].reply \in DOMAIN rows \cup {None},
           k \notin Legacy =>
               /\ log'[k].kind = "post" /\ rows'[k].author = log'[k].author /\ rows'[k].body \in Nat
               /\ rows'[k].reply \in DOMAIN rows =>
                      ChannelOf(rows'[k].reply, log') = log'[k].channel
    PROVE  RowsTyped' /\ FromPosts' /\ RepliesHeld' /\ RepliesStayInChannel'
<1>4. /\ Keys \subseteq Keys'
      /\ \A j \in Keys \ Legacy : j \in DOMAIN log /\ log'[j] = log[j]
      /\ \A j \in Keys : ChannelOf(j, log') = ChannelOf(j, log)
    BY GrownKeys DEF RowsInv
<1>5. DOMAIN rows \subseteq Keys /\ rows \in [DOMAIN rows -> Row]
    BY DEF RowsInv, RowsTyped
<1>6. RowsTyped'
    BY <1>4, <1>5 DEF RowsTyped
<1>7. FromPosts'
    BY <1>4, <1>5 DEF RowsInv, FromPosts
<1>8. RepliesHeld'
    BY DEF RowsInv, RepliesHeld
<1>9. Keys' \cap {None, Gone} = {}
    BY LogLength, StoreConstants DEF LogSound, Keys
<1>10. \A j \in DOMAIN rows : rows[j].reply # k
    BY <1>9 DEF RowsInv, RepliesHeld
<1>11. RepliesStayInChannel'
  <2> SUFFICES ASSUME NEW j \in DOMAIN rows' \ Legacy, rows'[j].reply \in DOMAIN rows'
               PROVE  ChannelOf(rows'[j].reply, log') = log'[j].channel
    BY DEF RepliesStayInChannel
  <2>1. CASE j = k
    BY <1>9, <2>1
  <2>2. CASE j # k
    BY <1>4, <1>5, <1>10, <2>2 DEF RowsInv, RepliesStayInChannel
  <2> QED
    BY <2>1, <2>2
<1> QED
    BY <1>6, <1>7, <1>8, <1>11

(* Rows that are changed in place. *)
LEMMA RowsChange ==
    ASSUME RowsInv, LogSound', Grown,
           DOMAIN rows' = DOMAIN rows,
           rows' = [j \in DOMAIN rows' |-> rows'[j]],
           \A k \in DOMAIN rows :
               /\ rows'[k] \in Row
               /\ rows'[k].reply = rows[k].reply
               /\ rows'[k].author \in {rows[k].author, Nobody}
               /\ k \notin Legacy /\ log[k].channel \in Sealed => rows'[k].body \in Nat
    PROVE  RowsTyped' /\ FromPosts' /\ RepliesHeld' /\ RepliesStayInChannel'
<1>4. /\ Keys \subseteq Keys'
      /\ \A j \in Keys \ Legacy : j \in DOMAIN log /\ log'[j] = log[j]
      /\ \A j \in Keys : ChannelOf(j, log') = ChannelOf(j, log)
    BY GrownKeys DEF RowsInv
<1>5. DOMAIN rows \subseteq Keys
    BY DEF RowsInv, RowsTyped
<1>6. RowsTyped'
    BY <1>4, <1>5 DEF RowsTyped
<1>7. FromPosts'
    BY <1>4, <1>5 DEF RowsInv, FromPosts
<1>8. RepliesHeld' /\ RepliesStayInChannel'
    BY <1>4, <1>5 DEF RowsInv, RepliesHeld, RepliesStayInChannel
<1> QED
    BY <1>6, <1>7, <1>8
-----------------------------------------------------------------------------
(* Nothing aims at what is not in the log yet. *)
LEMMA NothingAhead ==
    ASSUME LogSound, NEW k, k \notin DOMAIN log
    PROVE  ~Tombstoned(k) /\ \A i \in Events("edit") : log[i].target # k
BY DEF LogSound, Tombstoned, Events

LEMMA GrownByOne ==
    ASSUME LogSound, NEW e \in EventRecord, Len(log) < MaxLog, log' = Append(log, e)
    PROVE  Grown
BY Appended, LogLength DEF Grown

LEMMA PostRows ==
    ASSUME RowsInv, NEW a \in Member, NEW c \in Channel, NEW t \in DOMAIN log \cup {None},
           NEW blob \in Blob \cup {None}, Post(a, c, t, blob)
    PROVE  RowsInv'
<1> DEFINE e == Event("post", a, c, t, blob)
           i == Len(log) + 1
<1>1. LogSound /\ e \in EventRecord /\ Len(log) < MaxLog /\ log' = Append(log, e)
    BY LogLength DEF RowsInv, Post, Accept, Event, EventRecord
<1>2. /\ LogSound'
      /\ Events("edit")' = Events("edit")
      /\ \A k : Tombstoned(k)' <=> Tombstoned(k)
    BY <1>1, AppendedSound DEF Event
<1>3. Grown /\ Len(log') = i /\ log'[i] = e /\ i \in DOMAIN log' /\ i \notin DOMAIN log
    BY <1>1, Appended, GrownByOne
<1>4. DOMAIN rows \subseteq Keys /\ rows \in [DOMAIN rows -> Row] /\ i \notin Keys /\ i \in Keys'
      /\ i \in Nat /\ i \notin Legacy
    BY <1>1, <1>3, LogLength, StoreConstants DEF RowsInv, RowsTyped, Keys
<1>6. /\ DOMAIN rows' = DOMAIN rows \cup {i}
      /\ rows' = [j \in DOMAIN rows' |-> rows'[j]]
      /\ \A j \in DOMAIN rows : rows'[j] = rows[j]
      /\ rows'[i] = DerivedRow(i, rows, log')
    BY <1>1, <1>4 DEF Post, AddRow
<1>7. DerivedRow(i, rows, log') = [author |-> a, body |-> i,
                                   reply |-> ResolveReply(t, c, rows, log')]
    BY <1>3 DEF DerivedRow, Event
<1> HIDE DEF e, i
<1>8. /\ rows'[i].author = a /\ rows'[i].body = i
      /\ rows'[i].reply = ResolveReply(t, c, rows, log')
      /\ rows'[i] = [author |-> a, body |-> i, reply |-> ResolveReply(t, c, rows, log')]
    BY <1>6, <1>7
<1>9. /\ ResolveReply(t, c, rows, log') \in DOMAIN rows \cup {None}
      /\ ResolveReply(t, c, rows, log') \in DOMAIN rows =>
            ChannelOf(ResolveReply(t, c, rows, log'), log') = c
    BY <1>4, LogLength, StoreConstants DEF ResolveReply, RowsInv, Keys
<1>10. rows'[i] \in Row
    BY <1>4, <1>8, <1>9, <1>1, LogLength DEF Row, Keys
<1>11. RowsTyped' /\ FromPosts' /\ RepliesHeld' /\ RepliesStayInChannel'
  <2>1. /\ log'[i].kind = "post" /\ rows'[i].author = log'[i].author /\ rows'[i].body \in Nat
        /\ rows'[i].reply \in DOMAIN rows => ChannelOf(rows'[i].reply, log') = log'[i].channel
    BY <1>3, <1>4, <1>8, <1>9 DEF Event, e
  <2> QED
    BY <1>2, <1>3, <1>4, <1>6, <1>8, <1>9, <1>10, <2>1, RowComes
<1>12. TombstonesWin'
    BY <1>1, <1>2, <1>3, <1>6, NothingAhead DEF RowsInv, TombstonesWin
<1>13. EditsShown'
  <2>1. \A x \in Events("edit") : log'[x] = log[x] /\ log[x].target # i
    BY <1>1, <1>3, NothingAhead DEF Events, Grown
  <2>2. \A k \in DOMAIN rows \ Legacy : log'[k] = log[k]
    BY <1>1, <1>2, <1>3, <1>4, GrownKeys
  <2>3. phase' = phase
    BY DEF Post
  <2> QED
    BY <1>2, <1>6, <2>1, <2>2, <2>3 DEF RowsInv, EditsShown
<1>14. ViewComplete' /\ LinksRepaired' /\ Phases' /\ deletions' \subseteq Member
    BY DEF RowsInv, Post, Accept, ViewComplete, LinksRepaired, Phases
<1> QED
    BY <1>2, <1>11, <1>12, <1>13, <1>14 DEF RowsInv

LEMMA EditSealedRows ==
    ASSUME RowsInv, NEW a \in Member, NEW t \in DOMAIN log, EditSealed(a, t)
    PROVE  RowsInv'
<1> DEFINE e == Event("edit", a, log[t].channel, t, None)
           i == Len(log) + 1
<1>1. /\ t \in Events("post") /\ t \in DOMAIN rows /\ rows[t].author = a
      /\ phase = "up" /\ phase' = phase /\ deletions' = deletions
      /\ log[t].channel \in Sealed
      /\ rows' = [rows EXCEPT ![t].body = i]
    BY DEF EditSealed, SealedEditRefused, SealedEditTarget, Accept
<1>2. LogSound /\ t \in Nat /\ t \notin Legacy
    BY LogLength, StoreConstants DEF RowsInv
<1>3. log[t].author = a
    BY <1>1, <1>2, StoreConstants DEF RowsInv, FromPosts
<1>4. e \in EventRecord /\ Len(log) < MaxLog /\ log' = Append(log, e)
    BY <1>2, LogLength DEF EditSealed, Accept, Event, EventRecord
<1>5. /\ LogSound'
      /\ Events("edit")' = Events("edit") \cup {i}
      /\ \A k : Tombstoned(k)' <=> Tombstoned(k)
    BY <1>1, <1>2, <1>3, <1>4, AppendedSound DEF Event
<1>6. Grown /\ log'[i] = e /\ i \in Nat /\ \A x \in Events("edit") : x \in Nat /\ x < i
    BY <1>2, <1>4, Appended, GrownByOne, LogLength DEF Events
<1>7. rows \in [DOMAIN rows -> Row] /\ DOMAIN rows \subseteq Keys
    BY DEF RowsInv, RowsTyped
<1>8. /\ DOMAIN rows' = DOMAIN rows
      /\ rows' = [j \in DOMAIN rows' |-> rows'[j]]
      /\ \A k \in DOMAIN rows : rows'[k] = IF k = t THEN [rows[t] EXCEPT !.body = i] ELSE rows[k]
    BY <1>1, <1>7
<1>9. \A k \in DOMAIN rows :
          /\ rows'[k] \in Row /\ rows'[k].reply = rows[k].reply
          /\ rows'[k].author = rows[k].author
          /\ rows'[k].body = IF k = t THEN i ELSE rows[k].body
    BY <1>6, <1>7, <1>8 DEF Row
<1>10. RowsTyped' /\ FromPosts' /\ RepliesHeld' /\ RepliesStayInChannel'
    BY <1>5, <1>6, <1>8, <1>9, RowsChange DEF RowsInv, FromPosts
<1>11. TombstonesWin'
    BY <1>5, <1>8 DEF RowsInv, TombstonesWin
<1>12. EditsShown'
  <2>1. \A x \in Events("edit") : log'[x] = log[x]
    BY <1>6 DEF Events, Grown
  <2>2. \A k \in DOMAIN rows \ Legacy : log'[k] = log[k]
    BY <1>2, <1>5, <1>6, <1>7, GrownKeys
  <2> SUFFICES ASSUME NEW k \in DOMAIN rows \ Legacy, log[k].channel \in Sealed,
                      NEW x \in Events("edit")', log'[x].target = k
               PROVE  rows'[k].body >= x
    BY <1>8, <2>2 DEF EditsShown
  <2>3. CASE x = i
    BY <1>6, <1>9, <2>3 DEF Event
  <2>4. CASE x \in Events("edit") /\ k = t
    <3>1. rows'[k].body = i /\ x \in Nat /\ x < i /\ i \in Nat
      BY <1>1, <1>6, <1>9, <2>4
    <3> HIDE DEF i
    <3> QED
      BY <3>1
  <2>5. CASE x \in Events("edit") /\ k # t
    BY <1>1, <1>9, <2>1, <2>5 DEF RowsInv, EditsShown
  <2> QED
    BY <1>5, <2>3, <2>4, <2>5
<1>13. ViewComplete' /\ LinksRepaired' /\ Phases' /\ deletions' \subseteq Member
    BY <1>1 DEF RowsInv, ViewComplete, LinksRepaired, Phases
<1> QED
    BY <1>5, <1>10, <1>11, <1>12, <1>13 DEF RowsInv
(* No edit is added and no served body is changed. *)
LEMMA EditsStillShown ==
    ASSUME RowsInv, LogSound', Grown, phase = "up", Events("edit")' = Events("edit"),
           DOMAIN rows' \subseteq DOMAIN rows,
           \A k \in DOMAIN rows' \ Legacy : log[k].channel \in Sealed => rows'[k].body = rows[k].body
    PROVE  EditsShown'
<1>1. \A x \in Events("edit") : log'[x] = log[x]
    BY DEF Events, Grown
<1>2. \A k \in DOMAIN rows \ Legacy : log'[k] = log[k]
    BY GrownKeys DEF RowsInv, RowsTyped
<1> SUFFICES ASSUME NEW k \in DOMAIN rows' \ Legacy, log'[k].channel \in Sealed,
                    NEW x \in Events("edit"), log'[x].target = k
             PROVE  rows'[k].body >= x
    BY DEF EditsShown
<1>3. /\ k \in DOMAIN rows \ Legacy /\ log[k].channel \in Sealed /\ log[x].target = k
      /\ rows'[k].body = rows[k].body
    BY <1>1, <1>2
<1>4. rows[k].body >= x
    BY <1>3 DEF RowsInv, EditsShown
<1> QED
    BY <1>3, <1>4

LEMMA TombstoneRows ==
    ASSUME RowsInv, NEW a \in Member, NEW t \in DOMAIN log, NEW moderating \in BOOLEAN,
           Tombstone(a, t, moderating)
    PROVE  RowsInv'
<1> DEFINE e == Event("delete", a, log[t].channel, t, None)
<1>1. /\ t \in Events("post") /\ t \in DOMAIN rows
      /\ phase = "up" /\ phase' = phase /\ deletions' = deletions
      /\ rows' = RemoveRows(rows, {t})
    BY DEF Tombstone, Accept
<1>2. LogSound /\ t \in Nat
    BY LogLength DEF RowsInv
<1>3. e \in EventRecord /\ Len(log) < MaxLog /\ log' = Append(log, e)
    BY <1>2, LogLength DEF Tombstone, Accept, Event, EventRecord
<1>4. /\ LogSound'
      /\ Events("edit")' = Events("edit")
      /\ \A k : Tombstoned(k)' <=> Tombstoned(k) \/ t = k
    BY <1>1, <1>2, <1>3, AppendedSound DEF Event
<1>5. Grown
    BY <1>2, <1>3, GrownByOne
<1> HIDE DEF e
<1>6. /\ RowsTyped' /\ FromPosts' /\ RepliesHeld' /\ RepliesStayInChannel'
      /\ DOMAIN rows' = DOMAIN rows \ {t}
      /\ \A k \in DOMAIN rows' : /\ rows'[k].author = rows[k].author
                                 /\ rows'[k].body = rows[k].body
                                 /\ rows[k].reply # None => rows'[k].reply # None
  <2>1. {t} \subseteq DOMAIN rows
    BY <1>1
  <2> QED
    BY <1>1, <1>4, <1>5, <2>1, RowsGo
<1>7. TombstonesWin'
    BY <1>4, <1>6 DEF RowsInv, TombstonesWin
<1>8. EditsShown'
  <2>1. /\ DOMAIN rows' \subseteq DOMAIN rows
        /\ \A k \in DOMAIN rows' \ Legacy :
              log[k].channel \in Sealed => rows'[k].body = rows[k].body
    BY <1>6
  <2> QED
    BY <1>1, <1>4, <1>5, <2>1, EditsStillShown
<1>9. ViewComplete' /\ LinksRepaired' /\ Phases' /\ deletions' \subseteq Member
    BY <1>1 DEF RowsInv, ViewComplete, LinksRepaired, Phases
<1> QED
    BY <1>4, <1>6, <1>7, <1>8, <1>9 DEF RowsInv

LEMMA RedactRows ==
    ASSUME RowsInv, NEW a \in Member, NEW b \in Blob, RedactBlob(a, b)
    PROVE  RowsInv'
<1> DEFINE e == Event("redact", a, None, None, b)
<1>1. rows' = rows /\ phase = "up" /\ phase' = phase /\ deletions' = deletions
    BY DEF RedactBlob, Accept
<1>2. LogSound /\ rows \in [DOMAIN rows -> Row] /\ DOMAIN rows \subseteq Keys
    BY DEF RowsInv, RowsTyped
<1>3. e \in EventRecord /\ Len(log) < MaxLog /\ log' = Append(log, e)
    BY DEF RedactBlob, Accept, Event, EventRecord
<1>4. /\ LogSound'
      /\ Events("edit")' = Events("edit")
      /\ \A k : Tombstoned(k)' <=> Tombstoned(k)
    BY <1>2, <1>3, AppendedSound DEF Event
<1>5. Grown
    BY <1>2, <1>3, GrownByOne
<1> HIDE DEF e
<1>6. RowsTyped' /\ FromPosts' /\ RepliesHeld' /\ RepliesStayInChannel'
  <2>1. rows' = [j \in DOMAIN rows' |-> rows'[j]]
    BY <1>1, <1>2
  <2>2. \A k \in DOMAIN rows : rows'[k] \in Row /\ rows'[k] = rows[k]
    BY <1>1, <1>2
  <2> QED
    BY <1>1, <1>4, <1>5, <2>1, <2>2, RowsChange DEF RowsInv, FromPosts
<1>7. TombstonesWin'
    BY <1>1, <1>4 DEF RowsInv, TombstonesWin
<1>8. EditsShown'
    BY <1>1, <1>4, <1>5, EditsStillShown
<1>9. ViewComplete' /\ LinksRepaired' /\ Phases' /\ deletions' \subseteq Member
    BY <1>1 DEF RowsInv, ViewComplete, LinksRepaired, Phases
<1> QED
    BY <1>4, <1>6, <1>7, <1>8, <1>9 DEF RowsInv

LEMMA SentRows ==
    ASSUME RowsInv, NEW l \in Legacy, NEW a \in Member, NEW t \in DOMAIN rows \cup {None},
           NEW blobs, Sends(l, a, t, blobs), phase' \in {"up", "down"}
    PROVE  RowsInv'
<1> DEFINE row == [author |-> a, body |-> l, reply |-> t]
<1>1. /\ l \notin DOMAIN rows /\ rows' = AddRow(rows, l, row)
      /\ phase = "up" /\ phase' \in {"up", "down"} /\ deletions' = deletions /\ log' = log
    BY DEF Sends
<1>2. LogSound /\ LogSound' /\ Grown /\ DOMAIN rows \subseteq Keys /\ rows \in [DOMAIN rows -> Row]
    BY <1>1, LogLength DEF RowsInv, RowsTyped, LogSound, Grown, Events
<1>3. /\ DOMAIN rows' = DOMAIN rows \cup {l}
      /\ rows' = [j \in DOMAIN rows' |-> rows'[j]]
      /\ \A j \in DOMAIN rows : rows'[j] = rows[j]
      /\ rows'[l] = row
    BY <1>1 DEF AddRow
<1>4. row \in Row /\ row.reply = t /\ l \in Keys'
    BY <1>2, LogLength DEF Row, Keys
<1> HIDE DEF row
<1>5. RowsTyped' /\ FromPosts' /\ RepliesHeld' /\ RepliesStayInChannel'
    BY <1>1, <1>2, <1>3, <1>4, RowComes
<1>6. l \notin DOMAIN log
    BY <1>2, LogLength, StoreConstants
<1>7. TombstonesWin'
    BY <1>1, <1>2, <1>3, <1>6, NothingAhead DEF RowsInv, TombstonesWin, Tombstoned, Events
<1>8. EditsShown'
    BY <1>1, <1>3 DEF RowsInv, EditsShown, Events
<1>9. ViewComplete' /\ LinksRepaired' /\ Phases' /\ deletions' \subseteq Member
    BY <1>1 DEF RowsInv, ViewComplete, LinksRepaired, Phases
<1> QED
    BY <1>2, <1>5, <1>7, <1>8, <1>9 DEF RowsInv

LEMMA RemovalRows ==
    ASSUME RowsInv, NEW gone, gone \subseteq DOMAIN rows, rows' = RemoveRows(rows, gone),
           phase = "up", UNCHANGED <<log, phase, deletions>>
    PROVE  RowsInv'
<1>1. LogSound' /\ Grown
    BY LogLength DEF RowsInv, LogSound, Grown, Events
<1>2. /\ RowsTyped' /\ FromPosts' /\ RepliesHeld' /\ RepliesStayInChannel'
      /\ DOMAIN rows' = DOMAIN rows \ gone
      /\ \A k \in DOMAIN rows' : /\ rows'[k].author = rows[k].author
                                 /\ rows'[k].body = rows[k].body
                                 /\ rows[k].reply # None => rows'[k].reply # None
    BY <1>1, RowsGo
<1>3. TombstonesWin'
    BY <1>2 DEF RowsInv, TombstonesWin, Tombstoned, Events
<1>5. EditsShown'
  <2>1. Events("edit")' = Events("edit")
    BY DEF Events
  <2>2. /\ DOMAIN rows' \subseteq DOMAIN rows
        /\ \A k \in DOMAIN rows' \ Legacy :
              log[k].channel \in Sealed => rows'[k].body = rows[k].body
    BY <1>2
  <2> QED
    BY <1>1, <2>1, <2>2, EditsStillShown
<1>4. ViewComplete' /\ LinksRepaired' /\ Phases' /\ deletions' \subseteq Member
    BY DEF RowsInv, ViewComplete, LinksRepaired, Phases
<1> QED
    BY <1>1, <1>2, <1>3, <1>4, <1>5 DEF RowsInv

(* What a data deletion leaves of the rows. *)
LEMMA ErasedRows ==
    ASSUME RowsInv, NEW a \in Member, phase = "up", phase' \in {"up", "down"},
           log' = log, deletions' \subseteq Member, rows' = Anonymized(a)
    PROVE  RowsInv'
<1>1. LogSound' /\ Grown /\ rows \in [DOMAIN rows -> Row]
    BY LogLength DEF RowsInv, LogSound, Grown, Events, RowsTyped
<1>2. /\ DOMAIN rows' = DOMAIN rows
      /\ rows' = [j \in DOMAIN rows' |-> rows'[j]]
    BY DEF Anonymized
<1>4. \A k \in DOMAIN rows :
          /\ rows'[k] \in Row /\ rows'[k].reply = rows[k].reply
          /\ rows'[k].author \in {rows[k].author, Nobody}
          /\ ChannelOf(k, log) \in Sealed => rows'[k].body = rows[k].body
    BY <1>1 DEF Anonymized, Row
<1>5. \A k \in DOMAIN rows \ Legacy : ChannelOf(k, log) = log[k].channel
    BY DEF ChannelOf
<1>6. RowsTyped' /\ FromPosts' /\ RepliesHeld' /\ RepliesStayInChannel'
    BY <1>1, <1>2, <1>4, <1>5, RowsChange DEF RowsInv, FromPosts
<1>7. TombstonesWin'
    BY <1>2 DEF RowsInv, TombstonesWin, Tombstoned, Events
<1>8. EditsShown'
    BY <1>2, <1>4, <1>5 DEF RowsInv, EditsShown, Events
<1>9. ViewComplete' /\ LinksRepaired' /\ Phases'
    BY DEF ViewComplete, LinksRepaired, Phases
<1> QED
    BY <1>1, <1>6, <1>7, <1>8, <1>9 DEF RowsInv
-----------------------------------------------------------------------------
(* The passes of a start. *)

LEMMA GreatestExists ==
    ASSUME NEW S, S \subseteq Nat, S # {}, NEW n \in Nat, \A x \in S : x <= n
    PROVE  \E i \in S : \A j \in S : j <= i
<1> DEFINE T == {n - x : x \in S}
<1>1. T \subseteq Nat /\ T # {}
  <2>1. \A x \in S : n - x \in Nat
    OBVIOUS
  <2>2. PICK x \in S : TRUE
    OBVIOUS
  <2>3. n - x \in T
    OBVIOUS
  <2> QED
    BY <2>1, <2>3
<1>2. PICK m \in T : \A y \in T : ~(<<y, m>> \in OpToRel(<, Nat))
  <2> HIDE DEF T
  <2> QED
    BY <1>1, NatLessThanWellFounded, WFMin
<1>3. PICK i \in S : m = n - i
    BY <1>2
<1>4. \A j \in S : ~(n - j < n - i)
    BY <1>1, <1>2, <1>3 DEF OpToRel
<1> QED
    BY <1>4

LEMMA DeriveRows ==
    ASSUME RowsInv, DeriveMissing
    PROVE  RowsInv'
<1>1. PICK i \in Missing : rows' = AddRow(rows, i, DerivedRow(i, rows, log))
    BY DEF DeriveMissing
<1>2. /\ i \in DOMAIN log /\ log[i].kind = "post" /\ i \notin DOMAIN rows /\ ~Tombstoned(i)
      /\ phase = "derive" /\ phase' = phase /\ log' = log /\ deletions' = deletions
    BY DEF DeriveMissing, Missing, Events, BootVars
<1>3. /\ LogSound /\ LogSound' /\ Grown /\ DOMAIN rows \subseteq Keys /\ rows \in [DOMAIN rows -> Row]
      /\ i \in Keys' /\ i \in Nat /\ i \notin Legacy /\ log[i] \in EventRecord
    BY <1>2, LogLength, StoreConstants DEF RowsInv, RowsTyped, LogSound, Grown, Events, Keys
<1>4. /\ DOMAIN rows' = DOMAIN rows \cup {i}
      /\ rows' = [j \in DOMAIN rows' |-> rows'[j]]
      /\ \A j \in DOMAIN rows : rows'[j] = rows[j]
      /\ rows'[i] = [author |-> log[i].author, body |-> i,
                     reply |-> ResolveReply(log[i].target, log[i].channel, rows, log)]
    BY <1>1, <1>2 DEF AddRow, DerivedRow
<1>5. LET r == ResolveReply(log[i].target, log[i].channel, rows, log)
      IN  /\ r \in DOMAIN rows \cup {None}
          /\ r \in DOMAIN rows => ChannelOf(r, log) = log[i].channel
    BY <1>3, LogLength, StoreConstants DEF ResolveReply, Keys
<1>6. /\ rows'[i] \in Row /\ rows'[i].reply \in DOMAIN rows \cup {None}
      /\ log'[i].kind = "post" /\ rows'[i].author = log'[i].author /\ rows'[i].body \in Nat
      /\ rows'[i].reply \in DOMAIN rows => ChannelOf(rows'[i].reply, log') = log'[i].channel
    BY <1>2, <1>3, <1>4, <1>5, LogLength DEF Row, Keys, EventRecord
<1>7. RowsTyped' /\ FromPosts' /\ RepliesHeld' /\ RepliesStayInChannel'
    BY <1>2, <1>3, <1>4, <1>6, RowComes
<1>8. TombstonesWin'
    BY <1>2, <1>4 DEF RowsInv, TombstonesWin, Tombstoned, Events
<1>9. EditsShown'
  <2>1. rows'[i].author # Nobody
    BY <1>3, <1>4, StoreConstants DEF EventRecord
  <2> QED
    BY <1>2, <1>4, <2>1 DEF RowsInv, EditsShown, Events
<1>10. ViewComplete' /\ LinksRepaired' /\ Phases' /\ deletions' \subseteq Member
    BY <1>2 DEF RowsInv, ViewComplete, LinksRepaired, Phases
<1> QED
    BY <1>3, <1>7, <1>8, <1>9, <1>10 DEF RowsInv

(* No row is tombstoned, so that the pass finds nothing to sweep. *)
LEMMA SweepRows ==
    ASSUME RowsInv, SweepTombstoned
    PROVE  RowsInv' /\ rows' = rows
<1>1. {k \in DOMAIN rows : Tombstoned(k)} = {}
    BY DEF RowsInv, TombstonesWin
<1>2. rows' = rows
    BY <1>1 DEF SweepTombstoned, RemoveRows, RowsInv, RowsTyped
<1>3. /\ phase = "derive" /\ phase' = "edits" /\ Missing = {}
      /\ log' = log /\ deletions' = deletions
    BY DEF SweepTombstoned, BootVars
<1>4. LogSound' /\ RowsTyped' /\ FromPosts' /\ RepliesHeld'
    BY <1>2, <1>3 DEF RowsInv, LogSound, RowsTyped, FromPosts, RepliesHeld, Events, Keys
<1>5. RepliesStayInChannel' /\ TombstonesWin'
    BY <1>2, <1>3 DEF RowsInv, RepliesStayInChannel, TombstonesWin, Tombstoned, Events, ChannelOf
<1>6. EditsShown' /\ ViewComplete' /\ LinksRepaired' /\ Phases'
    BY <1>2, <1>3 DEF RowsInv, EditsShown, ViewComplete, LinksRepaired, Phases, Missing, Events,
                      Tombstoned
<1> QED
    BY <1>2, <1>3, <1>4, <1>5, <1>6 DEF RowsInv

(* The last edit of a row that still has its author is the last edit.      *)
LEMMA LatestIsLast ==
    ASSUME RowsInv, NEW k \in DOMAIN rows \ Legacy, rows[k].author # Nobody,
           NEW x \in Events("edit"), log[x].target = k
    PROVE  LatestBody(k) \in Nat /\ LatestBody(k) >= x
<1>1. LogSound /\ k \in DOMAIN log
    BY LogLength DEF RowsInv, RowsTyped, Keys
<1>2. rows[k].author = log[k].author
    BY DEF RowsInv, FromPosts
<1>3. \A y \in Events("edit") : log[y].target = k => y \in EditsOf(k)
    BY <1>1, <1>2 DEF LogSound, EditsOf
<1>4. EditsOf(k) \subseteq 1..Len(log) /\ Len(log) \in Nat
    BY <1>1, LogLength DEF EditsOf, Events
<1>5. PICK i \in EditsOf(k) : \A j \in EditsOf(k) : j <= i
    BY <1>3, <1>4, GreatestExists
<1>6. LatestBody(k) = CHOOSE y \in EditsOf(k) : \A j \in EditsOf(k) : j <= y
    BY <1>3 DEF LatestBody
<1>7. LatestBody(k) \in EditsOf(k) /\ \A j \in EditsOf(k) : j <= LatestBody(k)
    BY <1>5, <1>6
<1> QED
    BY <1>3, <1>4, <1>7

LEMMA LatestIsBody ==
    ASSUME RowsInv, NEW k \in DOMAIN rows
    PROVE  LatestBody(k) = rows[k].body \/ LatestBody(k) \in Nat
<1>1. EditsOf(k) \subseteq 1..Len(log) /\ Len(log) \in Nat
    BY LogLength DEF EditsOf, Events, RowsInv
<1>2. CASE EditsOf(k) = {}
    BY <1>2 DEF LatestBody
<1>3. CASE EditsOf(k) # {}
  <2>3. EditsOf(k) \subseteq Nat /\ \A x \in EditsOf(k) : x <= Len(log)
    BY <1>1
  <2>1. PICK i \in EditsOf(k) : \A j \in EditsOf(k) : j <= i
    BY <1>1, <1>3, <2>3, GreatestExists
  <2>2. LatestBody(k) = CHOOSE y \in EditsOf(k) : \A j \in EditsOf(k) : j <= y
    BY <1>3 DEF LatestBody
  <2> QED
    BY <1>1, <2>1, <2>2
<1> QED
    BY <1>2, <1>3

LEMMA ReplayRows ==
    ASSUME RowsInv, ReplaySealedEdits
    PROVE  RowsInv'
<1>1. /\ phase = "edits" /\ phase' = "links" /\ log' = log /\ deletions' = deletions
      /\ rows' = [k \in DOMAIN rows |-> [rows[k] EXCEPT !.body = LatestBody(k)]]
    BY DEF ReplaySealedEdits, SealedEditRefused, BootVars
<1>2. LogSound /\ LogSound' /\ Grown /\ rows \in [DOMAIN rows -> Row] /\ Missing = {}
    BY <1>1, LogLength DEF RowsInv, LogSound, Grown, Events, RowsTyped, ViewComplete
<1>3. /\ DOMAIN rows' = DOMAIN rows
      /\ rows' = [k \in DOMAIN rows' |-> rows'[k]]
    BY <1>1
<1>4. \A k \in DOMAIN rows :
          /\ rows'[k] \in Row /\ rows'[k].reply = rows[k].reply
          /\ rows'[k].author = rows[k].author /\ rows'[k].body = LatestBody(k)
    BY <1>1, <1>2, LatestIsBody DEF Row
<1>5. \A k \in DOMAIN rows \ Legacy : log[k].channel \in Sealed => rows'[k].body \in Nat
    BY <1>4, LatestIsBody DEF RowsInv, FromPosts
<1>6. RowsTyped' /\ FromPosts' /\ RepliesHeld' /\ RepliesStayInChannel'
    BY <1>2, <1>3, <1>4, <1>5, RowsChange
<1>7. TombstonesWin'
    BY <1>1, <1>3 DEF RowsInv, TombstonesWin, Tombstoned, Events
<1>8. EditsShown'
  <2> SUFFICES ASSUME NEW k \in DOMAIN rows \ Legacy, log[k].channel \in Sealed,
                      NEW x \in Events("edit"), log[x].target = k
               PROVE  rows'[k].body >= x
    BY <1>1, <1>3 DEF EditsShown, Events
  <2>1. CASE rows[k].author # Nobody
    BY <1>4, <2>1, LatestIsLast
  <2>2. CASE rows[k].author = Nobody
    <3>1. EditsOf(k) = {}
      BY <1>2, <2>2, LogLength, StoreConstants DEF EditsOf, Events, EventRecord
    <3>2. rows'[k].body = rows[k].body
      BY <1>4, <3>1 DEF LatestBody
    <3> QED
      BY <2>2, <3>2 DEF RowsInv, EditsShown
  <2> QED
    BY <2>1, <2>2
<1>9. ViewComplete' /\ LinksRepaired' /\ Phases' /\ deletions' \subseteq Member
    BY <1>1, <1>2, <1>3 DEF RowsInv, ViewComplete, LinksRepaired, Phases, Missing, Events, Tombstoned
<1> QED
    BY <1>2, <1>6, <1>7, <1>8, <1>9 DEF RowsInv
LEMMA RepairRows ==
    ASSUME RowsInv, RepairReplyLinks
    PROVE  RowsInv'
<1> DEFINE found(k) == ResolveReply(log[k].target, log[k].channel, rows, log)
           fixed(k) == IF k \in Legacy \/ rows[k].reply # None THEN rows[k]
                       ELSE [rows[k] EXCEPT !.reply = found(k)]
<1>1. /\ phase = "links" /\ phase' = "files" /\ log' = log /\ deletions' = deletions
      /\ rows' = [k \in DOMAIN rows |-> fixed(k)]
    BY DEF RepairReplyLinks, BootVars
<1>2. LogSound' /\ rows \in [DOMAIN rows -> Row] /\ DOMAIN rows \subseteq Keys /\ Missing = {}
    BY <1>1 DEF RowsInv, LogSound, Events, RowsTyped, ViewComplete
<1>3. DOMAIN rows \subseteq Nat \cup Legacy /\ None \notin DOMAIN rows /\ Gone \notin DOMAIN rows
    BY <1>2, LogLength, StoreConstants DEF RowsInv, Keys
<1>4. \A k \in DOMAIN rows :
          /\ found(k) \in DOMAIN rows \cup {None}
          /\ found(k) \in DOMAIN rows => ChannelOf(found(k), log) = log[k].channel
    BY <1>3 DEF ResolveReply
<1> HIDE DEF found
<1>5. \A k \in DOMAIN rows :
          /\ rows'[k] \in Row /\ rows'[k].body = rows[k].body /\ rows'[k].author = rows[k].author
          /\ rows'[k].reply =
                IF k \in Legacy \/ rows[k].reply # None THEN rows[k].reply ELSE found(k)
    BY <1>1, <1>2, <1>3, <1>4 DEF Row
<1> HIDE DEF fixed
<1>6. RowsTyped' /\ FromPosts'
    BY <1>1, <1>2, <1>5 DEF RowsInv, RowsTyped, FromPosts, Keys
<1>7. RepliesHeld'
    BY <1>1, <1>4, <1>5 DEF RowsInv, RepliesHeld
<1>8. RepliesStayInChannel'
  <2> SUFFICES ASSUME NEW k \in DOMAIN rows \ Legacy, rows'[k].reply \in DOMAIN rows
               PROVE  ChannelOf(rows'[k].reply, log) = log[k].channel
    BY <1>1 DEF RepliesStayInChannel
  <2>1. CASE rows[k].reply # None
    BY <1>5, <2>1 DEF RowsInv, RepliesStayInChannel
  <2>2. CASE rows[k].reply = None
    BY <1>4, <1>5, <2>2
  <2> QED
    BY <2>1, <2>2
<1>9. TombstonesWin' /\ EditsShown'
    BY <1>1, <1>5 DEF RowsInv, TombstonesWin, EditsShown, Tombstoned, Events
<1>10. LinksRepaired'
  <2> SUFFICES ASSUME NEW i \in Events("post") \cap DOMAIN rows,
                      ResolveReply(log[i].target, log[i].channel, rows', log) # None
               PROVE  rows'[i].reply # None
    BY <1>1 DEF LinksRepaired, Events
  <2>1. found(i) # None
    BY <1>1 DEF found, ResolveReply
  <2>2. i \notin Legacy
    BY LogLength, StoreConstants DEF RowsInv, Events
  <2> QED
    BY <1>5, <2>1, <2>2
<1>11. ViewComplete' /\ Phases' /\ deletions' \subseteq Member
    BY <1>1, <1>2 DEF RowsInv, ViewComplete, Phases, Missing, Events, Tombstoned
<1> QED
    BY <1>2, <1>6, <1>7, <1>8, <1>9, <1>10, <1>11 DEF RowsInv

-----------------------------------------------------------------------------

LEMMA RowsInvInit == StoreInit => RowsInv
<1> SUFFICES ASSUME StoreInit PROVE RowsInv
    OBVIOUS
<1>1. log = <<>> /\ rows = <<>> /\ phase = "up" /\ deletions = {}
    BY DEF StoreInit
<1>2. LogSound
    BY <1>1, StoreConstants DEF LogSound, Events
<1>3. rows \in [DOMAIN rows -> Row] /\ DOMAIN rows = {}
    BY <1>1
<1> QED
    BY <1>1, <1>2, <1>3 DEF RowsInv, RowsTyped, FromPosts, RepliesHeld, RepliesStayInChannel,
        TombstonesWin, EditsShown, ViewComplete, LinksRepaired, Phases

LEMMA SubmitRows ==
    ASSUME RowsInv, Submit
    PROVE  RowsInv'
<1>1. PICK a \in Member :
        \/ \E c \in Channel, t \in DOMAIN log \cup {None}, blob \in Blob \cup {None} : Post(a, c, t, blob)
        \/ \E t \in DOMAIN log : EditSealed(a, t)
        \/ \E t \in DOMAIN log, moderating \in BOOLEAN : Tombstone(a, t, moderating)
        \/ \E b \in Blob : RedactBlob(a, b)
    BY DEF Submit
<1> QED
    BY <1>1, PostRows, EditSealedRows, TombstoneRows, RedactRows

LEMMA LegacyRows ==
    ASSUME RowsInv, LegacyRequest
    PROVE  RowsInv'
<1>1. PICK a \in Member :
        \/ \E l \in Legacy, t \in DOMAIN rows \cup {None}, blobs \in Lists : SendMessage(l, a, t, blobs)
        \/ \E k \in Keys : DeleteMessage(a, k)
        \/ \E b \in Blob : UploadStart(a, b) \/ StoreOrReuse(a, b)
        \/ RequestDeletion(a) \/ CancelDeletion(a)
    BY DEF LegacyRequest
<1>2. CASE \E l \in Legacy, t \in DOMAIN rows \cup {None}, blobs \in Lists : SendMessage(l, a, t, blobs)
    BY <1>2, SentRows DEF SendMessage, Sends
<1>3. CASE \E k \in Keys : DeleteMessage(a, k)
  <2>1. PICK k \in Keys : DeleteMessage(a, k)
    BY <1>3
  <2>2. {k} \subseteq DOMAIN rows
    BY <2>1 DEF DeleteMessage
  <2> QED
    BY <2>1, <2>2, RemovalRows DEF DeleteMessage
<1>4. CASE \E b \in Blob : UploadStart(a, b) \/ StoreOrReuse(a, b)
    BY <1>4, QuietRows DEF UploadStart, StoreOrReuse, RowsInv
<1>5. CASE RequestDeletion(a) \/ CancelDeletion(a)
  <2>1. deletions' \subseteq Member
    BY <1>5 DEF RequestDeletion, CancelDeletion, RowsInv
  <2> QED
    BY <1>5, <2>1, QuietRows DEF RequestDeletion, CancelDeletion
<1> QED
    BY <1>1, <1>2, <1>3, <1>4, <1>5

LEMMA BackgroundRows ==
    ASSUME RowsInv, Background
    PROVE  RowsInv'
<1>1. CASE \/ \E u \in streaming : UploadFails(u)
           \/ \E b \in Blob : CleanupOrphanedFile(b) \/ OrphanForgotten(b) \/ CleanupAllOrphans(b)
    BY <1>1, QuietRows DEF UploadFails, CleanupOrphanedFile, OrphanForgotten, CleanupAllOrphans,
                           RowsInv
<1>2. CASE \E gone \in SUBSET DOMAIN rows : PurgeExpired(gone)
    BY <1>2, RemovalRows DEF PurgeExpired
<1>3. CASE \E a \in Member : ExecuteDeletion(a)
  <2>1. PICK a \in Member : ExecuteDeletion(a)
    BY <1>3
  <2>2. deletions' \subseteq Member
    BY <2>1 DEF ExecuteDeletion, RowsInv
  <2> QED
    BY <2>1, <2>2, ErasedRows DEF ExecuteDeletion
<1> QED
    BY <1>1, <1>2, <1>3 DEF Background

LEMMA FaultRows ==
    ASSUME RowsInv, Fault
    PROVE  RowsInv'
<1>1. CASE \/ Crash
           \/ \E b \in Blob : CleanupDies(b) \/ UploadDies(b) \/ \E a \in Member : RedactDies(a, b)
    BY <1>1, QuietRows DEF Crash, CleanupDies, UploadDies, RedactDies, Dies, RowsInv
<1>2. ASSUME NEW a \in Member, NEW l \in Legacy, NEW t \in DOMAIN rows \cup {None}, NEW blobs,
             SendDies(l, a, t, blobs)
      PROVE  RowsInv'
    BY <1>2, SentRows DEF SendDies, Dies
<1>3. ASSUME NEW a \in Member, NEW removed, NEW dropped, NEW anonymized,
             DeletionDies(a, removed, dropped, anonymized)
      PROVE  RowsInv'
  <2>1. /\ phase = "up" /\ phase' = "down" /\ log' = log
        /\ rows' = Anonymized(a) \/ rows' = rows
        /\ deletions' \subseteq Member
    BY <1>3 DEF DeletionDies, DeletionStops, Dies, RowsInv
  <2> QED
    BY <2>1, ErasedRows, QuietRows
<1>4. ASSUME (\E k, done, V : StripDies(done, k, V)) \/ (\E i, V : ReconcileDies(i, V))
      PROVE  RowsInv'
    BY <1>4, QuietRows DEF StripDies, ReconcileDies, Dies, RowsInv
<1> QED
    BY <1>1, <1>2, <1>3, <1>4 DEF Fault

LEMMA BootRows ==
    ASSUME RowsInv, Boot
    PROVE  RowsInv'
<1>1. CASE BuildLogState \/ ReconcileAttachments
    BY <1>1, QuietRows DEF BuildLogState, ReconcileAttachments, BootVars, RowsInv
<1> QED
    BY <1>1, DeriveRows, SweepRows, ReplayRows, RepairRows DEF Boot

LEMMA RowsInvStep == RowsInv /\ [StoreNext]_storeVars => RowsInv'
<1> SUFFICES ASSUME RowsInv, [StoreNext]_storeVars PROVE RowsInv'
    OBVIOUS
<1>1. CASE UNCHANGED storeVars
    BY <1>1, QuietRows DEF storeVars, RowsInv
<1> QED
    BY <1>1, SubmitRows, LegacyRows, BackgroundRows, FaultRows, BootRows DEF StoreNext

(* What the rows owe the log holds in every phase of a start, of a data    *)
(* deletion and of serving, whatever becomes of the files.                 *)
THEOREM RowsAreSound == StoreSpec => []RowsInv
BY RowsInvInit, RowsInvStep, PTL DEF StoreSpec

(* A tombstoned message has no row, whichever of deletion, purge, replay   *)
(* and crash came last: what is derived passes over it, and what is        *)
(* appended aims only at what the log holds.                               *)
THEOREM TombstonesStay == StoreSpec => []TombstonesWin
<1>1. RowsInv => TombstonesWin
    BY DEF RowsInv
<1> QED
    BY <1>1, RowsAreSound, PTL

(* A served sealed row shows the last accepted edit: a replay leaves no    *)
(* row behind, and rows whose author was erased are never behind.          *)
THEOREM LastEditIsShown == StoreSpec => []LatestEditShown
<1>1. RowsInv => LatestEditShown
    BY DEF RowsInv, EditsShown, LatestEditShown
<1> QED
    BY <1>1, RowsAreSound, PTL

(* No replay meets an edit it has to refuse.                               *)
THEOREM ServerStarts == StoreSpec => []AlwaysBoots
<1>1. RowsInv => AlwaysBoots
    BY DEF RowsInv, Phases, AlwaysBoots
<1> QED
    BY <1>1, RowsAreSound, PTL
-----------------------------------------------------------------------------
(* What a start and a data deletion leave. *)

LEMMA OnlyReconcileServes ==
    ASSUME StoreNext, phase = "files", phase' = "up"
    PROVE  ReconcileAttachments
<1>1. ~Submit
    BY DEF Submit, Post, EditSealed, Tombstone, RedactBlob, Accept
<1>2. ~LegacyRequest
    BY DEF LegacyRequest, SendMessage, Sends, DeleteMessage, UploadStart, StoreOrReuse, RequestDeletion,
           CancelDeletion
<1>3. ~Background
    BY DEF Background, UploadFails, CleanupOrphanedFile, OrphanForgotten, CleanupAllOrphans,
           PurgeExpired, ExecuteDeletion
<1>4. ~Fault
    BY DEF Fault, Crash, CleanupDies, UploadDies, RedactDies, SendDies, StripDies, DeletionDies,
           DeletionStops, Sends, ReconcileDies, Dies
<1> QED
    BY <1>1, <1>2, <1>3, <1>4 DEF StoreNext, Boot, BuildLogState, DeriveMissing, SweepTombstoned,
       ReplaySealedEdits, RepairReplyLinks

Complete ==
    phase = "files" /\ phase' = "up" =>
        \A i \in Events("post") : ~Tombstoned(i) =>
            /\ i \in DOMAIN rows'
            /\ ValidCap(i, log) \subseteq FilesOf(i)'
            /\ ResolveReply(log[i].target, log[i].channel, rows, log) # None =>
                  rows'[i].reply # None

LEMMA BootCompletes ==
    ASSUME RowsInv, StoreNext
    PROVE  Complete
<1> SUFFICES ASSUME phase = "files", phase' = "up", NEW i \in Events("post"), ~Tombstoned(i)
             PROVE  /\ i \in DOMAIN rows'
                    /\ ValidCap(i, log) \subseteq FilesOf(i)'
                    /\ ResolveReply(log[i].target, log[i].channel, rows, log) # None =>
                          rows'[i].reply # None
    BY DEF Complete
<1>1. rows' = rows /\ attached' = attached \cup UNION {MissingFiles(k) : k \in Events("post")}
    BY OnlyReconcileServes DEF ReconcileAttachments, Attach
<1>2. i \in DOMAIN rows
    BY DEF RowsInv, ViewComplete, Missing
<1>3. i \notin Legacy
    BY LogLength, StoreConstants DEF RowsInv, Events
<1>4. FilesOf(i)' = {u[3] : u \in {v \in attached' : v[1] \in {i}}}
    BY DEF FilesOf, AttachedTo
<1>5. ASSUME NEW b \in ValidCap(i, log)
      PROVE  b \in FilesOf(i)'
  <2>1. CASE b \in FilesOf(i)
    BY <1>1, <1>4, <2>1 DEF FilesOf, AttachedTo
  <2>2. CASE b \notin FilesOf(i)
    <3>1. <<i, 1, b>> \in MissingFiles(i)
      BY <1>2, <1>3, <2>2 DEF MissingFiles
    <3>2. <<i, 1, b>> \in attached' /\ <<i, 1, b>>[1] = i /\ <<i, 1, b>>[3] = b
      BY <1>1, <3>1
    <3> QED
      BY <1>4, <3>2
  <2> QED
    BY <2>1, <2>2
<1>6. ResolveReply(log[i].target, log[i].channel, rows, log) # None => rows'[i].reply # None
    BY <1>1, <1>2 DEF RowsInv, LinksRepaired
<1> QED
    BY <1>1, <1>2, <1>5, <1>6

(* When a start has finished, everything the log holds is shown: a start   *)
(* derives until nothing is missing, and repairs replies before files.     *)
THEOREM StartsAreComplete == StoreSpec => BootCompletesTheView
<1>1. RowsInv /\ [StoreNext]_storeVars => [Complete]_storeVars
    BY BootCompletes
<1>2. StoreSpec => [][Complete]_storeVars
    BY <1>1, RowsAreSound, PTL DEF StoreSpec
<1> QED
    BY <1>2 DEF BootCompletesTheView, Complete

LEMMA OnlyTheseForget ==
    ASSUME StoreNext, NEW a \in deletions, a \notin deletions'
    PROVE  CancelDeletion(a) \/ ExecuteDeletion(a)
<1>1. ~Submit
    BY DEF Submit, Post, EditSealed, Tombstone, RedactBlob
<1>2. LegacyRequest => CancelDeletion(a)
  <2>1. ASSUME NEW x \in Member, RequestDeletion(x) \/ CancelDeletion(x)
        PROVE  CancelDeletion(a)
    BY <2>1 DEF RequestDeletion, CancelDeletion
  <2> QED
    BY <2>1 DEF LegacyRequest, SendMessage, Sends, DeleteMessage, UploadStart, StoreOrReuse
<1>3. Background => ExecuteDeletion(a)
  <2>1. ASSUME NEW x \in Member, ExecuteDeletion(x)
        PROVE  ExecuteDeletion(a)
    <3>1. deletions' = deletions \ {x}
      BY <2>1 DEF ExecuteDeletion
    <3> QED
      BY <2>1, <3>1
  <2> QED
    BY <2>1 DEF Background, UploadFails, CleanupOrphanedFile, OrphanForgotten, CleanupAllOrphans,
           PurgeExpired
<1>4. ~Fault
    BY DEF Fault, Crash, CleanupDies, UploadDies, RedactDies, SendDies, StripDies, DeletionDies,
           DeletionStops, Sends, ReconcileDies, Dies
<1>5. ~Boot
    BY DEF Boot, BuildLogState, DeriveMissing, SweepTombstoned, ReplaySealedEdits,
           RepairReplyLinks, ReconcileAttachments, BootVars
<1> QED
    BY <1>1, <1>2, <1>3, <1>4, <1>5 DEF StoreNext

Whole ==
    \A a \in deletions \ deletions' :
        \/ CancelDeletion(a)
        \/ \A k \in DOMAIN rows' : /\ rows'[k].author # a
                                   /\ k \in OwnRows(a) => FilesOf(k)' = {}

LEMMA ForgottenIsWhole ==
    ASSUME RowsInv, StoreNext
    PROVE  Whole
<1> SUFFICES ASSUME NEW a \in deletions, a \notin deletions', ExecuteDeletion(a)
             PROVE  \A k \in DOMAIN rows' : /\ rows'[k].author # a
                                            /\ k \in OwnRows(a) => FilesOf(k)' = {}
    BY OnlyTheseForget DEF Whole
<1>1. a # Nobody /\ rows \in [DOMAIN rows -> Row]
    BY StoreConstants DEF RowsInv, RowsTyped
<1>2. /\ rows' = Anonymized(a) /\ DOMAIN rows' = DOMAIN rows
      /\ attached' = attached \ AttachedTo(OwnRows(a))
    BY DEF ExecuteDeletion, RemoveAuthorFiles, Anonymized
<1>3. ASSUME NEW k \in DOMAIN rows
      PROVE  rows'[k].author # a
    BY <1>1, <1>2 DEF Anonymized, Row
<1>4. ASSUME NEW k \in OwnRows(a)
      PROVE  FilesOf(k)' = {}
  <2>1. \A u \in attached' : u[1] # k
    BY <1>2, <1>4 DEF AttachedTo
  <2> QED
    BY <2>1 DEF FilesOf, AttachedTo
<1> QED
    BY <1>2, <1>3, <1>4

(* A data deletion that is over has erased everything of its author, as    *)
(* the request goes in the last of its statements.                         *)
THEOREM ErasuresAreWhole == StoreSpec => ErasureIsWhole
<1>1. RowsInv /\ [StoreNext]_storeVars => [Whole]_storeVars
    BY ForgottenIsWhole
<1>2. StoreSpec => [][Whole]_storeVars
    BY <1>1, RowsAreSound, PTL DEF StoreSpec
<1> QED
    BY <1>2 DEF ErasureIsWhole, Whole
-----------------------------------------------------------------------------
(* The counts. *)

File == [uploader : Member \cup {Nobody}, ref : Nat, redacted : BOOLEAN]

(* An attachment row has its message and its file. *)
AttachmentsHeld ==
    /\ IsFiniteSet(attached)
    /\ \A u \in attached : u \in (DOMAIN rows) \X Nat \X Blob /\ Stored(u[3])

CountInv ==
    /\ files \in [Blob -> File] /\ disk \subseteq Blob
    /\ lost \in [Blob -> Nat] /\ leaked \in [Blob -> Nat]
    /\ AttachmentsHeld
    /\ CountsOffByKills

LEMMA SubsetCount ==
    ASSUME NEW S, IsFiniteSet(S), NEW T \in SUBSET S
    PROVE  /\ IsFiniteSet(T) /\ IsFiniteSet(S \ T)
           /\ Cardinality(T) \in Nat /\ Cardinality(S) \in Nat
           /\ Cardinality(T) <= Cardinality(S)
           /\ Cardinality(S \ T) = Cardinality(S) - Cardinality(T)
<1>1. IsFiniteSet(T) /\ Cardinality(T) <= Cardinality(S)
    BY FS_Subset
<1>2. S \ T \in SUBSET S
    OBVIOUS
<1>3. IsFiniteSet(S \ T)
    BY <1>2, FS_Subset
<1>4. (S \ T) \cup T = S /\ (S \ T) \cap T = {}
    OBVIOUS
<1>5. Cardinality(S) = Cardinality(S \ T) + Cardinality(T) - 0
    BY <1>1, <1>3, <1>4, FS_Union, FS_EmptySet
<1>6. Cardinality(T) \in Nat /\ Cardinality(S) \in Nat /\ Cardinality(S \ T) \in Nat
    BY <1>1, <1>3, FS_CardinalityType
<1> QED
    BY <1>1, <1>3, <1>5, <1>6

(* What a finite interval lists is finite. *)
LEMMA ListedFinite ==
    ASSUME NEW n \in Nat, NEW f, NEW U, \A u \in U : \E i \in 1..n : u = f[i]
    PROVE  IsFiniteSet(U)
<1> DEFINE h == [i \in 1..n |-> f[i]]
           T == {h[i] : i \in 1..n}
<1>1. h \in Surjection(1..n, T)
    BY DEF Surjection
<1>2. IsFiniteSet(1..n)
    BY FS_Interval
<1>3. U \in SUBSET T
    OBVIOUS
<1> HIDE DEF h, T
<1>4. IsFiniteSet(T)
    BY <1>1, <1>2, FS_Surjection
<1> QED
    BY <1>3, <1>4, FS_Subset

LEMMA PerSplit ==
    ASSUME NEW U, IsFiniteSet(U), NEW V \in SUBSET U, NEW b
    PROVE  /\ Per(b, U) \in Nat /\ Per(b, V) \in Nat
           /\ Per(b, V) <= Per(b, U)
           /\ Per(b, U \ V) = Per(b, U) - Per(b, V)
<1> DEFINE S == {u \in U : u[3] = b}
           T == {u \in V : u[3] = b}
<1>1. S \in SUBSET U /\ T \in SUBSET S /\ {u \in U \ V : u[3] = b} = S \ T
    OBVIOUS
<1> HIDE DEF S, T
<1>2. IsFiniteSet(S)
    BY <1>1, FS_Subset
<1>3. /\ Cardinality(T) \in Nat /\ Cardinality(S) \in Nat
      /\ Cardinality(T) <= Cardinality(S)
      /\ Cardinality(S \ T) = Cardinality(S) - Cardinality(T)
    BY <1>1, <1>2, SubsetCount
<1>4. Per(b, U) = Cardinality(S) /\ Per(b, V) = Cardinality(T)
      /\ Per(b, U \ V) = Cardinality(S \ T)
    BY <1>1 DEF Per, S, T
<1> QED
    BY <1>3, <1>4

LEMMA PerOfNone == \A b : Per(b, {}) = 0
BY FS_EmptySet DEF Per

(* The tables keep their attachments, and what is attached its file. *)
LEMMA AttachmentsKept ==
    ASSUME CountInv, attached' = attached, history' = history,
           files' \in [Blob -> File], disk' \subseteq Blob,
           DOMAIN rows \subseteq DOMAIN rows',
           \A b \in Blob : files'[b].ref = files[b].ref,
           \A b \in Blob : Stored(b) => files'[b].uploader # Nobody
    PROVE  CountInv'
<1>1. AttachmentsHeld'
    BY DEF CountInv, AttachmentsHeld, Stored
<1>2. \A b : Users(b)' = Users(b)
    BY DEF Users
<1>3. CountsOffByKills'
    BY <1>2 DEF CountInv, CountsOffByKills, history
<1> QED
    BY <1>1, <1>3 DEF CountInv, history

LEMMA FilesKept ==
    ASSUME CountInv, UNCHANGED <<attached, files, history>>, disk' \subseteq Blob,
           DOMAIN rows \subseteq DOMAIN rows'
    PROVE  CountInv'
BY AttachmentsKept DEF CountInv, Stored

LEMMA AttachKept ==
    ASSUME CountInv, NEW U, IsFiniteSet(U), NEW V \in SUBSET U, Attach(U, V),
           U \cap attached = {}, disk' \subseteq Blob, DOMAIN rows \subseteq DOMAIN rows',
           \A u \in U : u \in (DOMAIN rows') \X Nat \X Blob /\ Stored(u[3])
    PROVE  CountInv'
<1> DEFINE all == attached \cup U
<1>1. IsFiniteSet(all) /\ U \in SUBSET all /\ all \ U = attached
    BY FS_Union DEF CountInv, AttachmentsHeld
<1>2. attached' = all
    BY DEF Attach
<1> HIDE DEF all
<1>3. ASSUME NEW b \in Blob
      PROVE  /\ Per(b, U \ V) \in Nat /\ Per(b, V) \in Nat
             /\ Per(b, all) = Per(b, attached) + Per(b, U \ V) + Per(b, V)
             /\ Per(b, attached) \in Nat
  <2>1. /\ Per(b, all) \in Nat /\ Per(b, U) \in Nat /\ Per(b, U) <= Per(b, all)
        /\ Per(b, attached) = Per(b, all) - Per(b, U)
    BY <1>1, PerSplit
  <2>2. Per(b, V) \in Nat /\ Per(b, V) <= Per(b, U) /\ Per(b, U \ V) = Per(b, U) - Per(b, V)
    BY PerSplit
  <2> QED
    BY <2>1, <2>2
<1>4. \A b \in Blob :
          /\ files'[b] \in File
          /\ files'[b].ref = files[b].ref + Per(b, U \ V)
          /\ files'[b].uploader = files[b].uploader
          /\ lost'[b] = lost[b] + Per(b, V) /\ leaked'[b] = leaked[b]
  <2> SUFFICES ASSUME NEW b \in Blob
               PROVE  /\ files'[b] \in File
                      /\ files'[b].ref = files[b].ref + Per(b, U \ V)
                      /\ files'[b].uploader = files[b].uploader
                      /\ lost'[b] = lost[b] + Per(b, V) /\ leaked'[b] = leaked[b]
    OBVIOUS
  <2>1. files'[b] = [files[b] EXCEPT !.ref = @ + Per(b, U \ V)]
    BY DEF Attach, CountUp
  <2>2. files[b] \in File
    BY DEF CountInv
  <2>3. lost'[b] = lost[b] + Per(b, V) /\ leaked'[b] = leaked[b]
    BY DEF Attach, Swallowed
  <2> QED
    BY <1>3, <2>1, <2>2, <2>3 DEF File
<1>5. files' \in [Blob -> File] /\ lost' \in [Blob -> Nat] /\ leaked' \in [Blob -> Nat]
  <2>1. files' = [b \in Blob |-> files'[b]] /\ lost' = [b \in Blob |-> lost[b] + Per(b, V)]
    BY DEF Attach, CountUp, Swallowed
  <2>2. lost \in [Blob -> Nat] /\ leaked \in [Blob -> Nat] /\ leaked' = leaked
    BY DEF CountInv, Attach
  <2> QED
    BY <1>3, <1>4, <2>1, <2>2
<1>6. AttachmentsHeld'
  <2>1. \A u \in attached : u \in (DOMAIN rows) \X Nat \X Blob /\ files[u[3]].uploader # Nobody
    BY DEF CountInv, AttachmentsHeld, Stored
  <2>2. \A u \in U : u \in (DOMAIN rows') \X Nat \X Blob /\ files[u[3]].uploader # Nobody
    BY DEF Stored
  <2>3. \A u \in attached' : u \in (DOMAIN rows') \X Nat \X Blob /\ files[u[3]].uploader # Nobody
    BY <1>2, <2>1, <2>2 DEF all
  <2>4. \A u \in attached' : u[3] \in Blob
    BY <2>3
  <2> QED
    BY <1>1, <1>2, <1>4, <2>3, <2>4 DEF AttachmentsHeld, Stored
<1>7. CountsOffByKills'
  <2> SUFFICES ASSUME NEW b \in Blob
               PROVE  /\ Per(b, all) <= files'[b].ref + lost'[b]
                      /\ files'[b].ref <= Per(b, all) + leaked'[b]
    BY <1>2 DEF CountsOffByKills, Users, Per
  <2>1. Per(b, attached) <= files[b].ref + lost[b] /\ files[b].ref <= Per(b, attached) + leaked[b]
    BY DEF CountInv, CountsOffByKills, Users, Per
  <2>2. files[b].ref \in Nat /\ lost[b] \in Nat /\ leaked[b] \in Nat
    BY DEF CountInv, File
  <2>3. /\ files'[b].ref = files[b].ref + Per(b, U \ V)
        /\ lost'[b] = lost[b] + Per(b, V) /\ leaked'[b] = leaked[b]
    BY <1>4
  <2>4. /\ Per(b, U \ V) \in Nat /\ Per(b, V) \in Nat /\ Per(b, attached) \in Nat
        /\ Per(b, all) = Per(b, attached) + Per(b, U \ V) + Per(b, V)
    BY <1>3
  <2> QED
    BY <2>1, <2>2, <2>3, <2>4
<1> QED
    BY <1>5, <1>6, <1>7 DEF CountInv

(* What is left of a file's count when U goes and V of it still counts.    *)
LEMMA CountedDown ==
    ASSUME CountInv, NEW U \in SUBSET attached, NEW V \in SUBSET U, NEW b \in Blob,
           NEW c, c = CountDown(U \ V)[b]
    PROVE  /\ c \in File /\ c.uploader = files[b].uploader
           /\ Per(b, V) \in Nat
           /\ Per(b, attached \ U) <= c.ref + lost[b]
           /\ c.ref <= Per(b, attached \ U) + leaked[b] + Per(b, V)
<1>1. IsFiniteSet(attached) /\ IsFiniteSet(U)
    BY FS_Subset DEF CountInv, AttachmentsHeld
<1>2. /\ Per(b, attached) \in Nat /\ Per(b, U) \in Nat /\ Per(b, U) <= Per(b, attached)
      /\ Per(b, attached \ U) = Per(b, attached) - Per(b, U)
    BY <1>1, PerSplit
<1>3. Per(b, V) \in Nat /\ Per(b, V) <= Per(b, U) /\ Per(b, U \ V) = Per(b, U) - Per(b, V)
    BY <1>1, PerSplit
<1>4. Per(b, attached) <= files[b].ref + lost[b] /\ files[b].ref <= Per(b, attached) + leaked[b]
    BY DEF CountInv, CountsOffByKills, Users, Per
<1>5. files[b] \in File /\ lost[b] \in Nat /\ leaked[b] \in Nat
    BY DEF CountInv
<1>6. c = [files[b] EXCEPT !.ref = IF @ < Per(b, U \ V) THEN 0 ELSE @ - Per(b, U \ V)]
    BY DEF CountDown
<1>7. /\ c.uploader = files[b].uploader
      /\ c.ref = IF files[b].ref < Per(b, U \ V) THEN 0 ELSE files[b].ref - Per(b, U \ V)
    BY <1>5, <1>6 DEF File
<1>8. c \in File
    BY <1>2, <1>3, <1>5, <1>6 DEF File
<1>9. files[b].ref \in Nat
    BY <1>5 DEF File
<1> QED
    BY <1>2, <1>3, <1>4, <1>5, <1>7, <1>8, <1>9
(* The attachments of U go and V of them still counts; a file that nobody  *)
(* shows any more may go with them.                                        *)
LEMMA DetachKept ==
    ASSUME CountInv, NEW U \in SUBSET attached, NEW V \in SUBSET U, NEW free \in SUBSET Blob,
           \A b \in free : Users(b) \subseteq U,
           attached' = attached \ U,
           files' = [b \in Blob |-> IF b \in free THEN Absent ELSE CountDown(U \ V)[b]],
           lost' = [b \in Blob |-> IF b \in free THEN 0 ELSE lost[b]],
           leaked' = [b \in Blob |-> IF b \in free THEN 0 ELSE leaked[b] + Per(b, V)],
           disk' \subseteq Blob,
           \A u \in attached \ U : u[1] \in DOMAIN rows'
    PROVE  CountInv'
<1>1. ASSUME NEW b \in Blob
      PROVE  /\ files'[b] \in File
             /\ lost'[b] \in Nat /\ leaked'[b] \in Nat
             /\ b \notin free => files'[b].uploader = files[b].uploader
             /\ Per(b, attached \ U) <= files'[b].ref + lost'[b]
             /\ files'[b].ref <= Per(b, attached \ U) + leaked'[b]
  <2>1. CASE b \in free
    <3>1. {u \in attached \ U : u[3] = b} = {}
      BY <2>1 DEF Users
    <3>2. Per(b, attached \ U) = 0
      BY <3>1, FS_EmptySet DEF Per
    <3>3. Absent \in File /\ Absent.ref = 0
      BY DEF Absent, File
    <3>4. files'[b] = Absent /\ lost'[b] = 0 /\ leaked'[b] = 0
      BY <2>1
    <3> QED
      BY <2>1, <3>2, <3>3, <3>4
  <2>2. CASE b \notin free
    <3>1. files'[b] = CountDown(U \ V)[b] /\ lost'[b] = lost[b] /\ leaked'[b] = leaked[b] + Per(b, V)
      BY <2>2
    <3>2. lost[b] \in Nat /\ leaked[b] \in Nat
      BY DEF CountInv
    <3>3. /\ files'[b] \in File /\ files'[b].uploader = files[b].uploader
          /\ Per(b, V) \in Nat
          /\ Per(b, attached \ U) <= files'[b].ref + lost[b]
          /\ files'[b].ref <= Per(b, attached \ U) + leaked[b] + Per(b, V)
      BY <3>1, CountedDown
    <3>4. IsFiniteSet(attached)
      BY DEF CountInv, AttachmentsHeld
    <3>5. Per(b, attached \ U) \in Nat
      BY <3>4, PerSplit, FS_Subset
    <3>6. files'[b].ref \in Nat
      BY <3>3 DEF File
    <3> QED
      BY <3>1, <3>2, <3>3, <3>5, <3>6
  <2> QED
    BY <2>1, <2>2
<1>2. /\ files' = [b \in Blob |-> files'[b]] /\ lost' = [b \in Blob |-> lost'[b]]
      /\ leaked' = [b \in Blob |-> leaked'[b]]
    OBVIOUS
<1>3. files' \in [Blob -> File] /\ lost' \in [Blob -> Nat] /\ leaked' \in [Blob -> Nat]
    BY <1>1, <1>2
<1>4. AttachmentsHeld'
  <2>1. IsFiniteSet(attached \ U)
    BY FS_Subset DEF CountInv, AttachmentsHeld
  <2>2. ASSUME NEW u \in attached \ U
        PROVE  u \in (DOMAIN rows') \X Nat \X Blob /\ u[3] \in Blob /\ files'[u[3]].uploader # Nobody
    <3>1. u \in (DOMAIN rows) \X Nat \X Blob /\ files[u[3]].uploader # Nobody
      BY DEF CountInv, AttachmentsHeld, Stored
    <3>2. u \in (DOMAIN rows') \X Nat \X Blob /\ u[3] \in Blob
      BY <3>1
    <3>3. u[3] \notin free
      BY DEF Users
    <3> QED
      BY <1>1, <3>1, <3>2, <3>3
  <2> QED
    BY <2>1, <2>2 DEF AttachmentsHeld, Stored
<1>5. CountsOffByKills'
  <2>1. \A b : Cardinality(Users(b))' = Per(b, attached \ U)
    BY DEF Users, Per
  <2> QED
    BY <1>1, <2>1 DEF CountsOffByKills
<1> QED
    BY <1>3, <1>4, <1>5 DEF CountInv

(* The same, when no file goes. *)
LEMMA Detached ==
    ASSUME CountInv, NEW U \in SUBSET attached, NEW V \in SUBSET U, Detach(U, V),
           disk' \subseteq Blob, \A u \in attached \ U : u[1] \in DOMAIN rows'
    PROVE  CountInv'
<1> DEFINE free == {}
<1>1. files' = [b \in Blob |-> IF b \in free THEN Absent ELSE CountDown(U \ V)[b]]
    BY DEF Detach, CountDown
<1>2. lost' = [b \in Blob |-> IF b \in free THEN 0 ELSE lost[b]]
    BY DEF Detach, CountInv
<1>3. leaked' = [b \in Blob |-> IF b \in free THEN 0 ELSE leaked[b] + Per(b, V)]
    BY DEF Detach, Swallowed
<1>4. attached' = attached \ U
    BY DEF Detach
<1>5. free \in SUBSET Blob /\ \A b \in free : Users(b) \subseteq U
    OBVIOUS
<1> HIDE DEF free
<1> QED
    BY <1>1, <1>2, <1>3, <1>4, <1>5, DetachKept

(* A file that is collected: nothing shows it. *)
LEMMA Dropped ==
    ASSUME CountInv, NEW b \in Blob, DropFile(b), UNCHANGED <<attached, rows>>
    PROVE  CountInv'
<1>1. disk' \subseteq Blob
    BY DEF DropFile, CountInv
<1>2. CASE Users(b) # {}
    BY <1>1, <1>2, FilesKept DEF DropFile
<1>3. CASE Users(b) = {}
  <2> DEFINE none == {}
             free == {b}
  <2>1. ASSUME NEW x \in Blob
        PROVE  CountDown(none \ none)[x] = files[x] /\ Per(x, none) = 0
    <3>1. files[x] \in File /\ files[x].ref \in Nat
      BY DEF CountInv, File
    <3>2. CountDown(none \ none)[x] = [files[x] EXCEPT !.ref = IF @ < 0 THEN 0 ELSE @ - 0]
      BY PerOfNone DEF CountDown
    <3>3. (IF files[x].ref < 0 THEN 0 ELSE files[x].ref - 0) = files[x].ref
      BY <3>1
    <3>4. [files[x] EXCEPT !.ref = files[x].ref] = files[x]
      BY <3>1 DEF File
    <3> QED
      BY <3>2, <3>3, <3>4, PerOfNone
  <2>2. /\ files \in [Blob -> File] /\ lost \in [Blob -> Nat] /\ leaked \in [Blob -> Nat]
    BY DEF CountInv
  <2>3. files' = [x \in Blob |-> IF x \in free THEN Absent ELSE CountDown(none \ none)[x]]
    BY <1>3, <2>1, <2>2 DEF DropFile
  <2>4. lost' = [x \in Blob |-> IF x \in free THEN 0 ELSE lost[x]]
    BY <1>3, <2>2 DEF DropFile
  <2>5. leaked' = [x \in Blob |-> IF x \in free THEN 0 ELSE leaked[x] + Per(x, none)]
    BY <1>3, <2>1, <2>2 DEF DropFile
  <2>6. \A u \in attached \ none : u[1] \in DOMAIN rows'
    BY DEF CountInv, AttachmentsHeld
  <2>7. \A x \in free : Users(x) \subseteq none
    BY <1>3
  <2>8. attached' = attached \ none
    OBVIOUS
  <2>9. none \in SUBSET attached /\ none \in SUBSET none /\ free \in SUBSET Blob
    OBVIOUS
  <2> HIDE DEF none, free
  <2> QED
    BY <1>1, <2>9, <2>3, <2>4, <2>5, <2>6, <2>7, <2>8, DetachKept
<1> QED
    BY <1>2, <1>3

LEMMA ErasedCounts ==
    ASSUME CountInv, NEW a, NEW removed, NEW dropped \in SUBSET Orphaned(a),
           RemoveAuthorFiles(a, removed, dropped), DOMAIN rows' = DOMAIN rows
    PROVE  CountInv'
<1> DEFINE own == AttachedTo(OwnRows(a))
           free == {b \in dropped : Users(b) \subseteq own}
<1>1. own \in SUBSET attached
    BY DEF AttachedTo
<1>2. \A u \in attached : u[3] \in Blob /\ u[1] \in DOMAIN rows
    BY DEF CountInv, AttachmentsHeld
<1>3. free \in SUBSET Blob
    BY <1>1, <1>2 DEF Orphaned, ZeroRefs
<1>4. /\ attached' = attached \ own
      /\ files' = [b \in Blob |-> IF b \in free THEN Absent ELSE CountDown(own)[b]]
      /\ lost' = [b \in Blob |-> IF b \in free THEN 0 ELSE lost[b]]
      /\ leaked' = [b \in Blob |-> IF b \in free THEN 0 ELSE leaked[b]]
      /\ disk' \subseteq Blob
    BY DEF RemoveAuthorFiles, CountInv
<1>5. \A b \in free : Users(b) \subseteq own
    OBVIOUS
<1> HIDE DEF own, free
<1>6. files' = [b \in Blob |-> IF b \in free THEN Absent ELSE CountDown(own \ {})[b]]
  <2>1. own \ {} = own
    OBVIOUS
  <2> QED
    BY <1>4, <2>1
<1>7. leaked' = [b \in Blob |-> IF b \in free THEN 0 ELSE leaked[b] + Per(b, {})]
  <2>1. \A b \in Blob : leaked[b] \in Nat
    BY DEF CountInv
  <2>2. \A b \in Blob : leaked[b] + Per(b, {}) = leaked[b]
    BY <2>1, PerOfNone
  <2> QED
    BY <1>4, <2>2
<1> QED
    BY <1>1, <1>2, <1>3, <1>4, <1>5, <1>6, <1>7, DetachKept
(* The rows in gone go with their attachments. *)
LEMMA RemovedCounts ==
    ASSUME CountInv, NEW gone, NEW V \in SUBSET AttachedTo(gone), Detach(AttachedTo(gone), V),
           \/ rows' = rows
           \/ rows' = RemoveRows(rows, gone),
           disk' \subseteq Blob
    PROVE  CountInv'
<1>1. AttachedTo(gone) \in SUBSET attached
    BY DEF AttachedTo
<1>2. \A u \in attached : u[1] \in DOMAIN rows
    BY DEF CountInv, AttachmentsHeld
<1>3. DOMAIN rows \ gone \subseteq DOMAIN rows'
    BY DEF RemoveRows
<1>4. \A u \in attached \ AttachedTo(gone) : u[1] \in DOMAIN rows'
    BY <1>2, <1>3 DEF AttachedTo
<1> QED
    BY <1>1, <1>4, Detached

(* A repair, finished or not, of the attachments of the posts it came to. *)
LEMMA ReconciledCounts ==
    ASSUME RowsInv, CountInv, NEW posts \in SUBSET Events("post"),
           NEW U, U = UNION {MissingFiles(k) : k \in posts},
           NEW V \in SUBSET U, Attach(U, V), disk' \subseteq Blob, rows' = rows
    PROVE  CountInv'
<1> DEFINE f == [k \in DOMAIN log |-> <<k, 1, log[k].blob>>]
<1>1. ASSUME NEW u \in U
      PROVE  \E k \in posts : /\ k \in DOMAIN rows /\ u = <<k, 1, log[k].blob>>
                              /\ log[k].blob \in Blob /\ Stored(log[k].blob)
                              /\ u \notin attached
  <2>1. PICK k \in posts : u \in MissingFiles(k)
    OBVIOUS
  <2>2. k \in DOMAIN rows /\ u \in {<<k, 1, b>> : b \in ValidCap(k, log) \ FilesOf(k)}
    BY <2>1 DEF MissingFiles
  <2>3. PICK b \in ValidCap(k, log) \ FilesOf(k) : u = <<k, 1, b>>
    BY <2>2
  <2>4. b = log[k].blob /\ b \in Blob /\ Stored(b)
    BY <2>3 DEF ValidCap
  <2>5. u[1] = k /\ u[3] = b
    BY <2>3
  <2>6. u \notin attached
    BY <2>3, <2>5 DEF FilesOf, AttachedTo
  <2> QED
    BY <2>2, <2>3, <2>4, <2>6
<1>2. posts \subseteq DOMAIN log /\ DOMAIN log = 1..Len(log) /\ Len(log) \in Nat
    BY LogLength DEF RowsInv, Events
<1>3. \A u \in U : \E k \in 1..Len(log) : u = f[k]
    BY <1>1, <1>2
<1> HIDE DEF f
<1>4. IsFiniteSet(U)
    BY <1>2, <1>3, ListedFinite
<1>5. U \cap attached = {}
    BY <1>1
<1>6. \A u \in U : u \in (DOMAIN rows') \X Nat \X Blob /\ Stored(u[3])
  <2> SUFFICES ASSUME NEW u \in U
               PROVE  u \in (DOMAIN rows) \X Nat \X Blob /\ Stored(u[3])
    OBVIOUS
  <2>1. PICK k \in posts : /\ k \in DOMAIN rows /\ u = <<k, 1, log[k].blob>>
                           /\ log[k].blob \in Blob /\ Stored(log[k].blob)
    BY <1>1
  <2>2. u[3] = log[k].blob
    BY <2>1
  <2> QED
    BY <2>1, <2>2
<1> QED
    BY <1>4, <1>5, <1>6, AttachKept

LEMMA SubmitCounts ==
    ASSUME RowsInv, CountInv, Submit
    PROVE  CountInv'
<1>1. ASSUME NEW a \in Member, NEW c, NEW t, NEW blob, Post(a, c, t, blob)
      PROVE  CountInv'
  <2> DEFINE events == Append(log, Event("post", a, c, t, blob))
             i == Len(log) + 1
             U == {<<i, 1, b>> : b \in ValidCap(i, events)}
  <2>1. /\ Attach(U, {}) /\ disk' = disk
        /\ rows' = AddRow(rows, i, DerivedRow(i, rows, events))
    BY <1>1 DEF Post
  <2>2. DOMAIN rows' = DOMAIN rows \cup {i}
    BY <2>1 DEF AddRow
  <2>3. i \notin DOMAIN rows
    BY LogLength, StoreConstants DEF RowsInv, RowsTyped, Keys
  <2>4. \A b \in ValidCap(i, events) : b = events[i].blob /\ b \in Blob /\ Stored(b)
    BY DEF ValidCap
  <2> HIDE DEF i, events
  <2>5. \A u \in U : u = <<i, 1, events[i].blob>>
    BY <2>4
  <2>6. IsFiniteSet(U)
    <3>1. U \in SUBSET {<<i, 1, events[i].blob>>}
      BY <2>5
    <3>2. IsFiniteSet({<<i, 1, events[i].blob>>})
      BY FS_Singleton
    <3> HIDE DEF U
    <3> QED
      BY <3>1, <3>2, FS_Subset
  <2>7. \A u \in U : u \in (DOMAIN rows') \X Nat \X Blob /\ Stored(u[3]) /\ u[1] = i
    <3> SUFFICES ASSUME NEW b \in ValidCap(i, events), NEW u, u = <<i, 1, b>>
                 PROVE  u \in (DOMAIN rows') \X Nat \X Blob /\ Stored(u[3]) /\ u[1] = i
      OBVIOUS
    <3>1. u[1] = i /\ u[3] = b
      OBVIOUS
    <3> QED
      BY <2>2, <2>4, <3>1
  <2>8. U \cap attached = {}
    BY <2>3, <2>7 DEF CountInv, AttachmentsHeld
  <2>9. disk' \subseteq Blob /\ DOMAIN rows \subseteq DOMAIN rows'
    BY <2>1, <2>2 DEF CountInv
  <2> HIDE DEF U
  <2> QED
    BY <2>1, <2>6, <2>7, <2>8, <2>9, AttachKept
<1>2. ASSUME NEW a, NEW t, EditSealed(a, t)
      PROVE  CountInv'
  <2>1. /\ UNCHANGED fileVars
        /\ DOMAIN rows' = DOMAIN rows
    BY <1>2 DEF EditSealed
  <2> QED
    BY <2>1, FilesKept DEF CountInv, fileVars
<1>3. ASSUME NEW a, NEW t, NEW moderating, Tombstone(a, t, moderating)
      PROVE  CountInv'
  <2>1. /\ rows' = RemoveRows(rows, {t}) /\ Detach(AttachedTo({t}), {}) /\ disk' = disk
    BY <1>3 DEF Tombstone
  <2> QED
    BY <2>1, RemovedCounts DEF CountInv
<1>4. ASSUME NEW a, NEW b \in Blob, RedactBlob(a, b)
      PROVE  CountInv'
  <2>1. /\ UNCHANGED <<rows, attached, history>>
        /\ files' = files \/ files' = [files EXCEPT ![b].redacted = TRUE]
        /\ disk' \subseteq disk
    BY <1>4 DEF RedactBlob
  <2>2. files \in [Blob -> File] /\ disk \subseteq Blob
    BY DEF CountInv
  <2>3. files' \in [Blob -> File]
    BY <2>1, <2>2 DEF File
  <2>4. \A x \in Blob : files'[x].ref = files[x].ref /\ files'[x].uploader = files[x].uploader
    BY <2>1, <2>2 DEF File
  <2> QED
    BY <2>1, <2>2, <2>3, <2>4, AttachmentsKept DEF Stored
<1> QED
    BY <1>1, <1>2, <1>3, <1>4 DEF Submit
(* A legacy message comes with what it lists; a kill leaves the last of it *)
(* uncounted.                                                              *)
LEMMA SentCounts ==
    ASSUME CountInv, NEW l \in Legacy, NEW a, NEW t, NEW blobs \in Lists,
           Sends(l, a, t, blobs), NEW V \in SUBSET Listed(l, blobs), Attach(Listed(l, blobs), V)
    PROVE  CountInv'
<1> DEFINE U == Listed(l, blobs)
<1>1. PICK n \in 0..MaxAttached : blobs \in [1..n -> Blob]
    BY DEF Lists
<1>2. n \in Nat
    BY StoreConstants
<1>3. /\ \A i \in 1..n : blobs[i] \in Blob /\ Stored(blobs[i])
      /\ DOMAIN rows' = DOMAIN rows \cup {l} /\ l \notin DOMAIN rows /\ disk' = disk
    BY <1>1 DEF Sends, MayAttach, AddRow
<1>4. \A u \in U : \E i \in 1..n : u = <<l, i, blobs[i]>>
    BY <1>1 DEF Listed
<1>5. IsFiniteSet(U)
  <2> DEFINE f == [i \in 1..n |-> <<l, i, blobs[i]>>]
  <2>1. \A u \in U : \E i \in 1..n : u = f[i]
    BY <1>4
  <2> HIDE DEF f, U
  <2> QED
    BY <1>2, <2>1, ListedFinite
<1>6. ASSUME NEW u \in U
      PROVE  u \in (DOMAIN rows') \X Nat \X Blob /\ Stored(u[3]) /\ u[1] = l
  <2>1. PICK i \in 1..n : u = <<l, i, blobs[i]>>
    BY <1>4
  <2>2. u[1] = l /\ u[3] = blobs[i] /\ i \in Nat
    BY <1>2, <2>1
  <2> QED
    BY <1>3, <2>1, <2>2
<1>7. U \cap attached = {}
    BY <1>3, <1>6 DEF CountInv, AttachmentsHeld
<1>8. Attach(U, V) /\ V \in SUBSET U /\ disk' \subseteq Blob
    BY <1>3 DEF CountInv
<1> HIDE DEF U
<1> QED
    BY <1>3, <1>5, <1>6, <1>7, <1>8, AttachKept

LEMMA UploadedCounts ==
    ASSUME CountInv, NEW a \in Member, NEW b \in Blob, StoreOrReuse(a, b)
    PROVE  CountInv'
<1>1. CASE Stored(b)
    BY <1>1, FilesKept DEF StoreOrReuse, CountInv
<1>2. CASE ~Stored(b)
  <2>1. /\ files' = [files EXCEPT ![b] = [Absent EXCEPT !.uploader = a]]
        /\ disk' = disk \cup {b} /\ UNCHANGED <<rows, attached, lost, leaked>>
    BY <1>2 DEF StoreOrReuse, history
  <2>2. [Absent EXCEPT !.uploader = a] \in File /\ [Absent EXCEPT !.uploader = a].ref = 0
    BY DEF Absent, File
  <2>3. files \in [Blob -> File] /\ lost \in [Blob -> Nat] /\ leaked \in [Blob -> Nat]
    BY DEF CountInv
  <2>4. files' \in [Blob -> File] /\ disk' \subseteq Blob
    BY <2>1, <2>2, <2>3 DEF CountInv
  <2>5. \A x \in Blob \ {b} : files'[x] = files[x]
    BY <2>1, <2>3
  <2>6. \A u \in attached : u[3] \in Blob \ {b}
    BY <1>2 DEF CountInv, AttachmentsHeld
  <2>7. AttachmentsHeld'
    BY <2>1, <2>5, <2>6 DEF CountInv, AttachmentsHeld, Stored
  <2>8. CountsOffByKills'
    <3> SUFFICES ASSUME NEW x \in Blob
                 PROVE  /\ Cardinality(Users(x)) <= files'[x].ref + lost[x]
                        /\ files'[x].ref <= Cardinality(Users(x)) + leaked[x]
      BY <2>1 DEF CountsOffByKills, Users
    <3>1. CASE x # b
      BY <2>5, <3>1 DEF CountInv, CountsOffByKills
    <3>2. CASE x = b
      <4>1. Users(x) = {}
        BY <2>6, <3>2 DEF Users
      <4>2. Cardinality(Users(x)) = 0
        BY <4>1, FS_EmptySet
      <4>3. files'[x].ref = 0 /\ lost[x] \in Nat /\ leaked[x] \in Nat
        BY <2>1, <2>2, <2>3, <3>2
      <4> QED
        BY <4>2, <4>3
    <3> QED
      BY <3>1, <3>2
  <2> QED
    BY <2>1, <2>3, <2>4, <2>7, <2>8 DEF CountInv
<1> QED
    BY <1>1, <1>2

LEMMA LegacyCounts ==
    ASSUME CountInv, LegacyRequest
    PROVE  CountInv'
<1>1. ASSUME NEW a \in Member, NEW l \in Legacy, NEW t, NEW blobs \in Lists, SendMessage(l, a, t, blobs)
      PROVE  CountInv'
    BY <1>1, SentCounts DEF SendMessage
<1>2. ASSUME NEW a, NEW k, DeleteMessage(a, k)
      PROVE  CountInv'
    BY <1>2, RemovedCounts DEF DeleteMessage, CountInv
<1>3. ASSUME NEW a \in Member, NEW b \in Blob,
             UploadStart(a, b) \/ RequestDeletion(a) \/ CancelDeletion(a)
      PROVE  CountInv'
    BY <1>3, FilesKept DEF UploadStart, RequestDeletion, CancelDeletion, fileVars, CountInv
<1>4. ASSUME NEW a \in Member, RequestDeletion(a) \/ CancelDeletion(a)
      PROVE  CountInv'
    BY <1>4, FilesKept DEF RequestDeletion, CancelDeletion, fileVars, CountInv
<1> QED
    BY <1>1, <1>2, <1>3, <1>4, UploadedCounts DEF LegacyRequest

LEMMA BackgroundCounts ==
    ASSUME RowsInv, CountInv, Background
    PROVE  CountInv'
<1>1. ASSUME NEW u, UploadFails(u)
      PROVE  CountInv'
    BY <1>1, FilesKept DEF UploadFails, fileVars, CountInv
<1>2. ASSUME NEW b \in Blob, CleanupOrphanedFile(b) \/ OrphanForgotten(b) \/ CleanupAllOrphans(b)
      PROVE  CountInv'
  <2>1. UNCHANGED <<rows, attached>>
    BY <1>2 DEF CleanupOrphanedFile, OrphanForgotten, CleanupAllOrphans, fileVars
  <2>2. DropFile(b) \/ UNCHANGED <<files, disk, history>>
    BY <1>2 DEF CleanupOrphanedFile, OrphanForgotten, CleanupAllOrphans, fileVars
  <2>3. CASE UNCHANGED <<files, disk, history>>
    BY <2>1, <2>3, FilesKept DEF CountInv
  <2> QED
    BY <2>1, <2>2, <2>3, Dropped
<1>3. ASSUME NEW gone, PurgeExpired(gone)
      PROVE  CountInv'
    BY <1>3, RemovedCounts DEF PurgeExpired, CountInv
<1>4. ASSUME NEW a, ExecuteDeletion(a)
      PROVE  CountInv'
    BY <1>4, ErasedCounts DEF ExecuteDeletion, Anonymized
<1> QED
    BY <1>1, <1>2, <1>3, <1>4 DEF Background
LEMMA FaultCounts ==
    ASSUME RowsInv, CountInv, Fault
    PROVE  CountInv'
<1>1. ASSUME NEW b \in Blob, NEW a,
             Crash \/ CleanupDies(b) \/ UploadDies(b) \/ RedactDies(a, b)
      PROVE  CountInv'
  <2>1. UNCHANGED <<rows, attached, files, history>> /\ disk' \subseteq disk \cup {b}
    BY <1>1 DEF Crash, CleanupDies, UploadDies, RedactDies, fileVars
  <2> QED
    BY <2>1, FilesKept DEF CountInv
<1>2. CASE Crash
    BY <1>2, FilesKept DEF Crash, CountInv, fileVars
<1>3. ASSUME NEW a \in Member, NEW l \in Legacy, NEW t, NEW blobs \in Lists, SendDies(l, a, t, blobs)
      PROVE  CountInv'
  <2> DEFINE V == {<<l, Len(blobs), blobs[Len(blobs)]>>}
  <2>1. blobs # <<>> /\ Sends(l, a, t, blobs) /\ Attach(Listed(l, blobs), V)
    BY <1>3 DEF SendDies
  <2>2. PICK n \in 0..MaxAttached : blobs \in [1..n -> Blob]
    BY DEF Lists
  <2>3. n \in Nat
    BY StoreConstants
  <2>4. blobs \in Seq(Blob) /\ Len(blobs) = n
    BY <2>2, <2>3
  <2>5. Len(blobs) \in DOMAIN blobs
    BY <2>1, <2>2, <2>3, <2>4
  <2>6. V \in SUBSET Listed(l, blobs)
    BY <2>5 DEF Listed
  <2> HIDE DEF V
  <2> QED
    BY <2>1, <2>6, SentCounts
<1>4. ASSUME NEW a, NEW removed \in SUBSET Orphaned(a), NEW anonymized, NEW dropped \in SUBSET removed,
             DeletionDies(a, removed, dropped, anonymized)
      PROVE  CountInv'
  <2>1. RemoveAuthorFiles(a, removed, dropped) /\ DOMAIN rows' = DOMAIN rows
    BY <1>4 DEF DeletionDies, DeletionStops, Anonymized
  <2> QED
    BY <2>1, ErasedCounts
<1>5. ASSUME NEW k, NEW done, NEW V \in SUBSET AttachedTo({k}), StripDies(done, k, V)
      PROVE  CountInv'
  <2>1. V \in SUBSET AttachedTo(done \cup {k})
    BY DEF AttachedTo
  <2> QED
    BY <1>5, <2>1, RemovedCounts DEF StripDies, CountInv
<1>6. ASSUME NEW i \in Events("post"), NEW V \in SUBSET MissingFiles(i), ReconcileDies(i, V)
      PROVE  CountInv'
  <2> DEFINE posts == 1..i \cap Events("post")
             U == UNION {MissingFiles(k) : k \in posts}
  <2>1. i \in posts
    BY LogLength DEF RowsInv, Events
  <2>2. V \in SUBSET U
    BY <2>1
  <2>3. Attach(U, V) /\ disk' \subseteq Blob /\ rows' = rows
    BY <1>6 DEF ReconcileDies, CountInv
  <2>4. posts \in SUBSET Events("post")
    OBVIOUS
  <2>5. U = UNION {MissingFiles(k) : k \in posts}
    OBVIOUS
  <2> HIDE DEF posts, U
  <2> QED
    BY <2>2, <2>3, <2>4, <2>5, ReconciledCounts
<1> QED
    BY <1>1, <1>2, <1>3, <1>4, <1>5, <1>6 DEF Fault

LEMMA BootCounts ==
    ASSUME RowsInv, CountInv, Boot
    PROVE  CountInv'
<1>1. CASE BuildLogState \/ DeriveMissing \/ ReplaySealedEdits \/ RepairReplyLinks
  <2>1. UNCHANGED fileVars /\ DOMAIN rows \subseteq DOMAIN rows'
    BY <1>1 DEF BuildLogState, DeriveMissing, ReplaySealedEdits, RepairReplyLinks, AddRow
  <2> QED
    BY <2>1, FilesKept DEF fileVars, CountInv
<1>2. CASE SweepTombstoned
    BY <1>2, RemovedCounts DEF SweepTombstoned, CountInv
<1>3. CASE ReconcileAttachments
  <2> DEFINE U == UNION {MissingFiles(k) : k \in Events("post")}
  <2>1. Attach(U, {}) /\ disk' \subseteq Blob /\ rows' = rows
    BY <1>3 DEF ReconcileAttachments, CountInv
  <2>2. U = UNION {MissingFiles(k) : k \in Events("post")}
    OBVIOUS
  <2> HIDE DEF U
  <2> QED
    BY <2>1, <2>2, ReconciledCounts
<1> QED
    BY <1>1, <1>2, <1>3 DEF Boot

StoreInv == RowsInv /\ CountInv

LEMMA StoreInvStep == StoreInv /\ [StoreNext]_storeVars => StoreInv'
<1> SUFFICES ASSUME RowsInv, CountInv, [StoreNext]_storeVars PROVE CountInv'
    BY RowsInvStep DEF StoreInv
<1>1. CASE UNCHANGED storeVars
    BY <1>1, FilesKept DEF storeVars, fileVars, CountInv
<1> QED
    BY <1>1, SubmitCounts, LegacyCounts, BackgroundCounts, FaultCounts, BootCounts DEF StoreNext

LEMMA StoreInvInit == StoreInit => StoreInv
<1> SUFFICES ASSUME StoreInit PROVE CountInv
    BY RowsInvInit DEF StoreInv
<1>1. /\ files = [b \in Blob |-> Absent] /\ disk = {} /\ attached = {}
      /\ lost = [b \in Blob |-> 0] /\ leaked = [b \in Blob |-> 0]
      /\ Absent \in File /\ Absent.ref = 0
    BY DEF StoreInit, Absent, File
<1>2. \A b : Cardinality(Users(b)) = 0
    BY <1>1, FS_EmptySet DEF Users
<1>3. AttachmentsHeld
    BY <1>1, FS_EmptySet DEF AttachmentsHeld
<1>4. CountsOffByKills
    BY <1>1, <1>2 DEF CountsOffByKills
<1> QED
    BY <1>1, <1>3, <1>4 DEF CountInv

(* Rows, attachments and files together: the inductive invariant of the    *)
(* whole store, through uploads, sweeps, purges, deletions, replays and a  *)
(* kill between any two statements.                                        *)
THEOREM StoreIsSound == StoreSpec => []StoreInv
BY StoreInvInit, StoreInvStep, PTL DEF StoreSpec

(* The count that decides whether a file may go is the number of its       *)
(* attachments: every path that adds or removes one counts it once, and    *)
(* only a kill between the attachment row and its count sets them apart,   *)
(* by the counts it swallowed.                                             *)
THEOREM OnlyKillsMiscount == StoreSpec => []CountsOffByKills
<1>1. StoreInv => CountsOffByKills
    BY DEF StoreInv, CountInv
<1> QED
    BY <1>1, StoreIsSound, PTL

(* The tables keep their shape, and no reply leaves its channel.           *)
THEOREM StoreTypeInvariant == StoreSpec => []StoreTypeOK
<1>1. StoreInv => StoreTypeOK
    BY DEF StoreInv, RowsInv, RowsTyped, CountInv, AttachmentsHeld, File, StoreTypeOK, AlwaysBoots,
           Phases
<1> QED
    BY <1>1, StoreIsSound, PTL
=============================================================================
