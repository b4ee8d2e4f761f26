------------------------- MODULE DeviceChain_proofs -------------------------
(***************************************************************************)
(* Theorems about DeviceChain, for any set of commands and any faults.     *)
(***************************************************************************)
EXTENDS DeviceChain, TLAPS

(* The command c waits for the server's verdict on e. *)
Awaits(c, e) ==
    /\ e.seq = loaded[c].next_seq
    /\ \/ phase[c] = "authorizing" /\ e.payload = Auth
       \/ phase[c] = "submitting" /\ e.payload = c

OnlyAwaitedIsHeard ==
    /\ \A r \in requests : r.live => Awaits(r.by, r.event)
    /\ \A a \in answers : Awaits(a.by, a.event)

(* A command has one request or one answer under way, never more. *)
OneOutstanding ==
    /\ \A r1, r2 \in requests : r1.live /\ r2.live /\ r1.by = r2.by => r1 = r2
    /\ \A a1, a2 \in answers : a1.by = a2.by => a1 = a2
    /\ \A r \in requests, a \in answers : r.live => r.by # a.by

HoldersAreCurrent == \A c \in Command : phase[c] \in Holding => loaded[c] = position

LogIsNumbered == \A i \in 1..Len(log) : log[i].seq = i - 1

VerdictsAreTrue ==
    /\ \A a \in answers : a.verdict = "accepted" =>
          a.event.seq < Len(log) /\ log[a.event.seq + 1] = a.event
    /\ \A a \in answers : a.verdict = "already_member" => a.event.payload \in Joins

RequestsAreOld == \A r \in requests : r.event.seq <= position.next_seq

(* What is stored was built before the position the client has now, unless  *)
(* its command is over; so every further copy of it comes too late.         *)
StoredIsPast ==
    \A c \in Command : \A i \in 1..Len(log) : log[i].payload = c =>
        /\ \A r \in requests : r.event.payload = c => r.event.seq < i
        /\ phase[c] = "ok" \/ position.next_seq < i

ChainInv ==
    /\ ChainTypeOK
    /\ OnlyAwaitedIsHeard
    /\ OneOutstanding
    /\ HoldersAreCurrent
    /\ LogIsNumbered
    /\ VerdictsAreTrue
    /\ RequestsAreOld
    /\ StoredIsPast
    /\ SavedIsOnChain
    /\ StoredOnce

-----------------------------------------------------------------------------
(* The invariant, action by action. *)

LEMMA InitEstablishesChainInv == Init => ChainInv
<1> SUFFICES ASSUME Init PROVE ChainInv
    OBVIOUS
<1> USE ChainConstants DEF Init
<1>1. ChainTypeOK
  BY DEF ChainTypeOK, Position, Fresh, Holding, Ended, Event
<1>2. OnlyAwaitedIsHeard /\ OneOutstanding /\ HoldersAreCurrent /\ LogIsNumbered
      /\ VerdictsAreTrue /\ RequestsAreOld /\ StoredIsPast
  BY DEF OnlyAwaitedIsHeard, OneOutstanding, HoldersAreCurrent, LogIsNumbered, VerdictsAreTrue,
         RequestsAreOld, StoredIsPast, Holding
<1>3. SavedIsOnChain /\ StoredOnce
  BY DEF SavedIsOnChain, OnChain, StoredOnce, Copies, Fresh
<1> QED
  BY <1>1, <1>2, <1>3 DEF ChainInv

(* Requests left behind by a connection are the old ones, unheard. *)
LEMMA UnheardAreDead ==
    ASSUME ChainTypeOK
    PROVE  /\ Unheard \subseteq Request
           /\ \A u \in Unheard : ~u.live /\ \E r \in requests : u.event = r.event
<1> QED
  BY DEF Unheard, ChainTypeOK, Request

(* A verdict goes to the sender of its request, if the sender can be reached. *)
Told(r, v) == [by |-> r.by, event |-> r.event, verdict |-> v]

LEMMA ReplyIsOne ==
    ASSUME ChainTypeOK, NEW r \in requests,
           NEW v \in {"accepted", "refused", "already_member"}
    PROVE  /\ Told(r, v) \in Answer
           /\ Told(r, v).by = r.by /\ Told(r, v).event = r.event /\ Told(r, v).verdict = v
           /\ \/ Reply(r, v) = answers
              \/ r.live /\ Reply(r, v) = answers \cup {Told(r, v)}
<1>1. Told(r, v) \in Answer
  BY DEF ChainTypeOK, Request, Answer, Told
<1>2. Told(r, v).by = r.by /\ Told(r, v).event = r.event /\ Told(r, v).verdict = v
  BY DEF Told
<1>3. Reply(r, v) = answers \/ (r.live /\ Reply(r, v) = answers \cup {Told(r, v)})
  BY Zenon DEF Reply, Told
<1> QED
  BY <1>1, <1>2, <1>3

(* Most steps neither store nor save nor send: at most they forget requests *)
(* and answers, and move commands that nobody is going to answer.           *)
LEMMA QuietStepPreserves ==
    ASSUME ChainInv, ChainTypeOK',
           UNCHANGED <<log, position>>,
           answers' \subseteq answers,
           \A q \in requests' : \E r \in requests : q.event = r.event /\ (q.live => q = r),
           \A x \in answers' : UNCHANGED <<phase[x.by], loaded[x.by]>>,
           \A q \in requests' : q.live => UNCHANGED <<phase[q.by], loaded[q.by]>>,
           \A c \in Command : phase'[c] \in Holding =>
               \/ phase[c] \in Holding /\ loaded'[c] = loaded[c]
               \/ loaded'[c] = position,
           \A c \in Command : phase'[c] = "ok" /\ c \notin Joins => phase[c] = "ok",
           \A c \in Command : phase[c] = "ok" => phase'[c] = "ok"
    PROVE  ChainInv'
<1> USE DEF ChainInv
<1>1. OnlyAwaitedIsHeard'
  BY DEF OnlyAwaitedIsHeard, Awaits
<1>2. OneOutstanding'
  BY DEF OneOutstanding
<1>3. HoldersAreCurrent'
  BY DEF HoldersAreCurrent
<1>4. LogIsNumbered' /\ VerdictsAreTrue'
  BY DEF LogIsNumbered, VerdictsAreTrue
<1>5. RequestsAreOld'
  BY DEF RequestsAreOld
<1>6. StoredIsPast'
  BY DEF StoredIsPast
<1>7. SavedIsOnChain'
  BY DEF SavedIsOnChain, OnChain
<1>8. StoredOnce'
  BY DEF StoredOnce, Copies
<1> QED
  BY <1>1, <1>2, <1>3, <1>4, <1>5, <1>6, <1>7, <1>8

(* A step that disturbs no request and no answer, and no command that awaits one. *)
LEMMA SilentStepPreserves ==
    ASSUME ChainInv, ChainTypeOK',
           UNCHANGED <<log, position, answers>>, requests' \subseteq requests,
           \A c \in Command : phase[c] \in {"authorizing", "submitting"} =>
               UNCHANGED <<phase[c], loaded[c]>>,
           \A c \in Command : phase'[c] \in Holding =>
               \/ phase[c] \in Holding /\ loaded'[c] = loaded[c]
               \/ loaded'[c] = position,
           \A c \in Command : phase'[c] = "ok" /\ c \notin Joins => phase[c] = "ok",
           \A c \in Command : phase[c] = "ok" => phase'[c] = "ok"
    PROVE  ChainInv'
<1>1. \A x \in answers' : UNCHANGED <<phase[x.by], loaded[x.by]>>
  BY DEF ChainInv, OnlyAwaitedIsHeard, Awaits, ChainTypeOK, Answer
<1>2. \A q \in requests' : q.live => UNCHANGED <<phase[q.by], loaded[q.by]>>
  BY DEF ChainInv, OnlyAwaitedIsHeard, Awaits, ChainTypeOK, Request
<1>3. \A q \in requests' : \E r \in requests : q.event = r.event /\ (q.live => q = r)
  OBVIOUS
<1> QED
  BY <1>1, <1>2, <1>3, QuietStepPreserves

LEMMA IssuePreserves ==
    ASSUME ChainInv, NEW c \in Command, Issue(c)
    PROVE  ChainInv'
<1> USE DEF Issue, serverVars, diskVars, netVars, Holding
<1>1. ChainTypeOK'
  BY DEF ChainInv, ChainTypeOK, Ended
<1> QED
  BY <1>1, SilentStepPreserves DEF ChainInv, ChainTypeOK

LEMMA AcquirePreserves ==
    ASSUME ChainInv, NEW c \in Command, Acquire(c)
    PROVE  ChainInv'
<1> USE DEF Acquire, serverVars, diskVars, netVars, Holding
<1>1. ChainTypeOK'
  BY DEF ChainInv, ChainTypeOK, Ended, LockFree
<1> QED
  BY <1>1, SilentStepPreserves DEF ChainInv, ChainTypeOK

LEMMA GivesUpPreserves ==
    ASSUME ChainInv, NEW c \in Command, GivesUp(c)
    PROVE  ChainInv'
<1> USE DEF GivesUp, serverVars, diskVars, netVars, Holding
<1>1. ChainTypeOK'
  BY DEF ChainInv, ChainTypeOK, Ended
<1> QED
  BY <1>1, SilentStepPreserves DEF ChainInv, ChainTypeOK

LEMMA StandingMovesPreserves ==
    ASSUME ChainInv, StandingMoves
    PROVE  ChainInv'
<1> USE DEF StandingMoves, serverVars, diskVars, netVars, Holding
<1>1. ChainTypeOK'
  BY DEF ChainInv, ChainTypeOK, Ended
<1> QED
  BY <1>1, SilentStepPreserves DEF ChainInv, ChainTypeOK

LEMMA ReconnectsPreserves ==
    ASSUME ChainInv, Reconnects
    PROVE  ChainInv'
<1> USE DEF Reconnects, serverVars, diskVars, netVars, Holding
<1>1. ChainTypeOK'
  BY DEF ChainInv, ChainTypeOK, Ended
<1> QED
  BY <1>1, SilentStepPreserves DEF ChainInv, ChainTypeOK

LEMMA RequestLostPreserves ==
    ASSUME ChainInv, NEW r \in requests, RequestLost(r)
    PROVE  ChainInv'
<1> USE DEF RequestLost, serverVars, diskVars, netVars, Holding
<1>1. ChainTypeOK'
  BY DEF ChainInv, ChainTypeOK, Ended
<1> QED
  BY <1>1, SilentStepPreserves DEF ChainInv, ChainTypeOK

(* The connection's death silences everybody; a crash also ends the commands. *)
LEMMA SilencePreserves ==
    ASSUME ChainInv, ConnectionDrops \/ Crash
    PROVE  ChainInv'
<1>1. ChainTypeOK'
  <2>1. faults' \in 0..MaxFaults
    BY ChainConstants DEF ConnectionDrops, Crash, Fault, ChainInv, ChainTypeOK
  <2>2. requests' \subseteq Request /\ answers' = {} /\ connected' = FALSE
    BY UnheardAreDead DEF ConnectionDrops, Crash, ChainInv
  <2>3. UNCHANGED <<log, standing, position, loaded>> /\ readable' \in BOOLEAN
    BY DEF ConnectionDrops, Crash, serverVars, diskVars, ChainInv, ChainTypeOK
  <2>4. \/ phase' = phase
        \/ phase' = [c \in Command |->
                       IF phase[c] \in Holding \cup {"waiting"} THEN "failed" ELSE phase[c]]
    BY DEF ConnectionDrops, Crash
  <2> QED
    BY <2>1, <2>2, <2>3, <2>4 DEF ChainInv, ChainTypeOK, Holding, Ended
<1>2. /\ UNCHANGED <<log, position, loaded>> /\ answers' = {} /\ requests' = Unheard
      /\ \A c \in Command : phase'[c] = phase[c]
            \/ (phase[c] \in Holding \cup {"waiting"} /\ phase'[c] = "failed")
  BY DEF ConnectionDrops, Crash, serverVars, diskVars
<1>3. \A q \in requests' : ~q.live /\ \E r \in requests : q.event = r.event
  BY <1>2, UnheardAreDead DEF ChainInv
<1> QED
  BY <1>1, <1>2, <1>3, QuietStepPreserves DEF Holding

(* An answer takes the place of its request. *)
LEMMA AnsweringPreserves ==
    ASSUME ChainInv, NEW r \in requests,
           NEW v \in {"accepted", "refused", "already_member"},
           answers' = Reply(r, v), requests' = requests \ {r}, UNCHANGED <<phase, loaded>>
    PROVE  /\ OnlyAwaitedIsHeard' /\ OneOutstanding'
           /\ requests' \subseteq Request /\ answers' \subseteq Answer
           /\ \A x \in answers' : x \in answers \/ (x.event = r.event /\ x.verdict = v)
<1> USE DEF ChainInv
<1>t. /\ Told(r, v) \in Answer
      /\ Told(r, v).by = r.by /\ Told(r, v).event = r.event /\ Told(r, v).verdict = v
  BY ReplyIsOne
<1>a. answers' = answers \/ (r.live /\ answers' = answers \cup {Told(r, v)})
  BY ReplyIsOne
<1>1. requests' \subseteq Request /\ answers' \subseteq Answer
  BY <1>t, <1>a DEF ChainTypeOK
<1>2. OnlyAwaitedIsHeard'
  <2>1. \A x \in answers' : Awaits(x.by, x.event)
    BY <1>t, <1>a DEF OnlyAwaitedIsHeard
  <2> QED
    BY <2>1 DEF OnlyAwaitedIsHeard, Awaits
<1>3. OneOutstanding'
  <2>1. \A x \in answers : r.live => x.by # r.by
    BY DEF OneOutstanding
  <2>2. \A x, y \in answers : x.by = y.by => x = y
    BY DEF OneOutstanding
  <2>3. \A x, y \in answers' : x.by = y.by => x = y
    <3> HIDE DEF ChainInv
    <3> QED
      BY <1>t, <1>a, <2>1, <2>2
  <2>4. \A q \in requests', x \in answers' : q.live => q.by # x.by
    BY <1>t, <1>a DEF OneOutstanding
  <2>5. \A r1, r2 \in requests' : r1.live /\ r2.live /\ r1.by = r2.by => r1 = r2
    BY DEF OneOutstanding
  <2> QED
    BY <2>3, <2>4, <2>5 DEF OneOutstanding
<1>4. \A x \in answers' : x \in answers \/ (x.event = r.event /\ x.verdict = v)
  BY <1>t, <1>a
<1> QED
  BY <1>1, <1>2, <1>3, <1>4

LEMMA ServerRefusesPreserves ==
    ASSUME ChainInv, NEW r \in requests, ServerRefuses(r)
    PROVE  ChainInv'
<1> USE DEF ChainInv, serverVars, diskVars, netVars, ServerRefuses
<1>v. PICK v \in {"accepted", "refused", "already_member"} :
         answers' = Reply(r, v) /\ (v = "already_member" => AlreadyMember(r.event)) /\ v # "accepted"
  OBVIOUS
<1>a. /\ OnlyAwaitedIsHeard' /\ OneOutstanding'
      /\ requests' \subseteq Request /\ answers' \subseteq Answer
      /\ \A x \in answers' : x \in answers \/ (x.event = r.event /\ x.verdict = v)
  BY <1>v, AnsweringPreserves
<1>1. ChainTypeOK'
  BY <1>a DEF ChainTypeOK
<1>2. HoldersAreCurrent' /\ LogIsNumbered' /\ RequestsAreOld' /\ StoredIsPast'
  BY DEF HoldersAreCurrent, LogIsNumbered, RequestsAreOld, StoredIsPast
<1>3. VerdictsAreTrue'
  <2>1. \A x \in answers' : x.verdict = "accepted" => x \in answers
    BY <1>a, <1>v
  <2>2. \A x \in answers' : x.verdict = "already_member" => x.event.payload \in Joins
    BY <1>a, <1>v DEF VerdictsAreTrue, AlreadyMember
  <2> QED
    BY <2>1, <2>2 DEF VerdictsAreTrue
<1>4. SavedIsOnChain'
  BY DEF SavedIsOnChain, OnChain
<1>5. StoredOnce'
  BY DEF StoredOnce, Copies
<1> QED
  BY <1>a, <1>1, <1>2, <1>3, <1>4, <1>5

LEMMA ServerAcceptsPreserves ==
    ASSUME ChainInv, NEW r \in requests, ServerAccepts(r)
    PROVE  ChainInv'
<1> USE DEF ChainInv
<1>d. log \in Seq(Event) /\ Len(log) \in Nat /\ DOMAIN log = 1..Len(log)
  BY DEF ChainTypeOK
<1>e. r.event \in Event /\ r.event.seq = Len(log)
  BY <1>d DEF ServerAccepts, CheckChain, ChainTypeOK, Request
<1>m. PICK n \in Nat : n = Len(log) + 1
  BY <1>d
<1>s. log' \in Seq(Event) /\ DOMAIN log' = 1..n
  BY <1>d, <1>e, <1>m DEF ServerAccepts
<1>l. /\ Len(log') = n /\ log'[n] = r.event
      /\ \A i \in 1..Len(log) : log'[i] = log[i]
  BY <1>d, <1>e, <1>m DEF ServerAccepts
<1>n. n \in Nat /\ n = Len(log) + 1 /\ Len(log) \in Nat /\ 1..Len(log) \subseteq 1..n
      /\ \A i \in 1..n : i \in 1..Len(log) \/ i = n
  BY <1>d, <1>m
<1>u. UNCHANGED <<position, readable, phase, loaded, connected>> /\ requests' = requests \ {r}
  BY DEF ServerAccepts, diskVars
<1>v. PICK v \in {"accepted", "refused", "already_member"} :
         answers' = Reply(r, v) /\ v # "already_member"
  BY DEF ServerAccepts
<1>a. /\ OnlyAwaitedIsHeard' /\ OneOutstanding'
      /\ requests' \subseteq Request /\ answers' \subseteq Answer
      /\ \A x \in answers' : x \in answers \/ (x.event = r.event /\ x.verdict = v)
  BY <1>u, <1>v, AnsweringPreserves
<1>p. position.next_seq \in 0..Len(log)
  BY DEF SavedIsOnChain, OnChain
<1> HIDE DEF ChainInv
<1>1. ChainTypeOK'
  <2>0. faults' = faults \/ (faults < MaxFaults /\ faults' = faults + 1)
    BY Zenon DEF ServerAccepts, Fault
  <2>1. faults' \in 0..MaxFaults
    BY <2>0, ChainConstants DEF ChainInv, ChainTypeOK
  <2>2. standing' \in {"none", "pending", "member"}
    BY DEF ServerAccepts, ChainInv, ChainTypeOK
  <2> QED
    BY <1>s, <1>u, <1>a, <2>1, <2>2 DEF ChainInv, ChainTypeOK
<1>2. HoldersAreCurrent' /\ RequestsAreOld'
  BY <1>u DEF ChainInv, HoldersAreCurrent, RequestsAreOld
<1>3. LogIsNumbered'
  <2>1. \A i \in 1..Len(log) : log'[i].seq = i - 1
    BY <1>l DEF ChainInv, LogIsNumbered
  <2>2. log'[n].seq = n - 1
    BY <1>e, <1>l, <1>n
  <2>3. \A i \in 1..n : log'[i].seq = i - 1
    BY <1>n, <2>1, <2>2
  <2> QED
    BY <1>l, <2>3 DEF LogIsNumbered
<1>4. VerdictsAreTrue'
  <2>1. ASSUME NEW x \in answers', x.verdict = "accepted"
        PROVE  x.event.seq < n /\ log'[x.event.seq + 1] = x.event
    <3>1. CASE x.event = r.event
      BY <1>e, <1>l, <1>n, <3>1
    <3>2. CASE x \in answers
      <4>1. x.event.seq < Len(log) /\ log[x.event.seq + 1] = x.event /\ x.event.seq \in Nat
        BY <2>1, <3>2 DEF ChainInv, VerdictsAreTrue, ChainTypeOK, Answer, Event
      <4> QED
        BY <1>n, <1>l, <4>1
    <3> QED
      BY <1>a, <3>1, <3>2
  <2>2. \A x \in answers' : x.verdict = "already_member" => x \in answers
    BY <1>a, <1>v
  <2> QED
    BY <1>l, <2>1, <2>2 DEF ChainInv, VerdictsAreTrue
<1>5. StoredIsPast'
  <2> SUFFICES ASSUME NEW c \in Command, NEW i \in 1..n, log'[i].payload = c
               PROVE  /\ \A q \in requests : q.event.payload = c => q.event.seq < i
                      /\ phase[c] = "ok" \/ position.next_seq < i
    BY <1>l, <1>u DEF StoredIsPast
  <2>1. CASE i = n
    <3>1. \A q \in requests : q.event.seq <= position.next_seq /\ q.event.seq \in Nat
      BY DEF ChainInv, RequestsAreOld, ChainTypeOK, Request, Event
    <3> QED
      BY <1>p, <1>n, <2>1, <3>1
  <2>2. CASE i \in 1..Len(log)
    BY <1>l, <2>2 DEF ChainInv, StoredIsPast
  <2> QED
    BY <1>n, <2>1, <2>2
<1>6. SavedIsOnChain'
  <2>1. \A i \in 1..position.next_seq : log'[i] = log[i]
    BY <1>l, <1>p, <1>n
  <2> QED
    BY <1>l, <1>p, <1>n, <1>u, <2>1 DEF ChainInv, SavedIsOnChain, OnChain, HashOf
<1>7. StoredOnce'
  <2> SUFFICES ASSUME NEW c \in Command
               PROVE  /\ \A i, j \in 1..n : log'[i].payload = c /\ log'[j].payload = c => i = j
                      /\ phase[c] = "ok" /\ c \notin Joins => \E i \in 1..n : log'[i].payload = c
    BY <1>s, <1>u DEF StoredOnce, Copies
  <2>1. \A i, j \in 1..Len(log) : log[i].payload = c /\ log[j].payload = c => i = j
    BY <1>d DEF ChainInv, StoredOnce, Copies
  <2>2. phase[c] = "ok" /\ c \notin Joins => \E i \in 1..Len(log) : log[i].payload = c
    BY <1>d DEF ChainInv, StoredOnce, Copies
  <2>3. r.event.payload = c => \A i \in 1..Len(log) : log[i].payload # c
    BY <1>e DEF ChainInv, StoredIsPast
  <2>5. \A i, j \in 1..n : log'[i].payload = c /\ log'[j].payload = c => i = j
    BY <1>l, <1>n, <2>1, <2>3
  <2> QED
    BY <1>l, <1>n, <2>2, <2>5
<1> QED
  BY <1>a, <1>1, <1>2, <1>3, <1>4, <1>5, <1>6, <1>7 DEF ChainInv

(* What a command sends is at the position it loaded, which is the saved one. *)
LEMMA SendPreserves ==
    ASSUME ChainInv, NEW c \in Command, NEW at \in Stamp, NEW p \in Payload, NEW w,
           \/ w = "authorizing" /\ p = Auth
           \/ w = "submitting" /\ p = c,
           phase[c] = "building", phase' = [phase EXCEPT ![c] = w], Send(c, p, at)
    PROVE  ChainInv'
<1>d. PICK q : q = [by |-> c, event |-> Built(c, p, at), live |-> TRUE]
  OBVIOUS
<1>q. /\ q \in Request /\ q.by = c /\ q.live
      /\ q.event.seq = loaded[c].next_seq /\ q.event.payload = p
      /\ q.event.seq = position.next_seq
  BY <1>d DEF Built, Request, Event, ChainInv, ChainTypeOK, Position, HoldersAreCurrent, Holding
<1>u. /\ requests' = requests \cup {q}
      /\ UNCHANGED <<log, standing, position, readable, loaded, connected, answers, faults>>
  BY <1>d DEF Send, serverVars, diskVars
<1>p. phase'[c] = w /\ \A k \in Command \ {c} : phase'[k] = phase[k]
  BY DEF ChainInv, ChainTypeOK
<1>o. /\ \A r \in requests : r.live => r.by \in Command \ {c}
      /\ \A a \in answers : a.by \in Command \ {c}
  BY DEF ChainInv, OnlyAwaitedIsHeard, Awaits, ChainTypeOK, Request, Answer
<1>1. ChainTypeOK'
  BY <1>q, <1>u DEF ChainInv, ChainTypeOK, Holding, Ended
<1>2. OnlyAwaitedIsHeard'
  <2>1. \A r \in requests : r.live => Awaits(r.by, r.event)'
    BY <1>u, <1>p, <1>o DEF ChainInv, OnlyAwaitedIsHeard, Awaits
  <2>2. \A a \in answers : Awaits(a.by, a.event)'
    BY <1>u, <1>p, <1>o DEF ChainInv, OnlyAwaitedIsHeard, Awaits
  <2>3. Awaits(q.by, q.event)'
    BY <1>q, <1>u, <1>p DEF Awaits
  <2> QED
    BY <1>u, <2>1, <2>2, <2>3 DEF OnlyAwaitedIsHeard
<1>3. OneOutstanding'
  BY <1>q, <1>u, <1>o DEF ChainInv, OneOutstanding
<1>4. HoldersAreCurrent'
  BY <1>u, <1>p DEF ChainInv, HoldersAreCurrent, Holding
<1>5. LogIsNumbered' /\ VerdictsAreTrue'
  BY <1>u DEF ChainInv, LogIsNumbered, VerdictsAreTrue
<1>6. RequestsAreOld'
  BY <1>q, <1>u DEF ChainInv, RequestsAreOld, ChainTypeOK, Position
<1>7. StoredIsPast'
  <2> SUFFICES ASSUME NEW k \in Command, NEW i \in 1..Len(log), log[i].payload = k
               PROVE  /\ \A r \in requests' : r.event.payload = k => r.event.seq < i
                      /\ phase'[k] = "ok" \/ position.next_seq < i
    BY <1>u DEF StoredIsPast
  <2>1. /\ \A r \in requests : r.event.payload = k => r.event.seq < i
        /\ phase[k] = "ok" \/ position.next_seq < i
    BY DEF ChainInv, StoredIsPast
  <2>2. q.event.payload = k => k = c
    BY <1>q, ChainConstants
  <2> QED
    BY <1>q, <1>u, <1>p, <2>1, <2>2
<1>8. SavedIsOnChain'
  BY <1>u DEF ChainInv, SavedIsOnChain, OnChain
<1>9. StoredOnce'
  BY <1>u, <1>p DEF ChainInv, StoredOnce, Copies
<1> QED
  BY <1>1, <1>2, <1>3, <1>4, <1>5, <1>6, <1>7, <1>8, <1>9 DEF ChainInv

LEMMA WritesPreserves ==
    ASSUME ChainInv, NEW c \in Command, Writes(c)
    PROVE  ChainInv'
<1>1. ASSUME NEW at \in Stamp, SubmitAuth(c, at) PROVE ChainInv'
  BY <1>1, SendPreserves DEF SubmitAuth, Payload
<1>2. ASSUME NEW at \in Stamp, Submit(c, at) PROVE ChainInv'
  BY <1>2, SendPreserves DEF Submit, Payload
<1> QED
  BY <1>1, <1>2, GivesUpPreserves DEF Writes

(* The answer a command waited for finds nothing else under way. *)
LEMMA OneIsHeard ==
    ASSUME ChainInv, NEW c \in Command, NEW a \in answers, a.by = c
    PROVE  /\ answers = {a} /\ \A r \in requests : ~r.live
           /\ phase[c] \in {"authorizing", "submitting"}
           /\ \A k \in Command \ {c} : phase[k] \notin Holding
           /\ loaded[c] = position /\ a.event \in Event
           /\ a.event.seq = position.next_seq
           /\ \/ phase[c] = "authorizing" /\ a.event.payload = Auth
              \/ phase[c] = "submitting" /\ a.event.payload = c
<1> USE DEF ChainInv
<1>1. /\ phase[c] \in {"authorizing", "submitting"}
      /\ a.event.seq = loaded[c].next_seq
      /\ \/ phase[c] = "authorizing" /\ a.event.payload = Auth
         \/ phase[c] = "submitting" /\ a.event.payload = c
  BY DEF OnlyAwaitedIsHeard, Awaits
<1>2. \A k \in Command \ {c} : phase[k] \notin Holding
  BY <1>1 DEF ChainTypeOK, Holding
<1>3. loaded[c] = position /\ a.event \in Event
  BY <1>1 DEF HoldersAreCurrent, Holding, ChainTypeOK, Answer
<1>4. \A x \in answers : x.by = c
  BY <1>2 DEF OnlyAwaitedIsHeard, Awaits, Holding, ChainTypeOK, Answer
<1>5. answers = {a}
  BY <1>4 DEF OneOutstanding
<1>6. \A r \in requests : ~r.live
  BY <1>2 DEF OneOutstanding, OnlyAwaitedIsHeard, Awaits, Holding, ChainTypeOK, Request
<1> QED
  BY <1>1, <1>2, <1>3, <1>5, <1>6

(* A command that fails on its answer leaves everything else as it was. *)
LEMMA HearingFailurePreserves ==
    ASSUME ChainInv, NEW c \in Command, NEW a \in answers, a.by = c,
           phase' = [phase EXCEPT ![c] = "failed"],
           answers' = answers \ {a}, readable' \in BOOLEAN, faults' \in 0..MaxFaults,
           UNCHANGED <<log, standing, position, loaded, connected, requests>>
    PROVE  ChainInv'
<1>1. answers' = {} /\ \A r \in requests : ~r.live
  BY OneIsHeard
<1>2. phase[c] \in {"authorizing", "submitting"}
  BY OneIsHeard
<1>3. ChainTypeOK'
  BY DEF ChainInv, ChainTypeOK, Holding, Ended
<1>4. \A k \in Command : phase'[k] = IF k = c THEN "failed" ELSE phase[k]
  BY DEF ChainInv, ChainTypeOK
<1> QED
  BY <1>1, <1>2, <1>3, <1>4, QuietStepPreserves DEF Holding

LEMMA SaveFailurePreserves ==
    ASSUME ChainInv, NEW c \in Command, NEW a \in answers, a.by = c, SaveFails(c),
           answers' = answers \ {a}, UNCHANGED <<log, standing, connected, requests>>
    PROVE  ChainInv'
<1>1. faults' \in 0..MaxFaults
  BY ChainConstants DEF SaveFails, Fault, ChainInv, ChainTypeOK
<1>2. readable' \in BOOLEAN
  BY DEF SaveFails, ChainInv, ChainTypeOK
<1> QED
  BY <1>1, <1>2, HearingFailurePreserves DEF SaveFails

LEMMA AnswerRefusedPreserves ==
    ASSUME ChainInv, NEW c \in Command, NEW a \in answers, AnswerRefused(c, a)
    PROVE  ChainInv'
<1>1. faults' \in 0..MaxFaults /\ readable' \in BOOLEAN
  BY DEF AnswerRefused, diskVars, ChainInv, ChainTypeOK
<1> QED
  BY <1>1, HearingFailurePreserves DEF AnswerRefused, serverVars, diskVars

(* What is saved on an acceptance is the next point of the chain. *)
LEMMA AnswerAcceptedPreserves ==
    ASSUME ChainInv, NEW c \in Command, NEW a \in answers, AnswerAccepted(c, a)
    PROVE  ChainInv'
<1>1. a.by = c /\ answers' = answers \ {a} /\ UNCHANGED <<log, standing, connected, requests>>
  BY DEF AnswerAccepted, serverVars
<1>2. CASE SaveFails(c)
  BY <1>1, <1>2, SaveFailurePreserves
<1>3. CASE Saves(c, Settled(c, a))
  <2>h. /\ answers' = {} /\ \A r \in requests : ~r.live
        /\ phase[c] \in {"authorizing", "submitting"}
        /\ \A k \in Command \ {c} : phase[k] \notin Holding
        /\ loaded[c] = position /\ a.event \in Event
        /\ a.event.seq = position.next_seq
        /\ \/ phase[c] = "authorizing" /\ a.event.payload = Auth
           \/ phase[c] = "submitting" /\ a.event.payload = c
    BY <1>1, OneIsHeard
  <2>l. /\ position.next_seq < Len(log) /\ log[position.next_seq + 1] = a.event
        /\ position.next_seq \in Nat /\ Len(log) \in Nat
    BY <2>h DEF AnswerAccepted, ChainInv, VerdictsAreTrue, ChainTypeOK, Position
  <2>s. /\ Settled(c, a) \in Position
        /\ Settled(c, a).next_seq = position.next_seq + 1
        /\ Settled(c, a).last_event_hash = HashOf(a.event)
        /\ Settled(c, a).authorized => position.authorized \/ a.event.payload = Auth
    <3>1. position \in Position /\ HashOf(a.event) \in Hash
      BY <2>h DEF HashOf, Hash, Event, ChainInv, ChainTypeOK
    <3>2. PICK p : p = Advanced(loaded[c], a.event)
      OBVIOUS
    <3>3. /\ p \in Position
          /\ p.next_seq = position.next_seq + 1
          /\ p.last_event_hash = HashOf(a.event)
          /\ p.authorized = position.authorized
      <4>1. PICK h \in Hash : h = HashOf(a.event)
        BY <3>1
      <4>2. p = [position EXCEPT !.next_seq = position.next_seq + 1, !.last_event_hash = h]
        BY <3>2, <2>h, <4>1, Zenon DEF Advanced
      <4>3. p = [next_seq |-> position.next_seq + 1, last_event_hash |-> h,
                 authorized |-> position.authorized, joined |-> position.joined]
        BY <3>1, <4>2 DEF Position
      <4>4. position.authorized \in BOOLEAN /\ position.joined \in BOOLEAN /\ position.next_seq + 1 \in Nat
        BY <3>1 DEF Position
      <4>5. p \in Position
        BY <4>1, <4>3, <4>4 DEF Position
      <4> QED
        BY <4>1, <4>3, <4>5
    <3>4. CASE phase[c] = "authorizing"
      <4>1. Settled(c, a) = [p EXCEPT !.authorized = TRUE]
        BY <3>2, <3>4, Zenon DEF Settled
      <4> QED
        BY <4>1, <3>3, <3>4, <2>h DEF Position
    <3>5. CASE phase[c] # "authorizing"
      <4>1. Settled(c, a) = [p EXCEPT !.joined = @ \/ c \in Joins]
        BY <3>2, <3>5, Zenon DEF Settled
      <4>2. (p.joined \/ c \in Joins) \in BOOLEAN
        OBVIOUS
      <4> QED
        BY <4>1, <4>2, <3>3 DEF Position
    <3> QED
      BY <3>4, <3>5
  <2>p. /\ position' = Settled(c, a) /\ UNCHANGED <<readable, faults>>
        /\ loaded' = [loaded EXCEPT ![c] = Settled(c, a)]
        /\ phase' = [phase EXCEPT ![c] = IF @ = "authorizing" THEN "building" ELSE "ok"]
    BY <1>3 DEF Saves
  <2>k. \A k \in Command : phase'[k] =
           IF k = c THEN (IF phase[c] = "authorizing" THEN "building" ELSE "ok") ELSE phase[k]
    BY <2>p DEF ChainInv, ChainTypeOK
  <2>1. ChainTypeOK'
    BY <1>1, <2>p, <2>s, <2>h, <2>k DEF ChainInv, ChainTypeOK, Holding, Ended
  <2>2. OnlyAwaitedIsHeard' /\ OneOutstanding' /\ LogIsNumbered' /\ VerdictsAreTrue'
    BY <1>1, <2>h DEF ChainInv, OnlyAwaitedIsHeard, OneOutstanding, LogIsNumbered, VerdictsAreTrue
  <2>3. HoldersAreCurrent'
    BY <2>p, <2>k, <2>h DEF HoldersAreCurrent, ChainInv, ChainTypeOK
  <2>4. RequestsAreOld'
    BY <1>1, <2>p, <2>s, <2>l DEF ChainInv, RequestsAreOld, ChainTypeOK, Request, Event
  <2>5. StoredIsPast'
    <3> SUFFICES ASSUME NEW k \in Command, NEW i \in 1..Len(log), log[i].payload = k
                 PROVE  /\ \A r \in requests : r.event.payload = k => r.event.seq < i
                        /\ phase'[k] = "ok" \/ position.next_seq + 1 < i
      BY <1>1, <2>p, <2>s DEF StoredIsPast
    <3>1. /\ \A r \in requests : r.event.payload = k => r.event.seq < i
          /\ phase[k] = "ok" \/ position.next_seq < i
      BY DEF ChainInv, StoredIsPast
    <3>2. i = position.next_seq + 1 => phase'[k] = "ok"
      BY <2>l, <2>h, <2>k, ChainConstants
    <3>3. phase[k] = "ok" => phase'[k] = "ok"
      BY <2>k, <2>h
    <3> QED
      BY <2>l, <3>1, <3>2, <3>3
  <2>6. SavedIsOnChain'
    <3>1. position.authorized => \E i \in 1..position.next_seq : log[i].payload = Auth
      BY DEF ChainInv, SavedIsOnChain, OnChain
    <3>2. Settled(c, a).authorized => \E i \in 1..(position.next_seq + 1) : log[i].payload = Auth
      BY <3>1, <2>l, <2>s
    <3> QED
      BY <1>1, <3>2, <2>l, <2>s, <2>p DEF SavedIsOnChain, OnChain, HashOf
  <2>7. StoredOnce'
    <3>1. phase'[c] = "ok" => Copies(c) # {}
      BY <2>k, <2>h, <2>l DEF Copies, ChainInv, ChainTypeOK
    <3>2. \A k \in Command : Copies(k)' = Copies(k)
      BY <1>1 DEF Copies
    <3> QED
      BY <3>1, <3>2, <2>k DEF ChainInv, StoredOnce
  <2> QED
    BY <2>1, <2>2, <2>3, <2>4, <2>5, <2>6, <2>7 DEF ChainInv
<1> QED
  BY <1>2, <1>3 DEF AnswerAccepted

(* A join that was unnecessary advances nothing. *)
LEMMA AnswerAlreadyMemberPreserves ==
    ASSUME ChainInv, NEW c \in Command, NEW a \in answers, AnswerAlreadyMember(c, a)
    PROVE  ChainInv'
<1>1. a.by = c /\ answers' = answers \ {a} /\ UNCHANGED <<log, standing, connected, requests>>
  BY DEF AnswerAlreadyMember, serverVars
<1>2. CASE SaveFails(c)
  BY <1>1, <1>2, SaveFailurePreserves
<1>3. CASE Saves(c, AlreadyJoined(c, a))
  <2>h. /\ answers' = {} /\ \A r \in requests : ~r.live
        /\ phase[c] = "submitting"
        /\ \A k \in Command \ {c} : phase[k] \notin Holding
        /\ loaded[c] = position /\ c \in Joins
    BY <1>1, OneIsHeard DEF AnswerAlreadyMember, ChainInv, VerdictsAreTrue
  <2>s. /\ AlreadyJoined(c, a) \in Position
        /\ AlreadyJoined(c, a).next_seq = position.next_seq
        /\ AlreadyJoined(c, a).last_event_hash = position.last_event_hash
        /\ AlreadyJoined(c, a).authorized = position.authorized
    BY <2>h DEF AlreadyJoined, ChainInv, ChainTypeOK, Position
  <2>p. /\ position' = AlreadyJoined(c, a) /\ UNCHANGED <<readable, faults>>
        /\ loaded' = [loaded EXCEPT ![c] = AlreadyJoined(c, a)]
        /\ phase' = [phase EXCEPT ![c] = "ok"]
    BY <1>3, <2>h DEF Saves
  <2>k. \A k \in Command : phase'[k] = IF k = c THEN "ok" ELSE phase[k]
    BY <2>p DEF ChainInv, ChainTypeOK
  <2>1. ChainTypeOK'
    BY <1>1, <2>p, <2>s, <2>h, <2>k DEF ChainInv, ChainTypeOK, Holding, Ended
  <2>2. OnlyAwaitedIsHeard' /\ OneOutstanding' /\ LogIsNumbered' /\ VerdictsAreTrue'
    BY <1>1, <2>h DEF ChainInv, OnlyAwaitedIsHeard, OneOutstanding, LogIsNumbered, VerdictsAreTrue
  <2>3. HoldersAreCurrent'
    BY <2>k, <2>h DEF HoldersAreCurrent, Holding
  <2>4. RequestsAreOld' /\ StoredIsPast'
    BY <1>1, <2>p, <2>s, <2>k DEF ChainInv, RequestsAreOld, StoredIsPast
  <2>5. SavedIsOnChain'
    BY <1>1, <2>p, <2>s DEF ChainInv, SavedIsOnChain, OnChain
  <2>6. StoredOnce'
    BY <1>1, <2>h, <2>k DEF ChainInv, StoredOnce, Copies
  <2> QED
    BY <2>1, <2>2, <2>3, <2>4, <2>5, <2>6 DEF ChainInv
<1> QED
  BY <1>2, <1>3 DEF AnswerAlreadyMember

-----------------------------------------------------------------------------
LEMMA NextPreservesChainInv == ChainInv /\ [Next]_chainVars => ChainInv'
<1> SUFFICES ASSUME ChainInv, [Next]_chainVars PROVE ChainInv'
  OBVIOUS
<1>1. CASE \E c \in Command : Issue(c) \/ Acquire(c) \/ Writes(c) \/ Hears(c)
  <2> PICK c \in Command : Issue(c) \/ Acquire(c) \/ Writes(c) \/ Hears(c)
    BY <1>1
  <2>1. CASE Hears(c)
    BY <2>1, AnswerAcceptedPreserves, AnswerAlreadyMemberPreserves, AnswerRefusedPreserves DEF Hears
  <2> QED
    BY <2>1, IssuePreserves, AcquirePreserves, WritesPreserves
<1>2. CASE ServerTakes
  BY <1>2, ServerAcceptsPreserves, ServerRefusesPreserves DEF ServerTakes
<1>3. CASE \E r \in requests : RequestLost(r)
  BY <1>3, RequestLostPreserves
<1>4. CASE StandingMoves
  BY <1>4, StandingMovesPreserves
<1>5. CASE ConnectionDrops \/ Crash
  BY <1>5, SilencePreserves
<1>6. CASE Reconnects
  BY <1>6, ReconnectsPreserves
<1>7. CASE UNCHANGED chainVars
  <2>1. UNCHANGED <<log, standing, position, readable, phase, loaded, connected, requests, answers, faults>>
    BY <1>7 DEF chainVars, serverVars, diskVars, netVars
  <2>2. ChainTypeOK'
    BY <2>1 DEF ChainInv, ChainTypeOK
  <2> QED
    BY <2>1, <2>2, SilentStepPreserves DEF ChainInv, HoldersAreCurrent
<1> QED
  BY <1>1, <1>2, <1>3, <1>4, <1>5, <1>6, <1>7 DEF Next

(* The client's chain position, the requests and answers under way and the  *)
(* server's chain agree, in the sense of ChainInv, in every reachable state. *)
THEOREM ChainIsInvariant == ChainSpec => []ChainInv
<1>1. Init => ChainInv
  BY InitEstablishesChainInv
<1>2. ChainInv /\ [Next]_chainVars => ChainInv'
  BY NextPreservesChainInv
<1> QED
  BY <1>1, <1>2, PTL DEF ChainSpec

(* Whatever the commands and the faults, the client's and the server's      *)
(* state have their types and the chain lock has one holder.                *)
THEOREM ChainTypeInvariant == ChainSpec => []ChainTypeOK
<1>1. ChainInv => ChainTypeOK
  BY DEF ChainInv
<1> QED
  BY <1>1, ChainIsInvariant, PTL

(* The position a client saves is always a point of the server's chain.     *)
THEOREM SavedPositionIsOnChain == ChainSpec => []SavedIsOnChain
<1>1. ChainInv => SavedIsOnChain
  BY DEF ChainInv
<1> QED
  BY <1>1, ChainIsInvariant, PTL

(* No retry, whatever was lost before it, stores an event a second time.    *)
THEOREM RetriesStoreOnce == ChainSpec => []StoredOnce
<1>1. ChainInv => StoredOnce
  BY DEF ChainInv
<1> QED
  BY <1>1, ChainIsInvariant, PTL

(* The lock makes a saved position the latest one that was loaded, so no    *)
(* save undoes another.                                                     *)
THEOREM PositionIsMonotone == ChainSpec => PositionNeverRetreats
<1>1. ChainInv /\ [Next]_chainVars => [position'.next_seq >= position.next_seq]_chainVars
  <2> SUFFICES ASSUME ChainInv, Next PROVE position'.next_seq >= position.next_seq
    OBVIOUS
  <2>0. position.next_seq \in Nat
    BY DEF ChainInv, ChainTypeOK, Position
  <2>1. CASE UNCHANGED position
    BY <2>0, <2>1
  <2>2. ASSUME NEW c \in Command, NEW a \in answers, AnswerAccepted(c, a), Saves(c, Settled(c, a))
        PROVE  position'.next_seq >= position.next_seq
    <3>1. a.event.seq = position.next_seq /\ loaded[c] \in Position
      BY <2>2, OneIsHeard DEF AnswerAccepted, ChainInv, ChainTypeOK
    <3>2. position'.next_seq = a.event.seq + 1
      BY <2>2, <3>1 DEF Saves, Settled, Advanced, Position
    <3> QED
      BY <2>0, <3>1, <3>2
  <2>3. ASSUME NEW c \in Command, NEW a \in answers, AnswerAlreadyMember(c, a),
               Saves(c, AlreadyJoined(c, a))
        PROVE  position'.next_seq >= position.next_seq
    <3>1. loaded[c] = position
      BY <2>3, OneIsHeard DEF AnswerAlreadyMember
    <3>2. position'.next_seq = position.next_seq
      BY <2>3, <3>1 DEF Saves, AlreadyJoined, ChainInv, ChainTypeOK, Position
    <3> QED
      BY <2>0, <3>2
  <2> QED
    BY <2>1, <2>2, <2>3 DEF Next, Issue, Acquire, Writes, SubmitAuth, Submit, GivesUp, Send, Hears,
       AnswerAccepted, AnswerAlreadyMember, AnswerRefused, SaveFails, ServerTakes, ServerAccepts,
       ServerRefuses, RequestLost, StandingMoves, ConnectionDrops, Reconnects, Crash, diskVars
<1> QED
  BY <1>1, ChainIsInvariant, PTL DEF ChainSpec, PositionNeverRetreats

=============================================================================
