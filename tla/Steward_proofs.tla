---------------------------- MODULE Steward_proofs ----------------------------
(***************************************************************************)
(* What holds of the clients of one encrypted channel for every set of     *)
(* devices, every plan of their users and every bound.                     *)
(***************************************************************************)
EXTENDS Steward, SequenceTheorems, WellFoundedInduction, TLAPS

-----------------------------------------------------------------------------
(* Induction over the naturals, in first-order form. *)

Less == {p \in Nat \X Nat : p[1] < p[2]}

(* A nonempty set of naturals has a least element. *)
LEMMA LeastOf ==
    ASSUME NEW T \in SUBSET Nat, T # {}
    PROVE  \E n \in T : \A m \in T : n <= m
<1>1. IsWellFoundedOn(Less, Nat)
  BY NatLessThanWellFounded DEF OpToRel, Less
<1>2. PICK n \in T : \A m \in T : ~ (<<m, n>> \in Less)
  BY <1>1, WFMin
<1>3. ASSUME NEW m \in T PROVE ~ (m < n)
  BY <1>2 DEF Less
<1> QED
  BY <1>3

(* A set that holds zero and the successor of each of its elements is Nat. *)
LEMMA Induction ==
    ASSUME NEW S \in SUBSET Nat, 0 \in S, \A n \in S : n + 1 \in S
    PROVE  S = Nat
<1> SUFFICES ASSUME Nat \ S # {} PROVE FALSE
  OBVIOUS
<1>1. PICK n \in Nat \ S : \A m \in Nat \ S : n <= m
  BY LeastOf
<1>2. n # 0 /\ n - 1 \in Nat /\ (n - 1) + 1 = n
  BY <1>1
<1>3. n - 1 \in S
  BY <1>1, <1>2
<1> QED
  BY <1>1, <1>2, <1>3

-----------------------------------------------------------------------------
(* Types. *)

Commits == Seq(CommitRecord)
Pkg == Device \X Nat

CommitEvent == [kind : {"commit"}, gen : Generation, base : Commits, commit : CommitRecord]
WelcomeEvent == [kind : {"welcome"}, gen : Generation, for : Device, tree : Commits, pkg : Pkg]
ResetEvent == [kind : {"reset"}]
ControlEvent == CommitEvent \cup WelcomeEvent \cup ResetEvent

IdleOp == {Idle}
CommitOp == [at : {"commit"}, gen : Generation, base : Commits, commit : CommitRecord,
             then : {"done", "send", "welcome"}, dirty : BOOLEAN]
WelcomeOp == [at : {"welcome"}, gen : Generation, tree : Commits, commit : CommitRecord,
              dirty : BOOLEAN]
SendOp == [at : {"send", "resync"}, repaired : BOOLEAN, tries : Nat, barren : Nat,
           cursor : Nat, dirty : BOOLEAN]
CadenceOp == [at : {"cadence"}, dirty : BOOLEAN]
JoinOp == [at : {"confirm", "process"}, gen : Generation, events : Seq(ControlEvent),
           next : Nat, opened : BOOLEAN, dirty : BOOLEAN]
ResetOp == [at : {"reset"}, gen : Generation, commit : CommitRecord, left : SUBSET Device,
            dirty : BOOLEAN]
Command == IdleOp \cup CommitOp \cup WelcomeOp \cup SendOp \cup CadenceOp \cup JoinOp \cup ResetOp

MlsRecord == [gen : Generation, confirmed : BOOLEAN, cursor : Nat]

LogTypes ==
    /\ gen \in Generation /\ chained \in BOOLEAN
    /\ trees \in [Generation -> Commits]
    /\ control \in Seq(ControlEvent)

LeafTypes ==
    /\ confirmed \subseteq Device /\ pending \subseteq Device
    /\ confirmed \cap pending = {}

FlagTypes == gone \subseteq Device /\ opening \subseteq Device /\ stuck \subseteq Device

PackageTypes ==
    /\ packages \subseteq Pkg
    /\ published \in [Device -> Nat]
    /\ \A p \in packages : p[2] \in 1..published[p[1]]
    /\ secrets \in [Device -> SUBSET Pkg]
    /\ \A d \in Device : secrets[d] \subseteq {d} \X (1..published[d])

StoreTypes ==
    /\ groups \in [Device -> [Generation -> Commits \cup {NoGroup}]]
    /\ mls \in [Device -> MlsRecord]
    /\ op \in [Device -> Command]

Cursors ==
    \A d \in Device :
        /\ mls[d].gen <= gen
        /\ mls[d].cursor <= Len(control)
        /\ op[d].at \in {"send", "resync"} => op[d].cursor <= Len(control)
        /\ op[d].at \in {"confirm", "process"} => op[d].next <= Len(control)

Types == LogTypes /\ LeafTypes /\ FlagTypes /\ PackageTypes /\ StoreTypes /\ Cursors

-----------------------------------------------------------------------------
(* Sequences of commits. *)

LEMMA PrefixPointwise ==
    ASSUME NEW s \in Commits, NEW t \in Commits
    PROVE  IsPrefix(s, t) <=> Len(s) <= Len(t) /\ \A i \in 1..Len(s) : s[i] = t[i]
<1>1. ASSUME Len(s) <= Len(t)
      PROVE  SubSeq(t, 1, Len(s)) = s <=> \A i \in 1..Len(s) : s[i] = t[i]
  <2> DEFINE u == SubSeq(t, 1, Len(s))
  <2>1. Len(s) \in Nat /\ Len(t) \in Nat /\ \A i \in 1..Len(s) : t[i] \in CommitRecord
    BY <1>1, LenProperties, ElementOfSeq DEF Commits
  <2>2. u \in Commits /\ Len(u) = Len(s) /\ \A i \in 1..Len(s) : u[i] = t[i]
    BY <2>1, SubSeqProperties DEF Commits
  <2> HIDE DEF u
  <2>3. (\A i \in 1..Len(s) : s[i] = u[i]) => s = u
    BY <2>2, SeqEqual DEF Commits
  <2>4. u = s <=> \A i \in 1..Len(s) : s[i] = t[i]
    BY <2>2, <2>3
  <2> QED
    BY <2>4 DEF u
<1> QED
  BY <1>1 DEF IsPrefix

LEMMA AppendPointwise ==
    ASSUME NEW s \in Commits, NEW c \in CommitRecord
    PROVE  /\ Append(s, c) \in Commits
           /\ Len(s) \in Nat /\ Len(Append(s, c)) = Len(s) + 1
           /\ \A i \in 1..Len(s) : Append(s, c)[i] = s[i]
           /\ Append(s, c)[Len(s) + 1] = c
           /\ Append(s, c) # <<>>
BY AppendProperties, LenProperties DEF Commits

LEMMA UpTo ==
    ASSUME NEW s \in Commits, NEW n \in 0..Len(s)
    PROVE  /\ SubSeq(s, 1, n) \in Commits
           /\ Len(SubSeq(s, 1, n)) = n
           /\ \A i \in 1..n : SubSeq(s, 1, n)[i] = s[i]
<1>1. Len(s) \in Nat /\ n \in Nat /\ n <= Len(s) /\ \A i \in 1..n : s[i] \in CommitRecord
  BY LenProperties, ElementOfSeq DEF Commits
<1> QED
  BY <1>1, SubSeqProperties DEF Commits

LEMMA PrefixGrows ==
    ASSUME NEW s \in Commits, NEW t \in Commits, NEW c \in CommitRecord, IsPrefix(s, t)
    PROVE  IsPrefix(s, Append(t, c))
<1> DEFINE u == Append(t, c)
<1>1. Len(s) <= Len(t) /\ \A i \in 1..Len(s) : s[i] = t[i]
  BY PrefixPointwise
<1>2. u \in Commits /\ Len(u) = Len(t) + 1 /\ \A i \in 1..Len(t) : u[i] = t[i]
  BY AppendPointwise
<1>3. Len(s) \in Nat /\ Len(t) \in Nat
  BY LenProperties DEF Commits
<1> HIDE DEF u
<1>4. IsPrefix(s, u)
  BY <1>1, <1>2, <1>3, PrefixPointwise
<1> QED
  BY <1>4 DEF u

LEMMA PrefixShrinks ==
    ASSUME NEW s \in Commits, NEW t \in Commits, NEW n \in 0..Len(s), IsPrefix(s, t)
    PROVE  IsPrefix(SubSeq(s, 1, n), t)
<1> DEFINE u == SubSeq(s, 1, n)
<1>1. Len(s) <= Len(t) /\ \A i \in 1..Len(s) : s[i] = t[i]
  BY PrefixPointwise
<1>2. u \in Commits /\ Len(u) = n /\ \A i \in 1..n : u[i] = s[i]
  BY UpTo
<1>3. Len(s) \in Nat /\ Len(t) \in Nat /\ n \in Nat /\ n <= Len(s)
  BY LenProperties DEF Commits
<1> HIDE DEF u
<1>4. IsPrefix(u, t)
  BY <1>1, <1>2, <1>3, PrefixPointwise
<1> QED
  BY <1>4 DEF u

LEMMA PrefixOfItself ==
    ASSUME NEW s \in Commits
    PROVE  IsPrefix(s, s)
BY PrefixPointwise, LenProperties DEF Commits

(* A group that left the log's tree only by its device's own commits. *)
SelfForked(d, path, tree) ==
    \A i \in 1..Len(path) : path[i].by = d \/ IsPrefix(SubSeq(path, 1, i), tree)

LEMMA OnTheTree ==
    ASSUME NEW d, NEW s \in Commits, NEW t \in Commits, IsPrefix(s, t)
    PROVE  SelfForked(d, s, t)
<1>1. Len(s) \in Nat
  BY LenProperties DEF Commits
<1> QED
  BY <1>1, PrefixShrinks DEF SelfForked

LEMMA OwnCommitForks ==
    ASSUME NEW d, NEW s \in Commits, NEW t \in Commits, NEW c \in CommitRecord,
           SelfForked(d, s, t), c.by = d
    PROVE  SelfForked(d, Append(s, c), t)
<1> SUFFICES ASSUME NEW i \in 1..Len(Append(s, c))
             PROVE  \/ Append(s, c)[i].by = d
                    \/ IsPrefix(SubSeq(Append(s, c), 1, i), t)
  BY DEF SelfForked
<1>1. Len(s) \in Nat /\ i \in Nat
  BY AppendPointwise
<1>2. CASE i = Len(s) + 1
  BY <1>2, AppendPointwise
<1>3. CASE i \in 1..Len(s)
  <2>1. SubSeq(Append(s, c), 1, i) = SubSeq(s, 1, i)
    <3>1. /\ SubSeq(Append(s, c), 1, i) \in Commits
          /\ Len(SubSeq(Append(s, c), 1, i)) = i
          /\ \A j \in 1..i : SubSeq(Append(s, c), 1, i)[j] = s[j]
      <4> DEFINE u == Append(s, c)
      <4>1. u \in Commits /\ i \in 0..Len(u) /\ \A j \in 1..i : u[j] = s[j]
        BY <1>1, <1>3, AppendPointwise
      <4> HIDE DEF u
      <4>2. /\ SubSeq(u, 1, i) \in Commits
            /\ Len(SubSeq(u, 1, i)) = i
            /\ \A j \in 1..i : SubSeq(u, 1, i)[j] = u[j]
        BY <4>1, UpTo
      <4>3. \A j \in 1..i : SubSeq(u, 1, i)[j] = s[j]
        BY <4>1, <4>2
      <4> QED
        BY <4>2, <4>3 DEF u
    <3>2. /\ SubSeq(s, 1, i) \in Commits
          /\ Len(SubSeq(s, 1, i)) = i
          /\ \A j \in 1..i : SubSeq(s, 1, i)[j] = s[j]
      BY <1>1, <1>3, UpTo
    <3> QED
      BY <3>1, <3>2, SeqEqual DEF Commits
  <2>2. Append(s, c)[i] = s[i]
    BY <1>3, AppendPointwise
  <2> QED
    BY <1>3, <2>1, <2>2 DEF SelfForked
<1> QED
  BY <1>1, <1>2, <1>3, AppendPointwise

LEMMA ForksStay ==
    ASSUME NEW d, NEW s \in Commits, NEW t \in Commits, NEW c \in CommitRecord,
           SelfForked(d, s, t)
    PROVE  SelfForked(d, s, Append(t, c))
<1> SUFFICES ASSUME NEW i \in 1..Len(s), IsPrefix(SubSeq(s, 1, i), t)
             PROVE  IsPrefix(SubSeq(s, 1, i), Append(t, c))
  BY DEF SelfForked
<1>1. Len(s) \in Nat /\ i \in 0..Len(s)
  BY LenProperties DEF Commits
<1> QED
  BY <1>1, UpTo, PrefixGrows

-----------------------------------------------------------------------------
(* The log, the groups and the commands.  ForksAreSelfMade is one part of   *)
(* it: a group stays on the tree only as long as the control plane it       *)
(* follows, the groups the owner stages and the commands in flight are      *)
(* themselves on the tree.                                                  *)

(* A generation whose reset found nobody but the owner. *)
Lonely(k) == k > 0 /\ trees[k] # <<>> /\ trees[k][1].who = {}

Others == Device \ {Owner}

(* A recorded commit continues the tree at its base, but for the owner's in *)
(* a lonely generation, in which store and log start apart.                 *)
SoundCommit(e) ==
    /\ e.gen <= gen
    /\ \/ IsPrefix(Append(e.base, e.commit), trees[e.gen])
       \/ e.commit.by = Owner /\ Lonely(e.gen)

SoundWelcome(e) ==
    /\ e.for # Owner
    /\ e.tree # <<>>
    /\ \/ e.gen <= gen /\ IsPrefix(e.tree, trees[e.gen])
       \/ e.gen = gen + 1 /\ e.tree = groups[Owner][e.gen]

SoundControl ==
    \A i \in 1..Len(control) :
        /\ control[i].kind = "commit" => SoundCommit(control[i])
        /\ control[i].kind = "welcome" => SoundWelcome(control[i])

(* A device leaves the tree by its own commits only. *)
Forks ==
    \A d \in Device, g \in 0..gen :
        groups[d][g] # NoGroup => SelfForked(d, groups[d][g], trees[g])

OwnersGroups == \A g \in 0..gen : groups[Owner][g] # NoGroup

(* After a reset whoever has the new group started it where the log did. *)
SameStart ==
    \A g \in 1..gen :
        /\ trees[g] # <<>>
        /\ \A d \in Device :
              ~Lonely(g) /\ groups[d][g] # NoGroup =>
                  groups[d][g] # <<>> /\ groups[d][g][1] = trees[g][1]

(* A group ahead of the log is the one the owner stages for a reset. *)
Staged ==
    \A g \in Generation, d \in Device :
        g > gen /\ groups[d][g] # NoGroup =>
            /\ g = gen + 1
            /\ groups[d][g] = groups[Owner][g]
            /\ d # Owner => groups[d][g] # <<>>

(* Nobody else ever gets into a lonely generation, whose group the owner's  *)
(* store keeps at epoch 0 and the log at epoch 1.                           *)
LonelyForGood ==
    \A g \in 1..gen :
        Lonely(g) =>
            /\ Others \subseteq gone
            /\ \A d \in Others : groups[d][g] = NoGroup
            /\ \A i \in 1..Len(control) : control[i].kind = "welcome" => control[i].gen # g
            /\ \A d \in Device : op[d].at = "welcome" => op[d].gen # g

(* A tree without a chained authenticator is new. *)
Unchained == ~chained => IF gen = 0 THEN trees[gen] = <<>> ELSE Len(trees[gen]) = 1

Adds(c) == /\ c.what = "add"
           /\ \E x \in Others : c.who = {x}
           /\ \E p \in c.pkgs : c.pkgs = {p}

(* What the store owes each command in flight. *)
CommitReady(d, o) ==
    /\ o.gen <= gen
    /\ groups[d][o.gen] = Append(o.base, o.commit)
    /\ o.commit.by = d
    /\ o.then = "welcome" => d = Owner /\ Adds(o.commit)
    /\ o.then = "send" => groups[d][mls[d].gen] # NoGroup
    /\ o.commit.what = "boot" => o.then = "done"

WelcomeReady(o) ==
    /\ o.gen <= gen
    /\ o.tree # <<>> /\ IsPrefix(o.tree, trees[o.gen])
    /\ Adds(o.commit)

JoinReady(o) ==
    /\ o.gen <= gen + 1
    /\ o.at = "process" => o.gen <= gen
    /\ \A i \in 1..Len(o.events) : \E j \in 1..Len(control) : o.events[i] = control[j]

ResetReady(d, o) ==
    /\ d = Owner
    /\ o.gen = gen + 1
    /\ groups[Owner][o.gen] = IF o.commit.who = {} THEN <<>> ELSE <<o.commit>>
    /\ o.commit.by = Owner
    /\ o.left \subseteq o.commit.who /\ o.commit.who \subseteq Others

Ready(d) ==
    LET o == op[d] IN
    /\ o.at = "commit" => CommitReady(d, o)
    /\ o.at = "welcome" => WelcomeReady(o)
    /\ o.at \in {"send", "resync", "cadence"} => groups[d][mls[d].gen] # NoGroup
    /\ o.at \in {"confirm", "process"} => JoinReady(o)
    /\ o.at = "reset" => ResetReady(d, o)

CommandsReady == \A d \in Device : Ready(d)

Sound == /\ SoundControl /\ Unchained
         /\ Forks /\ OwnersGroups /\ SameStart /\ Staged /\ LonelyForGood
         /\ CommandsReady

StewardInv == Types /\ Sound

-----------------------------------------------------------------------------
(* Catching up on fetched control events leads only where their commits,   *)
(* each applied to its own base in its own group, lead.                    *)
LEMMA AfterStays ==
    ASSUME NEW g, NEW events, Len(events) \in Nat, NEW S, NEW path \in S,
           \A p \in S, i \in 1..Len(events) :
               events[i].kind = "commit" /\ Applies(g, p, events[i])
                   => Append(p, events[i].commit) \in S
    PROVE  After(g, path, events).path \in S /\ After(g, path, events).ok \in BOOLEAN
<1> DEFINE R == [path : S, ok : BOOLEAN]
           first == [path |-> path, ok |-> TRUE]
           Step(s, e) == IF ~s.ok \/ e.kind # "commit" \/ Behind(s.path, e) THEN s
                         ELSE IF Applies(g, s.path, e)
                              THEN [s EXCEPT !.path = Append(@, e.commit)]
                         ELSE [s EXCEPT !.ok = FALSE]
           Scans(f, n) == /\ f[0] = first
                          /\ \A i \in 1..n : f[i] = Step(f[i - 1], events[i])
           Is(f) == f = [i \in 0..Len(events) |->
                           IF i = 0 THEN first ELSE Step(f[i - 1], events[i])]
           T == {n \in Nat : n <= Len(events) => \E f \in [0..n -> R] : Scans(f, n)}
<1>1. first \in R
  OBVIOUS
<1>2. ASSUME NEW s \in R, NEW i \in 1..Len(events) PROVE Step(s, events[i]) \in R
  <2>1. s.path \in S
    OBVIOUS
  <2>2. events[i].kind = "commit" /\ Applies(g, s.path, events[i])
            => [s EXCEPT !.path = Append(@, events[i].commit)] \in R
    BY <2>1
  <2>3. [s EXCEPT !.ok = FALSE] \in R
    OBVIOUS
  <2> QED
    BY <2>2, <2>3
<1> HIDE DEF R, first, Step
<1>3. 0 \in T
  <2> DEFINE f == [i \in 0..0 |-> first]
  <2>1. f \in [0..0 -> R] /\ Scans(f, 0)
    BY <1>1
  <2> HIDE DEF f, Scans
  <2> QED
    BY <2>1
<1>4. ASSUME NEW n \in T PROVE n + 1 \in T
  <2> HIDE DEF Scans
  <2> SUFFICES ASSUME n + 1 <= Len(events)
               PROVE  \E f \in [0..(n + 1) -> R] : Scans(f, n + 1)
    OBVIOUS
  <2> USE DEF Scans
  <2>1. n \in Nat /\ n + 1 \in 1..Len(events)
    OBVIOUS
  <2>2. PICK f \in [0..n -> R] : Scans(f, n)
    BY <2>1
  <2> DEFINE h == [i \in 0..(n + 1) |-> IF i = n + 1 THEN Step(f[n], events[n + 1]) ELSE f[i]]
  <2>3. h \in [0..(n + 1) -> R]
    BY <1>2, <2>1
  <2>4. Scans(h, n + 1)
    BY <2>1, <2>2
  <2> QED
    BY <2>3, <2>4
<1>5. T = Nat
  <2>1. T \in SUBSET Nat
    OBVIOUS
  <2> HIDE DEF T
  <2> QED
    BY <1>3, <1>4, <2>1, Induction
<1>6. PICK f \in [0..Len(events) -> R] : Scans(f, Len(events))
  <2>1. Len(events) \in T
    BY <1>5
  <2> QED
    BY <2>1
<1>7. Is(f)
  BY <1>6
<1>8. PICK h : h = (CHOOSE ff : Is(ff)) /\ After(g, path, events) = h[Len(events)]
  BY DEF After, Step, first
<1>9. Is(h)
  BY <1>7, <1>8
<1>10. ASSUME NEW i \in 0..Len(events) PROVE h[i] \in R
  <2> DEFINE U == {n \in Nat : n <= Len(events) => h[n] \in R}
  <2>1. 0 \in U
    BY <1>1, <1>9
  <2>2. ASSUME NEW n \in U PROVE n + 1 \in U
    <3> SUFFICES ASSUME n + 1 <= Len(events) PROVE h[n + 1] \in R
      OBVIOUS
    <3>1. n \in Nat /\ n + 1 \in 1..Len(events) /\ h[n] \in R
      OBVIOUS
    <3>2. h[n + 1] = Step(h[n], events[n + 1])
      BY <1>9, <3>1
    <3> QED
      BY <1>2, <3>1, <3>2
  <2>3. U = Nat
    <3>1. U \in SUBSET Nat
      OBVIOUS
    <3> HIDE DEF U
    <3> QED
      BY <2>1, <2>2, <3>1, Induction
  <2> QED
    BY <2>3
<1>11. After(g, path, events) \in R
  BY <1>8, <1>10
<1> QED
  BY <1>11 DEF R

-----------------------------------------------------------------------------
(* Types. *)

(* A command's stage tells what it carries. *)
LEMMA CommandByStage ==
    ASSUME NEW o \in Command
    PROVE  /\ o.at = "idle" => o = Idle
           /\ o.at = "commit" => o \in CommitOp
           /\ o.at = "welcome" => o \in WelcomeOp
           /\ o.at \in {"send", "resync"} => o \in SendOp
           /\ o.at = "cadence" => o \in CadenceOp
           /\ o.at \in {"confirm", "process"} => o \in JoinOp
           /\ o.at = "reset" => o \in ResetOp
           /\ o.dirty \in BOOLEAN
<1>1. CASE o = Idle
  BY <1>1 DEF Idle
<1>2. CASE o \in CommitOp
  BY <1>2 DEF CommitOp
<1>3. CASE o \in WelcomeOp
  BY <1>3 DEF WelcomeOp
<1>4. CASE o \in SendOp
  BY <1>4 DEF SendOp
<1>5. CASE o \in CadenceOp
  BY <1>5 DEF CadenceOp
<1>6. CASE o \in JoinOp
  BY <1>6 DEF JoinOp
<1>7. CASE o \in ResetOp
  BY <1>7 DEF ResetOp
<1> QED
  BY <1>1, <1>2, <1>3, <1>4, <1>5, <1>6, <1>7 DEF Command, IdleOp

LEMMA EventByKind ==
    ASSUME NEW e \in ControlEvent
    PROVE  /\ e.kind = "commit" => e \in CommitEvent
           /\ e.kind = "welcome" => e \in WelcomeEvent
BY DEF ControlEvent, CommitEvent, WelcomeEvent, ResetEvent

LEMMA CommitType ==
    ASSUME NEW d \in Device, NEW what \in {"boot", "add", "rekey", "remove", "reset"},
           NEW who \in SUBSET Device, NEW pkgs \in SUBSET Pkg
    PROVE  Commit(d, what, who, pkgs) \in CommitRecord
BY DEF Commit, CommitRecord, Pkg

LEMMA IdleType == Idle \in Command /\ Idle.at = "idle"
BY DEF Idle, Command, IdleOp

(* A step of one device's command keeps the types when what it writes has  *)
(* them.                                                                   *)
LEMMA TypesOfAStep ==
    ASSUME Types, NEW d \in Device,
           LogTypes', LeafTypes', FlagTypes', PackageTypes', gen <= gen', Len(control) <= Len(control'),
           groups' \in [Device -> [Generation -> Commits \cup {NoGroup}]],
           NEW o \in Command, op' = [op EXCEPT ![d] = o],
           o.at \in {"send", "resync"} => o.cursor <= Len(control'),
           o.at \in {"confirm", "process"} => o.next <= Len(control'),
           NEW m \in MlsRecord, mls' = [mls EXCEPT ![d] = m],
           m.gen <= gen', m.cursor <= Len(control')
    PROVE  Types'
<1>1. StoreTypes'
  BY DEF Types, StoreTypes, MlsRecord
<1>2. Cursors'
  <2> SUFFICES ASSUME NEW e \in Device
               PROVE  /\ mls'[e].gen <= gen'
                      /\ mls'[e].cursor <= Len(control')
                      /\ op'[e].at \in {"send", "resync"} => op'[e].cursor <= Len(control')
                      /\ op'[e].at \in {"confirm", "process"} => op'[e].next <= Len(control')
    BY DEF Cursors
  <2>1. CASE e = d
    BY <2>1 DEF Types, StoreTypes
  <2>2. CASE e # d
    <3>1. op'[e] = op[e] /\ mls'[e] = mls[e]
      BY <2>2 DEF Types, StoreTypes
    <3>2. /\ gen \in Nat /\ gen' \in Nat /\ mls[e].gen \in Nat /\ mls[e].cursor \in Nat
          /\ Len(control) \in Nat /\ Len(control') \in Nat
      <4>1. \A n \in Generation : n \in Nat
        BY StewardConstants DEF Generation
      <4>2. gen \in Generation /\ gen' \in Generation
        BY DEF Types, LogTypes
      <4>3. mls[e].gen \in Generation /\ mls[e].cursor \in Nat
        BY DEF Types, StoreTypes, MlsRecord
      <4>4. Len(control) \in Nat /\ Len(control') \in Nat
        BY LenProperties DEF Types, LogTypes
      <4> QED
        BY <4>1, <4>2, <4>3, <4>4
    <3>3. /\ op[e].at \in {"send", "resync"} => op[e].cursor \in Nat
          /\ op[e].at \in {"confirm", "process"} => op[e].next \in Nat
      <4>1. op[e] \in Command
        BY DEF Types, StoreTypes
      <4> QED
        BY <4>1, CommandByStage DEF SendOp, JoinOp
    <3>4. /\ mls[e].gen <= gen /\ mls[e].cursor <= Len(control)
          /\ op[e].at \in {"send", "resync"} => op[e].cursor <= Len(control)
          /\ op[e].at \in {"confirm", "process"} => op[e].next <= Len(control)
      BY DEF Types, Cursors
    <3> QED
      BY <3>1, <3>2, <3>3, <3>4
  <2> QED
    BY <2>1, <2>2
<1> QED
  BY <1>1, <1>2 DEF Types

-----------------------------------------------------------------------------
(* What a step does to the log, the groups and the commands, and that each *)
(* of these effects keeps them sound.                                      *)

LEMMA Basics ==
    ASSUME Types
    PROVE  /\ gen \in Generation /\ gen \in Nat
           /\ \A g \in Generation : g \in Nat /\ trees[g] \in Commits
           /\ \A g \in 0..gen : g \in Generation
           /\ Len(control) \in Nat
           /\ \A i \in 1..Len(control) : control[i] \in ControlEvent
           /\ \A d \in Device :
                 /\ op[d] \in Command
                 /\ mls[d] \in MlsRecord /\ mls[d].gen \in Generation /\ mls[d].gen \in 0..gen
                 /\ \A g \in Generation : groups[d][g] \in Commits \cup {NoGroup}
<1>1. MaxGeneration \in Nat
  BY StewardConstants
<1>2. \A g \in Generation : g \in Nat /\ trees[g] \in Commits
  BY <1>1 DEF Types, LogTypes, Generation
<1>3. gen \in Generation /\ \A g \in 0..gen : g \in Generation
  BY <1>1 DEF Types, LogTypes, Generation
<1>4. Len(control) \in Nat /\ \A i \in 1..Len(control) : control[i] \in ControlEvent
  BY LenProperties, ElementOfSeq DEF Types, LogTypes
<1>5. ASSUME NEW d \in Device
      PROVE  /\ op[d] \in Command
             /\ mls[d] \in MlsRecord /\ mls[d].gen \in Generation /\ mls[d].gen \in 0..gen
             /\ \A g \in Generation : groups[d][g] \in Commits \cup {NoGroup}
  <2>1. op[d] \in Command /\ mls[d] \in MlsRecord
    BY DEF Types, StoreTypes
  <2>2. mls[d].gen \in Generation /\ mls[d].gen <= gen
    BY <2>1 DEF MlsRecord, Types, Cursors
  <2>3. \A g \in Generation : groups[d][g] \in Commits \cup {NoGroup}
    BY DEF Types, StoreTypes
  <2> QED
    BY <1>2, <1>3, <2>1, <2>2, <2>3
<1> QED
  BY <1>2, <1>3, <1>4, <1>5

LEMMA BasicsNext ==
    ASSUME Types'
    PROVE  /\ gen' \in Nat /\ Len(control') \in Nat
           /\ \A g \in Generation : trees'[g] \in Commits
           /\ \A g \in 0..gen' : g \in Generation
           /\ \A i \in 1..Len(control') : control'[i] \in ControlEvent
<1>1. MaxGeneration \in Nat
  BY StewardConstants
<1>2. gen' \in Nat /\ \A g \in 0..gen' : g \in Generation
  BY <1>1 DEF Types, LogTypes, Generation
<1>3. \A g \in Generation : trees'[g] \in Commits
  BY DEF Types, LogTypes
<1>4. Len(control') \in Nat /\ \A i \in 1..Len(control') : control'[i] \in ControlEvent
  BY LenProperties, ElementOfSeq DEF Types, LogTypes
<1> QED
  BY <1>2, <1>3, <1>4

LEMMA PrefixTransitive ==
    ASSUME NEW s \in Commits, NEW t \in Commits, NEW u \in Commits,
           IsPrefix(s, t), IsPrefix(t, u)
    PROVE  IsPrefix(s, u)
<1>1. Len(s) \in Nat /\ Len(t) \in Nat /\ Len(u) \in Nat
  BY LenProperties DEF Commits
<1> QED
  BY <1>1, PrefixPointwise

Elsewhere(d) ==
    \A e \in Device \ {d} : op'[e] = op[e] /\ mls'[e] = mls[e] /\ groups'[e] = groups[e]

SameLog == UNCHANGED <<gen, trees, chained, control>>

(* Nothing of the log is forgotten. *)
LogGrows ==
    /\ gen <= gen' /\ Len(control) <= Len(control')
    /\ \A i \in 1..Len(control) : control'[i] = control[i]
    /\ \A g \in 0..gen : IsPrefix(trees[g], trees'[g])

LEMMA SameLogGrows ==
    ASSUME Types, SameLog
    PROVE  LogGrows
<1>1. \A g \in 0..gen : IsPrefix(trees[g], trees[g])
  BY Basics, PrefixOfItself
<1> QED
  BY <1>1, Basics DEF LogGrows, SameLog

LEMMA ReadyElsewhere ==
    ASSUME Types, Types', CommandsReady, LogGrows, NEW e \in Device, e = Owner => gen' = gen,
           op'[e] = op[e], mls'[e] = mls[e], groups'[e] = groups[e]
    PROVE  Ready(e)'
<1>1. /\ gen \in Nat /\ gen' \in Nat /\ gen <= gen'
      /\ Len(control) \in Nat /\ Len(control') \in Nat /\ Len(control) <= Len(control')
      /\ \A j \in 1..Len(control) : control'[j] = control[j]
      /\ op[e] \in Command
  <2>1. Len(control') \in Nat /\ gen' \in Nat
    BY BasicsNext
  <2> QED
    BY <2>1, Basics DEF LogGrows
<1>2. ASSUME op[e].at = "commit" PROVE CommitReady(e, op[e])'
  <2>1. op[e].gen \in Nat
    BY <1>1, <1>2, CommandByStage, Basics DEF CommitOp
  <2>2. CommitReady(e, op[e])
    BY <1>2 DEF CommandsReady, Ready
  <2> QED
    BY <1>1, <2>1, <2>2 DEF CommitReady
<1>3. ASSUME op[e].at = "welcome" PROVE WelcomeReady(op[e])'
  <2>1. op[e].gen \in Generation /\ op[e].gen \in Nat /\ op[e].tree \in Commits
    BY <1>1, <1>3, CommandByStage, Basics DEF WelcomeOp
  <2>2. WelcomeReady(op[e])
    BY <1>3 DEF CommandsReady, Ready
  <2>3. IsPrefix(op[e].tree, trees[op[e].gen]) /\ op[e].gen \in 0..gen
    BY <1>1, <2>1, <2>2 DEF WelcomeReady
  <2>4. trees[op[e].gen] \in Commits /\ trees'[op[e].gen] \in Commits
    <3>1. \A g \in Generation : trees'[g] \in Commits
      BY BasicsNext
    <3> QED
      BY <2>1, <3>1, Basics
  <2>5. IsPrefix(op[e].tree, trees'[op[e].gen])
    BY <2>1, <2>3, <2>4, PrefixTransitive DEF LogGrows
  <2> QED
    BY <1>1, <2>1, <2>2, <2>5 DEF WelcomeReady, IsPrefix
<1>4. ASSUME op[e].at \in {"confirm", "process"} PROVE JoinReady(op[e])'
  <2>1. op[e].gen \in Nat
    BY <1>1, <1>4, CommandByStage, Basics DEF JoinOp
  <2>2. JoinReady(op[e])
    BY <1>4 DEF CommandsReady, Ready
  <2>3. ASSUME NEW i \in 1..Len(op[e].events)
        PROVE  \E j \in 1..Len(control') : op[e].events[i] = control'[j]
    <3>1. PICK j \in 1..Len(control) : op[e].events[i] = control[j]
      BY <2>2 DEF JoinReady
    <3>2. j \in 1..Len(control') /\ control'[j] = control[j]
      BY <1>1
    <3> QED
      BY <3>1, <3>2
  <2>4. op[e].gen <= gen' + 1 /\ (op[e].at = "process" => op[e].gen <= gen')
    BY <1>1, <2>1, <2>2 DEF JoinReady
  <2> QED
    BY <2>3, <2>4 DEF JoinReady
<1>5. ASSUME op[e].at = "reset" PROVE ResetReady(e, op[e])'
  <2>1. ResetReady(e, op[e])
    BY <1>5 DEF CommandsReady, Ready
  <2>2. e = Owner /\ gen' = gen
    BY <2>1 DEF ResetReady
  <2> QED
    BY <2>1, <2>2 DEF ResetReady, Others
<1>6. ASSUME op[e].at \in {"send", "resync", "cadence"}
      PROVE  groups[e][mls[e].gen] # NoGroup
  BY <1>6 DEF CommandsReady, Ready
<1> QED
  BY <1>2, <1>3, <1>4, <1>5, <1>6 DEF Ready

(* With the log at rest, what it says stays sound while the owner's staged *)
(* group stays.                                                            *)
LEMMA LogAtRest ==
    ASSUME Types, Types', SoundControl, Unchained, SameLog,
           gen + 1 \in Generation => groups'[Owner][gen + 1] = groups[Owner][gen + 1]
    PROVE  SoundControl' /\ Unchained' /\ \A g : Lonely(g)' = Lonely(g)
<1>1. \A g : Lonely(g)' = Lonely(g)
  BY DEF Lonely, SameLog
<1>2. Unchained'
  BY DEF Unchained, SameLog
<1>3. ASSUME NEW i \in 1..Len(control), control[i].kind = "commit"
      PROVE  SoundCommit(control[i])'
  <2>1. SoundCommit(control[i])
    BY <1>3 DEF SoundControl
  <2> QED
    BY <1>1, <2>1 DEF SoundCommit, SameLog
<1>4. ASSUME NEW i \in 1..Len(control), control[i].kind = "welcome"
      PROVE  SoundWelcome(control[i])'
  <2>1. SoundWelcome(control[i])
    BY <1>4 DEF SoundControl
  <2>2. control[i].gen \in Generation
    BY <1>4, Basics, EventByKind DEF WelcomeEvent
  <2> QED
    BY <2>1, <2>2 DEF SoundWelcome, SameLog, IsPrefix
<1> QED
  BY <1>1, <1>2, <1>3, <1>4 DEF SoundControl, SameLog, SoundCommit, SoundWelcome

LEMMA CommandsStayReady ==
    ASSUME Types, Types', CommandsReady, LogGrows, NEW d \in Device, Elsewhere(d), Ready(d)',
           d = Owner \/ gen' = gen
    PROVE  CommandsReady'
<1> SUFFICES ASSUME NEW e \in Device PROVE Ready(e)'
  BY DEF CommandsReady
<1>1. CASE e = d
  BY <1>1
<1>2. CASE e # d
  BY <1>2, ReadyElsewhere DEF Elsewhere
<1> QED
  BY <1>1, <1>2

(* No new command is about to write a Welcome. *)
NoNewWelcome(d) == op'[d].at = "welcome" => op'[d] = op[d]

(* A step that touches neither the log nor a group. *)
LEMMA QuietStep ==
    ASSUME StewardInv, Types', NEW d \in Device, SameLog, UNCHANGED groups,
           gone \subseteq gone', Elsewhere(d), Ready(d)', NoNewWelcome(d)
    PROVE  Sound'
<1>1. SoundControl' /\ Unchained' /\ \A g : Lonely(g)' = Lonely(g)
  BY LogAtRest DEF StewardInv, Sound
<1>2. Forks' /\ OwnersGroups' /\ Staged'
  BY DEF StewardInv, Sound, Forks, OwnersGroups, Staged, SameLog
<1>3. SameStart'
  BY <1>1 DEF StewardInv, Sound, SameStart, SameLog
<1>4. LonelyForGood'
  BY <1>1 DEF StewardInv, Sound, LonelyForGood, SameLog, Elsewhere, NoNewWelcome
<1>5. CommandsReady'
  BY CommandsStayReady, SameLogGrows DEF StewardInv, Sound, SameLog
<1> QED
  BY <1>1, <1>2, <1>3, <1>4, <1>5 DEF Sound

(* A step that rewrites one device's group in a generation of the log.     *)
LEMMA GroupStep ==
    ASSUME StewardInv, Types', NEW d \in Device, SameLog, UNCHANGED gone, Elsewhere(d),
           Ready(d)', NoNewWelcome(d),
           NEW g \in 0..gen, NEW path \in Commits,
           groups' = [groups EXCEPT ![d][g] = path],
           SelfForked(d, path, trees[g]),
           g > 0 /\ ~Lonely(g) => path # <<>> /\ path[1] = trees[g][1],
           g > 0 /\ Lonely(g) => d = Owner
    PROVE  Sound'
<1>0. /\ g \in Generation /\ g \in Nat /\ gen \in Nat /\ g <= gen
      /\ groups'[d][g] = path /\ path # NoGroup
      /\ \A e \in Device, k \in Generation : e # d \/ k # g => groups'[e][k] = groups[e][k]
  BY Basics, NoGroupIsNoTree DEF StewardInv, Types, StoreTypes, Commits
<1>1. SoundControl' /\ Unchained' /\ \A k : Lonely(k)' = Lonely(k)
  <2>1. gen + 1 \in Generation => groups'[Owner][gen + 1] = groups[Owner][gen + 1]
    BY <1>0, StewardConstants
  <2> QED
    BY <2>1, LogAtRest DEF StewardInv, Sound
<1>2. Forks'
  <2> SUFFICES ASSUME NEW e \in Device, NEW k \in 0..gen, groups'[e][k] # NoGroup
               PROVE  SelfForked(e, groups'[e][k], trees[k])
    BY DEF Forks, SameLog, SelfForked
  <2>1. CASE e = d /\ k = g
    BY <1>0, <2>1
  <2>2. CASE ~(e = d /\ k = g)
    BY <1>0, <2>2, Basics DEF StewardInv, Sound, Forks
  <2> QED
    BY <2>1, <2>2
<1>3. OwnersGroups'
  BY <1>0, Basics, StewardConstants DEF StewardInv, Sound, OwnersGroups, SameLog
<1>4. SameStart'
  <2> SUFFICES ASSUME NEW k \in 1..gen, NEW e \in Device
               PROVE  /\ trees[k] # <<>>
                      /\ ~Lonely(k) /\ groups'[e][k] # NoGroup =>
                             groups'[e][k] # <<>> /\ groups'[e][k][1] = trees[k][1]
    BY <1>1 DEF SameStart, SameLog
  <2>1. k \in Generation
    BY Basics DEF StewardInv
  <2>2. /\ trees[k] # <<>>
        /\ ~Lonely(k) /\ groups[e][k] # NoGroup =>
               groups[e][k] # <<>> /\ groups[e][k][1] = trees[k][1]
    BY DEF StewardInv, Sound, SameStart
  <2>3. CASE e = d /\ k = g
    BY <1>0, <2>2, <2>3
  <2>4. CASE ~(e = d /\ k = g)
    BY <1>0, <2>1, <2>2, <2>4
  <2> QED
    BY <2>3, <2>4
<1>5. Staged'
  <2> SUFFICES ASSUME NEW k \in Generation, NEW e \in Device, k > gen, groups'[e][k] # NoGroup
               PROVE  /\ k = gen + 1
                      /\ groups'[e][k] = groups'[Owner][k]
                      /\ e # Owner => groups'[e][k] # <<>>
    BY DEF Staged, SameLog
  <2>1. k # g
    BY <1>0
  <2>2. groups'[e][k] = groups[e][k] /\ groups'[Owner][k] = groups[Owner][k]
    BY <1>0, <2>1, StewardConstants
  <2> QED
    BY <2>2 DEF StewardInv, Sound, Staged
<1>6. LonelyForGood'
  <2> SUFFICES ASSUME NEW k \in 1..gen, Lonely(k)
               PROVE  /\ Others \subseteq gone
                      /\ \A e \in Others : groups'[e][k] = NoGroup
                      /\ \A i \in 1..Len(control) :
                            control[i].kind = "welcome" => control[i].gen # k
                      /\ \A e \in Device : op'[e].at = "welcome" => op'[e].gen # k
    BY <1>1 DEF LonelyForGood, SameLog, Others
  <2>1. /\ Others \subseteq gone
        /\ \A e \in Others : groups[e][k] = NoGroup
        /\ \A i \in 1..Len(control) : control[i].kind = "welcome" => control[i].gen # k
        /\ \A e \in Device : op[e].at = "welcome" => op[e].gen # k
    BY DEF StewardInv, Sound, LonelyForGood
  <2>2. k \in Generation
    BY Basics DEF StewardInv
  <2>3. \A e \in Others : groups'[e][k] = NoGroup
    BY <1>0, <2>1, <2>2 DEF Others
  <2>4. \A e \in Device : op'[e].at = "welcome" => op'[e].gen # k
    BY <2>1 DEF Elsewhere, NoNewWelcome
  <2> QED
    BY <2>1, <2>3, <2>4
<1>7. CommandsReady'
  BY CommandsStayReady, SameLogGrows DEF StewardInv, Sound, SameLog
<1> QED
  BY <1>1, <1>2, <1>3, <1>4, <1>5, <1>6, <1>7 DEF Sound

(* A member joins the group the owner has staged for the next generation.  *)
LEMMA JoinAheadStep ==
    ASSUME StewardInv, Types', NEW d \in Others, SameLog, UNCHANGED gone, Elsewhere(d),
           Ready(d)', NoNewWelcome(d), gen + 1 \in Generation,
           groups[Owner][gen + 1] # NoGroup, groups[Owner][gen + 1] # <<>>,
           groups' = [groups EXCEPT ![d][gen + 1] = groups[Owner][gen + 1]]
    PROVE  Sound'
<1>0. /\ gen \in Nat /\ d \in Device /\ d # Owner /\ Owner \in Device
      /\ groups'[d][gen + 1] = groups[Owner][gen + 1]
      /\ \A e \in Device, k \in Generation :
            e # d \/ k # gen + 1 => groups'[e][k] = groups[e][k]
      /\ \A k \in 0..gen : k \in Generation /\ k # gen + 1
  BY Basics, StewardConstants DEF StewardInv, Types, StoreTypes, Others
<1>1. SoundControl' /\ Unchained' /\ \A k : Lonely(k)' = Lonely(k)
  BY <1>0, LogAtRest DEF StewardInv, Sound
<1>2. \A e \in Device, k \in 0..gen : groups'[e][k] = groups[e][k]
  BY <1>0
<1>3. Forks' /\ OwnersGroups'
  BY <1>0, <1>2 DEF StewardInv, Sound, Forks, OwnersGroups, SameLog
<1>4. SameStart'
  <2> SUFFICES ASSUME NEW k \in 1..gen, NEW e \in Device
               PROVE  /\ trees[k] # <<>>
                      /\ ~Lonely(k) /\ groups'[e][k] # NoGroup =>
                             groups'[e][k] # <<>> /\ groups'[e][k][1] = trees[k][1]
    BY <1>0, <1>1 DEF SameStart, SameLog
  <2>1. groups'[e][k] = groups[e][k]
    BY <1>0, <1>2
  <2> QED
    BY <2>1 DEF StewardInv, Sound, SameStart
<1>5. Staged'
  <2> SUFFICES ASSUME NEW k \in Generation, NEW e \in Device, k > gen, groups'[e][k] # NoGroup
               PROVE  /\ k = gen + 1
                      /\ groups'[e][k] = groups'[Owner][k]
                      /\ e # Owner => groups'[e][k] # <<>>
    BY DEF Staged, SameLog
  <2>1. groups'[Owner][k] = groups[Owner][k]
    BY <1>0
  <2>2. CASE e = d /\ k = gen + 1
    BY <1>0, <2>1, <2>2
  <2>3. CASE ~(e = d /\ k = gen + 1)
    BY <1>0, <2>1, <2>3 DEF StewardInv, Sound, Staged
  <2> QED
    BY <2>2, <2>3
<1>6. LonelyForGood'
  <2> SUFFICES ASSUME NEW k \in 1..gen, Lonely(k)
               PROVE  /\ Others \subseteq gone
                      /\ \A e \in Others : groups'[e][k] = NoGroup
                      /\ \A i \in 1..Len(control) :
                            control[i].kind = "welcome" => control[i].gen # k
                      /\ \A e \in Device : op'[e].at = "welcome" => op'[e].gen # k
    BY <1>1 DEF LonelyForGood, SameLog, Others
  <2>1. /\ Others \subseteq gone
        /\ \A e \in Others : groups[e][k] = NoGroup
        /\ \A i \in 1..Len(control) : control[i].kind = "welcome" => control[i].gen # k
        /\ \A e \in Device : op[e].at = "welcome" => op[e].gen # k
    BY DEF StewardInv, Sound, LonelyForGood
  <2>2. \A e \in Others : groups'[e][k] = NoGroup
    BY <1>0, <1>2, <2>1 DEF Others
  <2>3. \A e \in Device : op'[e].at = "welcome" => op'[e].gen # k
    BY <2>1 DEF Elsewhere, NoNewWelcome
  <2> QED
    BY <2>1, <2>2, <2>3
<1>7. CommandsReady'
  BY <1>0, CommandsStayReady, SameLogGrows DEF StewardInv, Sound, SameLog
<1> QED
  BY <1>1, <1>3, <1>4, <1>5, <1>6, <1>7 DEF Sound

(* The owner stages a group for the next generation. *)
LEMMA StageStep ==
    ASSUME StewardInv, Types', SameLog, UNCHANGED gone, Elsewhere(Owner),
           Ready(Owner)', NoNewWelcome(Owner), gen + 1 \in Generation,
           groups[Owner][gen + 1] = NoGroup,
           NEW path, groups' = [groups EXCEPT ![Owner][gen + 1] = path]
    PROVE  Sound'
<1>0. /\ gen \in Nat /\ Owner \in Device
      /\ groups'[Owner][gen + 1] = path
      /\ \A e \in Device, k \in Generation :
            e # Owner \/ k # gen + 1 => groups'[e][k] = groups[e][k]
      /\ \A k \in 0..gen : k \in Generation /\ k # gen + 1
  BY Basics, StewardConstants DEF StewardInv, Types, StoreTypes
<1>1. \A k : Lonely(k)' = Lonely(k)
  BY DEF Lonely, SameLog
<1>2. \A e \in Device, k \in 0..gen : groups'[e][k] = groups[e][k]
  BY <1>0
<1>3. SoundControl'
  <2>1. ASSUME NEW i \in 1..Len(control), control[i].kind = "commit"
        PROVE  SoundCommit(control[i])'
    <3>1. SoundCommit(control[i])
      BY <2>1 DEF StewardInv, Sound, SoundControl
    <3> QED
      BY <1>1, <3>1 DEF SoundCommit, SameLog
  <2>2. ASSUME NEW i \in 1..Len(control), control[i].kind = "welcome"
        PROVE  SoundWelcome(control[i])'
    <3>1. SoundWelcome(control[i])
      BY <2>2 DEF StewardInv, Sound, SoundControl
    <3>2. control[i].tree # NoGroup
      BY <2>2, Basics, EventByKind, NoGroupIsNoTree DEF StewardInv, WelcomeEvent, Commits
    <3> QED
      BY <3>1, <3>2 DEF SoundWelcome, SameLog, IsPrefix
  <2> QED
    BY <2>1, <2>2 DEF SoundControl, SameLog, SoundCommit, SoundWelcome
<1>4. Unchained'
  BY DEF StewardInv, Sound, Unchained, SameLog
<1>5. Forks' /\ OwnersGroups'
  BY <1>0, <1>2 DEF StewardInv, Sound, Forks, OwnersGroups, SameLog
<1>6. SameStart'
  <2> SUFFICES ASSUME NEW k \in 1..gen, NEW e \in Device
               PROVE  /\ trees[k] # <<>>
                      /\ ~Lonely(k) /\ groups'[e][k] # NoGroup =>
                             groups'[e][k] # <<>> /\ groups'[e][k][1] = trees[k][1]
    BY <1>0, <1>1 DEF SameStart, SameLog
  <2>1. groups'[e][k] = groups[e][k]
    BY <1>0, <1>2
  <2> QED
    BY <2>1 DEF StewardInv, Sound, SameStart
<1>7. Staged'
  <2> SUFFICES ASSUME NEW k \in Generation, NEW e \in Device, k > gen, groups'[e][k] # NoGroup
               PROVE  /\ k = gen + 1
                      /\ groups'[e][k] = groups'[Owner][k]
                      /\ e # Owner => groups'[e][k] # <<>>
    BY DEF Staged, SameLog
  <2>1. CASE e = Owner
    BY <1>0, <2>1 DEF StewardInv, Sound, Staged
  <2>2. CASE e # Owner
    BY <1>0, <2>2 DEF StewardInv, Sound, Staged
  <2> QED
    BY <2>1, <2>2
<1>8. LonelyForGood'
  <2> SUFFICES ASSUME NEW k \in 1..gen, Lonely(k)
               PROVE  /\ Others \subseteq gone
                      /\ \A e \in Others : groups'[e][k] = NoGroup
                      /\ \A i \in 1..Len(control) :
                            control[i].kind = "welcome" => control[i].gen # k
                      /\ \A e \in Device : op'[e].at = "welcome" => op'[e].gen # k
    BY <1>1 DEF LonelyForGood, SameLog, Others
  <2>1. /\ Others \subseteq gone
        /\ \A e \in Others : groups[e][k] = NoGroup
        /\ \A i \in 1..Len(control) : control[i].kind = "welcome" => control[i].gen # k
        /\ \A e \in Device : op[e].at = "welcome" => op[e].gen # k
    BY DEF StewardInv, Sound, LonelyForGood
  <2>2. \A e \in Others : groups'[e][k] = NoGroup
    BY <1>0, <1>2, <2>1 DEF Others
  <2>3. \A e \in Device : op'[e].at = "welcome" => op'[e].gen # k
    BY <2>1 DEF Elsewhere, NoNewWelcome
  <2> QED
    BY <2>1, <2>2, <2>3
<1>9. CommandsReady'
  BY <1>0, CommandsStayReady, SameLogGrows DEF StewardInv, Sound, SameLog
<1> QED
  BY <1>1, <1>3, <1>4, <1>5, <1>6, <1>7, <1>8, <1>9 DEF Sound

LEMMA LonelyStays ==
    ASSUME Types, Types', LogGrows, NEW g \in 0..gen, trees[g] # <<>>
    PROVE  trees'[g] # <<>> /\ trees'[g][1] = trees[g][1] /\ (Lonely(g)' <=> Lonely(g))
<1>1. trees[g] \in Commits /\ trees'[g] \in Commits /\ g \in Nat
  BY Basics, BasicsNext
<1>2. Len(trees[g]) \in Nat \ {0} /\ Len(trees'[g]) \in Nat
  BY <1>1, EmptySeq, LenProperties DEF Commits
<1>3. Len(trees[g]) <= Len(trees'[g]) /\ \A i \in 1..Len(trees[g]) : trees[g][i] = trees'[g][i]
  BY <1>1, PrefixPointwise DEF LogGrows
<1>4. trees'[g] # <<>>
  <2>1. Len(trees'[g]) # 0
    BY <1>2, <1>3
  <2> QED
    BY <2>1, EmptySeq
<1>5. trees'[g][1] = trees[g][1]
  BY <1>2, <1>3
<1> QED
  BY <1>4, <1>5 DEF Lonely

(* What the log said of a generation it still says when it has grown. *)
LEMMA CommitsStaySound ==
    ASSUME Types, Types', LogGrows, NEW e \in CommitEvent, SoundCommit(e)
    PROVE  SoundCommit(e)'
<1>1. e.gen \in Generation /\ e.gen \in 0..gen /\ e.gen \in Nat /\ gen \in Nat /\ gen' \in Nat
  BY Basics, BasicsNext DEF CommitEvent, SoundCommit
<1>2. e.gen <= gen'
  BY <1>1 DEF LogGrows
<1>3. ASSUME IsPrefix(Append(e.base, e.commit), trees[e.gen])
      PROVE  IsPrefix(Append(e.base, e.commit), trees'[e.gen])
  <2>1. Append(e.base, e.commit) \in Commits
    BY AppendPointwise DEF CommitEvent
  <2>2. trees[e.gen] \in Commits /\ trees'[e.gen] \in Commits
    BY <1>1, Basics, BasicsNext
  <2> QED
    BY <1>1, <1>3, <2>1, <2>2, PrefixTransitive DEF LogGrows
<1>4. Lonely(e.gen) => Lonely(e.gen)'
  BY <1>1, LonelyStays DEF Lonely
<1> QED
  BY <1>2, <1>3, <1>4 DEF SoundCommit, IsPrefix

LEMMA WelcomesStaySound ==
    ASSUME Types, Types', LogGrows, NEW e \in WelcomeEvent, SoundWelcome(e), e.gen <= gen
    PROVE  SoundWelcome(e)'
<1>1. e.gen \in Generation /\ e.gen \in 0..gen /\ e.gen \in Nat /\ gen \in Nat /\ gen' \in Nat
  BY Basics, BasicsNext DEF WelcomeEvent
<1>2. e.gen <= gen'
  BY <1>1 DEF LogGrows
<1>3. e.tree \in Commits /\ IsPrefix(e.tree, trees[e.gen])
  BY <1>1 DEF WelcomeEvent, SoundWelcome
<1>4. IsPrefix(e.tree, trees'[e.gen])
  <2>1. trees[e.gen] \in Commits /\ trees'[e.gen] \in Commits
    BY <1>1, Basics, BasicsNext
  <2> QED
    BY <1>1, <1>3, <2>1, PrefixTransitive DEF LogGrows
<1> QED
  BY <1>2, <1>4 DEF SoundWelcome, IsPrefix

(* One more control event leaves a sound log, if it is sound itself. *)
LEMMA ControlAppended ==
    ASSUME Types, SoundControl, NEW e \in ControlEvent, control' = Append(control, e)
    PROVE  /\ Len(control') = Len(control) + 1
           /\ \A i \in 1..Len(control) : control'[i] = control[i]
           /\ \A i \in 1..Len(control') : i \notin 1..Len(control) => control'[i] = e
           /\ control' \in Seq(ControlEvent)
<1>1. control \in Seq(ControlEvent) /\ Len(control) \in Nat
  BY Basics DEF Types, LogTypes
<1>2. /\ Append(control, e) \in Seq(ControlEvent)
      /\ Len(Append(control, e)) = Len(control) + 1
      /\ \A i \in 1..Len(control) : Append(control, e)[i] = control[i]
      /\ Append(control, e)[Len(control) + 1] = e
  BY <1>1, AppendProperties
<1>3. \A i \in 1..(Len(control) + 1) : i \notin 1..Len(control) => i = Len(control) + 1
  BY <1>1
<1> QED
  BY <1>2, <1>3

LEMMA SoundControlGrows ==
    ASSUME Types, Types', SoundControl, NEW e \in ControlEvent, control' = Append(control, e),
           LogGrows,
           e.kind = "commit" => SoundCommit(e)',
           e.kind = "welcome" => SoundWelcome(e)',
           \A w \in WelcomeEvent : SoundWelcome(w) /\ w.gen > gen => SoundWelcome(w)'
    PROVE  SoundControl'
<1>1. \A i \in 1..Len(control') :
          (control'[i].kind = "commit" => SoundCommit(control[i])')
  <2> SUFFICES ASSUME NEW i \in 1..Len(control'), NEW x, x = control'[i], x.kind = "commit"
               PROVE  SoundCommit(x)'
    BY DEF SoundCommit
  <2>1. CASE i \notin 1..Len(control)
    <3>1. x = e
      BY <2>1, ControlAppended
    <3> QED
      BY <3>1
  <2>2. CASE i \in 1..Len(control)
    <3>1. x = control[i] /\ x \in CommitEvent
      BY <2>2, ControlAppended, Basics, EventByKind
    <3>2. SoundCommit(x)
      BY <2>2, <3>1 DEF SoundControl
    <3> QED
      BY <3>1, <3>2, CommitsStaySound
  <2> QED
    BY <2>1, <2>2
<1>2. \A i \in 1..Len(control') :
          (control'[i].kind = "welcome" => SoundWelcome(control[i])')
  <2> SUFFICES ASSUME NEW i \in 1..Len(control'), NEW x, x = control'[i], x.kind = "welcome"
               PROVE  SoundWelcome(x)'
    BY DEF SoundWelcome
  <2>1. CASE i \notin 1..Len(control)
    <3>1. x = e
      BY <2>1, ControlAppended
    <3> QED
      BY <3>1
  <2>2. CASE i \in 1..Len(control)
    <3>1. x = control[i] /\ x \in WelcomeEvent
      BY <2>2, ControlAppended, Basics, EventByKind
    <3>2. SoundWelcome(x)
      BY <2>2, <3>1 DEF SoundControl
    <3>3. x.gen \in Nat /\ gen \in Nat
      BY <3>1, Basics DEF WelcomeEvent
    <3> QED
      BY <3>1, <3>2, <3>3, WelcomesStaySound
  <2> QED
    BY <2>1, <2>2
<1> QED
  BY <1>1, <1>2 DEF SoundControl

(* A commit that the log may take was made on the tree the log holds: a     *)
(* generation's first commits have one start, but in a lonely generation.  *)
LEMMA BaseIsTheTree ==
    ASSUME StewardInv, NEW d \in Device,
           NEW base \in Commits, NEW c \in CommitRecord, groups[d][gen] = Append(base, c),
           chained => base = trees[gen], Len(base) = Len(trees[gen])
    PROVE  base = trees[gen] \/ (d = Owner /\ Lonely(gen))
<1>0. gen \in Generation /\ gen \in Nat /\ trees[gen] \in Commits
  BY Basics DEF StewardInv
<1>1. Len(base) \in Nat /\ Len(trees[gen]) \in Nat
  BY <1>0, LenProperties DEF Commits
<1>2. CASE chained
  BY <1>2
<1>3. CASE ~chained /\ gen = 0
  <2>1. trees[gen] = <<>> /\ Len(base) = 0
    BY <1>3, EmptySeq DEF StewardInv, Sound, Unchained
  <2> QED
    BY <2>1, EmptySeq DEF Commits
<1>4. CASE ~chained /\ gen > 0 /\ ~Lonely(gen)
  <2>1. Len(trees[gen]) = 1
    BY <1>0, <1>4 DEF StewardInv, Sound, Unchained
  <2>2. groups[d][gen] # NoGroup
    BY AppendPointwise, NoGroupIsNoTree DEF Commits
  <2>3. gen \in 1..gen
    BY <1>0, <1>4
  <2>4. Append(base, c)[1] = trees[gen][1]
    BY <1>4, <2>2, <2>3 DEF StewardInv, Sound, SameStart
  <2>5. base[1] = trees[gen][1]
    BY <2>1, <2>4, AppendPointwise
  <2>6. \A i \in 1..Len(base) : base[i] = trees[gen][i]
    BY <2>1, <2>5
  <2> QED
    BY <1>0, <2>6, SeqEqual DEF Commits
<1>5. CASE ~chained /\ gen > 0 /\ Lonely(gen)
  <2>1. groups[d][gen] # NoGroup
    BY AppendPointwise, NoGroupIsNoTree DEF Commits
  <2>2. gen \in 1..gen
    BY <1>0, <1>5
  <2>3. d \notin Others
    BY <1>5, <2>1, <2>2 DEF StewardInv, Sound, LonelyForGood
  <2> QED
    BY <1>5, <2>3 DEF Others
<1> QED
  BY <1>0, <1>2, <1>3, <1>4, <1>5

(* The log accepts a device's commit, made on the tree the log holds. *)
LEMMA CommitStep ==
    ASSUME StewardInv, Types', NEW d \in Device, UNCHANGED <<gen, groups, gone>>,
           Elsewhere(d), Ready(d)',
           op'[d].at = "welcome" => op'[d].gen = gen /\ ~Lonely(gen),
           NEW base \in Commits, NEW c \in CommitRecord, c.by = d,
           groups[d][gen] = Append(base, c),
           chained => base = trees[gen], Len(base) = Len(trees[gen]),
           trees' = [trees EXCEPT ![gen] = Append(@, c)], chained' = TRUE,
           control' = Append(control,
                          [kind |-> "commit", gen |-> gen, base |-> base, commit |-> c])
    PROVE  Sound'
<1> DEFINE e == [kind |-> "commit", gen |-> gen, base |-> base, commit |-> c]
<1>0. /\ gen \in Generation /\ gen \in Nat /\ gen' = gen
      /\ trees[gen] \in Commits
      /\ trees'[gen] = Append(trees[gen], c)
      /\ \A k \in Generation : k # gen => trees'[k] = trees[k]
      /\ \A k \in 0..gen : k \in Generation
      /\ e \in ControlEvent
  <2>1. e \in ControlEvent
    BY Basics DEF StewardInv, ControlEvent, CommitEvent
  <2>2. gen \in Generation /\ trees \in [Generation -> Commits]
    BY DEF StewardInv, Types, LogTypes
  <2> HIDE DEF e
  <2> QED
    BY <2>1, <2>2, Basics DEF StewardInv
<1>1. LogGrows
  <2>1. IsPrefix(trees[gen], trees'[gen])
    BY <1>0, PrefixOfItself, PrefixGrows
  <2>2. \A k \in 0..gen : IsPrefix(trees[k], trees'[k])
    <3> SUFFICES ASSUME NEW k \in 0..gen PROVE IsPrefix(trees[k], trees'[k])
      OBVIOUS
    <3>1. CASE k = gen
      BY <2>1, <3>1
    <3>2. CASE k # gen
      <4>1. trees'[k] = trees[k] /\ trees[k] \in Commits
        BY <1>0, <3>2, Basics DEF StewardInv
      <4> QED
        BY <4>1, PrefixOfItself
    <3> QED
      BY <3>1, <3>2
  <2>3. Len(control') = Len(control) + 1 /\ \A i \in 1..Len(control) : control'[i] = control[i]
    BY <1>0, ControlAppended DEF StewardInv, Sound
  <2>4. Len(control) \in Nat
    BY Basics DEF StewardInv
  <2> QED
    BY <1>0, <2>2, <2>3, <2>4 DEF LogGrows
<1>2. base = trees[gen] \/ (d = Owner /\ Lonely(gen))
  BY BaseIsTheTree
<1>3. \A k \in 1..gen : trees[k] # <<>> /\ trees'[k] # <<>> /\ trees'[k][1] = trees[k][1]
                          /\ (Lonely(k)' <=> Lonely(k))
  <2> SUFFICES ASSUME NEW k \in 1..gen
               PROVE  trees[k] # <<>> /\ trees'[k] # <<>> /\ trees'[k][1] = trees[k][1]
                        /\ (Lonely(k)' <=> Lonely(k))
    OBVIOUS
  <2>1. trees[k] # <<>>
    BY DEF StewardInv, Sound, SameStart
  <2>2. k \in 0..gen
    BY <1>0
  <2> QED
    BY <1>1, <2>1, <2>2, LonelyStays DEF StewardInv
<1>4. SoundControl'
  <2>1. SoundCommit(e)'
    <3>1. e.gen = gen /\ e.base = base /\ e.commit = c
      OBVIOUS
    <3>2. base = trees[gen] => IsPrefix(Append(base, c), trees'[gen])
      BY <1>0, AppendPointwise, PrefixOfItself
    <3>3. Lonely(gen) => Lonely(gen)'
      <4>1. Lonely(gen) => gen \in 1..gen
        BY <1>0 DEF Lonely
      <4> QED
        BY <1>0, <1>3, <4>1 DEF Lonely
    <3> QED
      BY <1>0, <1>2, <3>1, <3>2, <3>3 DEF SoundCommit, Lonely, IsPrefix
  <2>2. \A w \in WelcomeEvent : SoundWelcome(w) /\ w.gen > gen => SoundWelcome(w)'
    BY <1>0 DEF SoundWelcome, WelcomeEvent, Generation
  <2>3. e.kind = "commit"
    OBVIOUS
  <2> HIDE DEF e
  <2> QED
    BY <1>0, <1>1, <2>1, <2>2, <2>3, SoundControlGrows DEF StewardInv, Sound, e
<1>5. Unchained'
  BY DEF Unchained
<1>6. Forks'
  <2> SUFFICES ASSUME NEW x \in Device, NEW k \in 0..gen, groups[x][k] # NoGroup
               PROVE  SelfForked(x, groups[x][k], trees'[k])
    BY <1>0 DEF Forks, SelfForked
  <2>1. SelfForked(x, groups[x][k], trees[k]) /\ k \in Generation
    BY <1>0 DEF StewardInv, Sound, Forks
  <2>2. groups[x][k] \in Commits
    BY <2>1, Basics DEF StewardInv
  <2>3. CASE k = gen
    BY <1>0, <2>1, <2>2, <2>3, ForksStay
  <2>4. CASE k # gen
    BY <1>0, <2>1, <2>4
  <2> QED
    BY <2>3, <2>4
<1>7. OwnersGroups' /\ Staged'
  BY <1>0 DEF StewardInv, Sound, OwnersGroups, Staged
<1>8. SameStart'
  BY <1>0, <1>3 DEF StewardInv, Sound, SameStart
<1>9. LonelyForGood'
  <2> SUFFICES ASSUME NEW k \in 1..gen, Lonely(k)
               PROVE  /\ Others \subseteq gone
                      /\ \A x \in Others : groups[x][k] = NoGroup
                      /\ \A i \in 1..Len(control') :
                            control'[i].kind = "welcome" => control'[i].gen # k
                      /\ \A x \in Device : op'[x].at = "welcome" => op'[x].gen # k
    BY <1>0, <1>3 DEF LonelyForGood, Others
  <2>1. /\ Others \subseteq gone
        /\ \A x \in Others : groups[x][k] = NoGroup
        /\ \A i \in 1..Len(control) : control[i].kind = "welcome" => control[i].gen # k
        /\ \A x \in Device : op[x].at = "welcome" => op[x].gen # k
    BY DEF StewardInv, Sound, LonelyForGood
  <2>2. \A i \in 1..Len(control') : control'[i].kind = "welcome" => control'[i].gen # k
    <3>1. e.kind # "welcome"
      OBVIOUS
    <3> QED
      BY <1>0, <2>1, <3>1, ControlAppended DEF StewardInv, Sound
  <2>3. \A x \in Device : op'[x].at = "welcome" => op'[x].gen # k
    BY <2>1 DEF Elsewhere
  <2> QED
    BY <2>1, <2>2, <2>3
<1>10. CommandsReady'
  BY <1>0, <1>1, CommandsStayReady DEF StewardInv, Sound
<1> QED
  BY <1>4, <1>5, <1>6, <1>7, <1>8, <1>9, <1>10 DEF Sound

(* The log accepts the owner's Welcome into a tree it holds, or into the   *)
(* group that is staged for the next generation.                           *)
LEMMA WelcomeStep ==
    ASSUME StewardInv, Types', NEW d \in Device, UNCHANGED <<gen, trees, chained, groups, gone>>,
           Elsewhere(d), Ready(d)', NoNewWelcome(d),
           NEW e \in WelcomeEvent, control' = Append(control, e), SoundWelcome(e),
           e.gen > 0 /\ e.gen <= gen => ~Lonely(e.gen)
    PROVE  Sound'
<1>0. /\ e \in ControlEvent /\ e.kind = "welcome"
      /\ Len(control) \in Nat
      /\ Len(control') = Len(control) + 1 /\ \A i \in 1..Len(control) : control'[i] = control[i]
      /\ \A i \in 1..Len(control') : i \notin 1..Len(control) => control'[i] = e
  <2>1. e \in ControlEvent /\ e.kind = "welcome"
    BY DEF ControlEvent, WelcomeEvent
  <2> QED
    BY <2>1, Basics, ControlAppended DEF StewardInv, Sound
<1>1. LogGrows
  <2>1. \A k \in 0..gen : IsPrefix(trees[k], trees[k])
    BY Basics, PrefixOfItself DEF StewardInv
  <2> QED
    BY <1>0, <2>1, Basics DEF LogGrows, StewardInv
<1>2. \A k : Lonely(k)' = Lonely(k)
  BY DEF Lonely
<1>3. \A w \in WelcomeEvent : SoundWelcome(w) => SoundWelcome(w)'
  BY DEF SoundWelcome, IsPrefix
<1>4. SoundControl'
  BY <1>0, <1>1, <1>3, SoundControlGrows DEF StewardInv, Sound
<1>5. Unchained' /\ Forks' /\ OwnersGroups' /\ Staged'
  BY DEF StewardInv, Sound, Unchained, Forks, OwnersGroups, Staged
<1>6. SameStart'
  BY <1>2 DEF StewardInv, Sound, SameStart
<1>7. LonelyForGood'
  <2> SUFFICES ASSUME NEW k \in 1..gen, Lonely(k)
               PROVE  /\ Others \subseteq gone
                      /\ \A x \in Others : groups[x][k] = NoGroup
                      /\ \A i \in 1..Len(control') :
                            control'[i].kind = "welcome" => control'[i].gen # k
                      /\ \A x \in Device : op'[x].at = "welcome" => op'[x].gen # k
    BY <1>2 DEF LonelyForGood, Others
  <2>1. /\ Others \subseteq gone
        /\ \A x \in Others : groups[x][k] = NoGroup
        /\ \A i \in 1..Len(control) : control[i].kind = "welcome" => control[i].gen # k
        /\ \A x \in Device : op[x].at = "welcome" => op[x].gen # k
    BY DEF StewardInv, Sound, LonelyForGood
  <2>2. e.gen # k
    BY Basics DEF StewardInv
  <2>3. \A i \in 1..Len(control') : control'[i].kind = "welcome" => control'[i].gen # k
    BY <1>0, <2>1, <2>2
  <2>4. \A x \in Device : op'[x].at = "welcome" => op'[x].gen # k
    BY <2>1 DEF Elsewhere, NoNewWelcome
  <2> QED
    BY <2>1, <2>3, <2>4
<1>8. CommandsReady'
  BY <1>1, CommandsStayReady DEF StewardInv, Sound
<1> QED
  BY <1>4, <1>5, <1>6, <1>7, <1>8 DEF Sound

(* The log accepts the reset whose group the owner has staged. *)
LEMMA ResetStep ==
    ASSUME StewardInv, Types', UNCHANGED <<groups, gone>>, Elsewhere(Owner), Ready(Owner)',
           op'[Owner].at # "welcome", op[Owner].at = "reset",
           NEW c \in CommitRecord, c = op[Owner].commit,
           c.who = {} => Others \subseteq gone,
           gen' = gen + 1, trees' = [trees EXCEPT ![gen + 1] = <<c>>], chained' = FALSE,
           control' = Append(control, [kind |-> "reset"])
    PROVE  Sound'
<1> DEFINE e == [kind |-> "reset"]
<1>0. /\ gen \in Nat /\ gen + 1 \in Generation /\ gen' = gen + 1
      /\ trees'[gen + 1] = <<c>> /\ <<c>> \in Commits /\ <<c>>[1] = c /\ Len(<<c>>) = 1
      /\ \A k \in 0..gen : k \in Generation /\ trees'[k] = trees[k]
      /\ e \in ControlEvent /\ Owner \in Device
  <2>1. gen' \in Generation
    BY DEF Types, LogTypes
  <2>2. \A k \in 0..gen : k \in Generation /\ k # gen + 1
    BY Basics DEF StewardInv
  <2>3. trees \in [Generation -> Commits]
    BY DEF StewardInv, Types, LogTypes
  <2>4. <<c>> \in Commits /\ <<c>>[1] = c /\ Len(<<c>>) = 1
    BY DEF Commits
  <2>5. e \in ControlEvent
    BY DEF ControlEvent, ResetEvent
  <2> HIDE DEF e
  <2> QED
    BY <2>1, <2>2, <2>3, <2>4, <2>5, Basics, StewardConstants DEF StewardInv
<1>1. groups[Owner][gen + 1] = IF c.who = {} THEN <<>> ELSE <<c>>
  <2>1. ResetReady(Owner, op[Owner])
    BY <1>0 DEF StewardInv, Sound, CommandsReady, Ready
  <2> QED
    BY <2>1 DEF ResetReady
<1>2. LogGrows
  <2>1. \A k \in 0..gen : IsPrefix(trees[k], trees'[k])
    BY <1>0, Basics, PrefixOfItself DEF StewardInv
  <2>2. Len(control') = Len(control) + 1 /\ \A i \in 1..Len(control) : control'[i] = control[i]
    BY <1>0, ControlAppended DEF StewardInv, Sound
  <2> QED
    BY <1>0, <2>1, <2>2, Basics DEF LogGrows, StewardInv
<1>3. \A k \in 1..gen : Lonely(k)' <=> Lonely(k)
  BY <1>0 DEF Lonely
<1>4. ASSUME NEW k \in Generation, k = gen + 1 PROVE Lonely(k)' <=> c.who = {}
  <2>1. <<c>> # <<>>
    BY <1>0, EmptySeq
  <2> QED
    BY <1>0, <1>4, <2>1 DEF Lonely
<1>5. SoundControl'
  <2>1. \A w \in WelcomeEvent : SoundWelcome(w) /\ w.gen > gen => SoundWelcome(w)'
    <3> SUFFICES ASSUME NEW w \in WelcomeEvent, SoundWelcome(w), w.gen > gen
                 PROVE  SoundWelcome(w)'
      OBVIOUS
    <3>1. w.gen \in Nat /\ w.gen = gen + 1 /\ w.tree = groups[Owner][gen + 1] /\ w.tree # <<>>
      BY <1>0, Basics DEF SoundWelcome, WelcomeEvent, StewardInv
    <3>2. w.tree = trees'[gen + 1]
      BY <1>0, <1>1, <3>1
    <3>3. IsPrefix(w.tree, trees'[gen + 1])
      BY <1>0, <3>2, PrefixOfItself
    <3>4. w.for # Owner
      BY DEF SoundWelcome
    <3> QED
      BY <1>0, <3>1, <3>3, <3>4 DEF SoundWelcome, IsPrefix
  <2>2. e.kind # "commit" /\ e.kind # "welcome"
    OBVIOUS
  <2> HIDE DEF e
  <2> QED
    BY <1>0, <1>2, <2>1, <2>2, SoundControlGrows DEF StewardInv, Sound, e
<1>6. Unchained'
  BY <1>0 DEF Unchained
<1>7. ASSUME NEW x \in Device, groups[x][gen + 1] # NoGroup
      PROVE  /\ groups[x][gen + 1] = groups[Owner][gen + 1]
             /\ x # Owner => groups[x][gen + 1] # <<>>
  BY <1>0, <1>7 DEF StewardInv, Sound, Staged
<1>8. Forks'
  <2> SUFFICES ASSUME NEW x \in Device, NEW k \in 0..(gen + 1), groups[x][k] # NoGroup
               PROVE  SelfForked(x, groups[x][k], trees'[k])
    BY <1>0 DEF Forks, SelfForked
  <2>1. CASE k \in 0..gen
    BY <1>0, <2>1 DEF StewardInv, Sound, Forks
  <2>2. CASE k = gen + 1
    <3>1. groups[x][k] \in {<<>>, <<c>>}
      BY <1>1, <1>7, <2>2
    <3>2. <<>> \in Commits /\ IsPrefix(<<>>, <<c>>) /\ IsPrefix(<<c>>, <<c>>)
      <4>1. <<>> \in Commits /\ Len(<<>>) = 0
        BY EmptySeq DEF Commits
      <4> QED
        BY <1>0, <4>1, PrefixPointwise, PrefixOfItself
    <3> QED
      BY <1>0, <2>2, <3>1, <3>2, OnTheTree
  <2> QED
    BY <1>0, <2>1, <2>2
<1>9. OwnersGroups'
  <2>1. groups[Owner][gen + 1] # NoGroup
    BY <1>0, <1>1, EmptySeq, NoGroupIsNoTree DEF Commits
  <2> QED
    BY <1>0, <2>1 DEF StewardInv, Sound, OwnersGroups
<1>10. SameStart'
  <2> SUFFICES ASSUME NEW k \in 1..(gen + 1), NEW x \in Device
               PROVE  /\ trees'[k] # <<>>
                      /\ ~Lonely(k)' /\ groups[x][k] # NoGroup =>
                             groups[x][k] # <<>> /\ groups[x][k][1] = trees'[k][1]
    BY <1>0 DEF SameStart
  <2>1. CASE k \in 1..gen
    BY <1>0, <1>3, <2>1 DEF StewardInv, Sound, SameStart
  <2>2. CASE k = gen + 1
    <3>1. <<c>> # <<>>
      BY <1>0, EmptySeq
    <3> QED
      BY <1>0, <1>1, <1>4, <1>7, <2>2, <3>1
  <2> QED
    BY <1>0, <2>1, <2>2
<1>11. Staged'
  BY <1>0, Basics DEF StewardInv, Sound, Staged
<1>12. LonelyForGood'
  <2> SUFFICES ASSUME NEW k \in 1..(gen + 1), Lonely(k)'
               PROVE  /\ Others \subseteq gone
                      /\ \A x \in Others : groups[x][k] = NoGroup
                      /\ \A i \in 1..Len(control') :
                            control'[i].kind = "welcome" => control'[i].gen # k
                      /\ \A x \in Device : op'[x].at = "welcome" => op'[x].gen # k
    BY <1>0 DEF LonelyForGood, Others
  <2>0. \A i \in 1..Len(control') : control'[i].kind = "welcome" =>
            i \in 1..Len(control) /\ control'[i] = control[i]
    <3>1. e.kind # "welcome"
      OBVIOUS
    <3> HIDE DEF e
    <3> QED
      BY <1>0, <3>1, ControlAppended DEF StewardInv, Sound, e
  <2>1. CASE k \in 1..gen
    <3>1. /\ Others \subseteq gone
          /\ \A x \in Others : groups[x][k] = NoGroup
          /\ \A i \in 1..Len(control) : control[i].kind = "welcome" => control[i].gen # k
          /\ \A x \in Device : op[x].at = "welcome" => op[x].gen # k
      BY <1>3, <2>1 DEF StewardInv, Sound, LonelyForGood
    <3>2. \A x \in Device : op'[x].at = "welcome" => op'[x].gen # k
      BY <3>1 DEF Elsewhere
    <3> QED
      BY <2>0, <3>1, <3>2
  <2>2. CASE k = gen + 1
    <3>1. c.who = {} /\ groups[Owner][gen + 1] = <<>>
      BY <1>0, <1>1, <1>4, <2>2
    <3>2. \A x \in Others : groups[x][k] = NoGroup
      BY <1>7, <2>2, <3>1 DEF Others
    <3>3. ASSUME NEW i \in 1..Len(control), control[i].kind = "welcome"
          PROVE  control[i].gen # k
      BY <1>0, <2>2, <3>1, <3>3 DEF StewardInv, Sound, SoundControl, SoundWelcome
    <3>4. ASSUME NEW x \in Device, op[x].at = "welcome" PROVE op[x].gen # k
      <4>1. WelcomeReady(op[x])
        BY <3>4 DEF StewardInv, Sound, CommandsReady, Ready
      <4> QED
        BY <1>0, <2>2, <4>1 DEF WelcomeReady
    <3>5. \A x \in Device : op'[x].at = "welcome" => op'[x].gen # k
      BY <3>4 DEF Elsewhere
    <3> QED
      BY <2>0, <3>1, <3>2, <3>3, <3>5
  <2> QED
    BY <1>0, <2>1, <2>2
<1>13. CommandsReady'
  BY <1>0, <1>2, CommandsStayReady DEF StewardInv, Sound
<1> QED
  BY <1>5, <1>6, <1>8, <1>9, <1>10, <1>11, <1>12, <1>13 DEF Sound

-----------------------------------------------------------------------------
(* The steps of the clients, one by one. *)

LEMMA StewardInitSound == StewardInit => StewardInv
<1> SUFFICES ASSUME StewardInit PROVE StewardInv
  OBVIOUS
<1>0. /\ 0 \in Generation /\ gen = 0 /\ \A g \in 0..gen : g = 0
      /\ CreatorLeaf \in CommitRecord /\ CreatorLeaf.by = Owner /\ CreatorLeaf.what = "boot"
      /\ <<>> \in Commits /\ Len(<<>>) = 0 /\ <<CreatorLeaf>> \in Commits
      /\ Owner \in Device
  <2>1. CreatorLeaf \in CommitRecord
    BY CommitType, StewardConstants DEF CreatorLeaf
  <2>2. <<>> \in Commits /\ Len(<<>>) = 0
    BY EmptySeq DEF Commits
  <2>3. <<CreatorLeaf>> \in Commits
    BY <2>1 DEF Commits
  <2> QED
    BY <2>1, <2>2, <2>3, StewardConstants DEF StewardInit, Generation, CreatorLeaf, Commit
<1>1. LogTypes
  <2>1. <<>> \in Seq(ControlEvent)
    OBVIOUS
  <2> QED
    BY <1>0, <2>1 DEF StewardInit, LogTypes
<1>2. LeafTypes /\ FlagTypes /\ PackageTypes
  BY DEF StewardInit, LeafTypes, FlagTypes, PackageTypes
<1> DEFINE first == [at |-> "commit", gen |-> 0, base |-> <<>>,
                     commit |-> CreatorLeaf, then |-> "done", dirty |-> FALSE]
<1>3. first \in Command
  BY <1>0 DEF Command, CommitOp
<1>4. \A d \in Device : op[d] = IF d = Owner THEN first ELSE Idle
  BY DEF StewardInit
<1>5. \A d \in Device : mls[d] = NotJoined
  BY DEF StewardInit
<1>6. StoreTypes
  <2>1. groups \in [Device -> [Generation -> Commits \cup {NoGroup}]]
    BY <1>0 DEF StewardInit
  <2>2. mls \in [Device -> MlsRecord]
    BY <1>0 DEF StewardInit, NotJoined, MlsRecord
  <2>3. op \in [Device -> Command]
    BY <1>3, IdleType DEF StewardInit
  <2> QED
    BY <2>1, <2>2, <2>3 DEF StoreTypes
<1>7. Len(control) = 0 /\ control = <<>>
  BY <1>0 DEF StewardInit
<1>8. Cursors
  BY <1>0, <1>4, <1>5, <1>7 DEF Cursors, NotJoined, Idle
<1>9. \A d \in Device, g \in Generation :
          groups[d][g] = IF d = Owner /\ g = 0 THEN <<CreatorLeaf>> ELSE NoGroup
  BY DEF StewardInit
<1>10. trees[0] = <<>> /\ \A g \in Generation : ~Lonely(g)
  BY <1>0 DEF StewardInit, Lonely
<1>11. SoundControl
  BY <1>7 DEF SoundControl
<1>12. Unchained
  BY <1>0, <1>10 DEF Unchained
<1>13. <<CreatorLeaf>> # NoGroup /\ Append(<<>>, CreatorLeaf) = <<CreatorLeaf>>
  <2>1. <<CreatorLeaf>> # NoGroup
    BY <1>0, NoGroupIsNoTree DEF Commits
  <2> HIDE DEF CreatorLeaf
  <2>2. Append(<<>>, CreatorLeaf) = <<CreatorLeaf>>
    OBVIOUS
  <2> QED
    BY <2>1, <2>2
<1>14. Forks
  <2> SUFFICES ASSUME NEW d \in Device, NEW g \in 0..gen, groups[d][g] # NoGroup
               PROVE  SelfForked(d, groups[d][g], trees[g])
    BY DEF Forks
  <2>1. d = Owner /\ groups[d][g] = <<CreatorLeaf>>
    BY <1>0, <1>9
  <2> QED
    BY <1>0, <2>1 DEF SelfForked
<1>15. OwnersGroups
  BY <1>0, <1>9, <1>13 DEF OwnersGroups
<1>16. SameStart /\ LonelyForGood
  BY <1>0 DEF SameStart, LonelyForGood
<1>17. Staged
  BY <1>0, <1>9 DEF Staged
<1>18. CommandsReady
  <2> SUFFICES ASSUME NEW d \in Device PROVE Ready(d)
    BY DEF CommandsReady
  <2>1. CASE d = Owner
    <3>1. CommitReady(d, first)
      BY <1>0, <1>9, <1>13, <2>1 DEF CommitReady
    <3> QED
      BY <1>4, <2>1, <3>1 DEF Ready
  <2>2. CASE d # Owner
    BY <1>4, <2>2 DEF Ready, Idle
  <2> QED
    BY <2>1, <2>2
<1> QED
  BY <1>1, <1>2, <1>6, <1>8, <1>11, <1>12, <1>14, <1>15, <1>16, <1>17, <1>18
     DEF StewardInv, Types, Sound

LEMMA ElsewhereOf ==
    ASSUME Types, NEW d \in Device, NEW o, op' = [op EXCEPT ![d] = o],
           NEW m, mls' = [mls EXCEPT ![d] = m],
           \A e \in Device \ {d} : groups'[e] = groups[e]
    PROVE  Elsewhere(d) /\ op'[d] = o /\ mls'[d] = m
BY DEF Types, StoreTypes, Elsewhere

LEMMA SameMls ==
    ASSUME Types, NEW d \in Device
    PROVE  /\ mls = [mls EXCEPT ![d] = mls[d]] /\ mls[d] \in MlsRecord
           /\ mls[d].gen <= gen /\ mls[d].cursor <= Len(control)
BY DEF Types, StoreTypes, Cursors

(* A step that leaves the log alone keeps its types. *)
LEMMA LogTypesStay ==
    ASSUME Types, UNCHANGED logVars
    PROVE  /\ LogTypes' /\ LeafTypes' /\ gen <= gen' /\ Len(control) <= Len(control')
           /\ SameLog
<1>1. gen \in Nat /\ Len(control) \in Nat
  BY Basics
<1> QED
  BY <1>1 DEF Types, LogTypes, LeafTypes, logVars, SameLog

LEMMA PackageTypesStay ==
    ASSUME Types, packages' \subseteq packages, UNCHANGED <<published, secrets>>
    PROVE  PackageTypes'
BY DEF Types, PackageTypes

(* An answer that did not come, or a refusal: the command ends. *)
LEMMA GivingUp ==
    ASSUME StewardInv, NEW d \in Device, Fail(d), opening' \subseteq Device,
           UNCHANGED <<logVars, gone, groups, secrets, published, mls>>
    PROVE  StewardInv'
<1>1. op' = [op EXCEPT ![d] = Idle] /\ stuck' \subseteq Device
  BY DEF Fail, Goto, StewardInv, Types, FlagTypes
<1>2. LogTypes' /\ LeafTypes' /\ gen <= gen' /\ Len(control) <= Len(control') /\ SameLog
  BY LogTypesStay DEF StewardInv
<1>3. PackageTypes'
  BY PackageTypesStay DEF StewardInv, logVars
<1>4. FlagTypes'
  BY <1>1 DEF StewardInv, Types, FlagTypes
<1>5. /\ mls' = [mls EXCEPT ![d] = mls[d]] /\ mls[d] \in MlsRecord
      /\ mls[d].gen <= gen' /\ mls[d].cursor <= Len(control')
  BY SameMls DEF StewardInv, logVars
<1>6. Types'
  <2>1. groups' \in [Device -> [Generation -> Commits \cup {NoGroup}]]
    BY DEF StewardInv, Types, StoreTypes
  <2> QED
    BY <1>1, <1>2, <1>3, <1>4, <1>5, <2>1, IdleType, TypesOfAStep DEF StewardInv
<1>7. Elsewhere(d) /\ op'[d] = Idle
  BY <1>1, <1>5, ElsewhereOf DEF StewardInv
<1>8. Ready(d)' /\ NoNewWelcome(d)
  BY <1>7, IdleType DEF Ready, NoNewWelcome
<1> QED
  BY <1>2, <1>6, <1>7, <1>8, QuietStep DEF StewardInv

LEMMA StoreCommitTypes ==
    ASSUME Types, SoundControl, NEW d \in Device, NEW base \in Commits, NEW c \in CommitRecord,
           CommitAllowed(d, base, c), StoreCommit(d, base, c)
    PROVE  /\ LogTypes' /\ LeafTypes' /\ packages' \subseteq packages
           /\ gen' = gen /\ Len(control') = Len(control) + 1
<1> DEFINE e == [kind |-> "commit", gen |-> gen, base |-> base, commit |-> c]
<1>1. e \in ControlEvent /\ control' = Append(control, e)
  BY Basics DEF ControlEvent, CommitEvent, StoreCommit
<1>2. gen \in Generation /\ trees \in [Generation -> Commits] /\ gen' = gen /\ chained' = TRUE
      /\ trees' = [trees EXCEPT ![gen] = Append(trees[gen], c)]
  BY DEF Types, LogTypes, StoreCommit
<1>3. Append(trees[gen], c) \in Commits
  BY <1>2, AppendPointwise
<1> HIDE DEF e
<1>4. control' \in Seq(ControlEvent) /\ Len(control') = Len(control) + 1
  BY <1>1, ControlAppended
<1>5. LogTypes'
  BY <1>2, <1>3, <1>4 DEF LogTypes
<1>6. c.who \subseteq Device /\ (c.what = "add" => c.who \cap confirmed = {})
  BY DEF CommitRecord, CommitAllowed, Leaves
<1>7. LeafTypes'
  BY <1>6 DEF Types, LeafTypes, StoreCommit
<1>8. packages' \subseteq packages
  BY DEF StoreCommit
<1> QED
  BY <1>2, <1>4, <1>5, <1>7, <1>8

(* The log takes a commit, whether or not the device hears of it. *)
LEMMA CommitStored ==
    ASSUME StewardInv, NEW d \in Device, op[d].at = "commit",
           ~Stale(op[d].gen, op[d].base), CommitAllowed(d, op[d].base, op[d].commit),
           StoreCommit(d, op[d].base, op[d].commit),
           UNCHANGED <<gone, groups, secrets, published>>, FlagTypes',
           NEW n \in Command, op' = [op EXCEPT ![d] = n], n.at \in {"idle", "welcome", "send"},
           NEW m \in MlsRecord, mls' = [mls EXCEPT ![d] = m],
           m.gen <= gen, m.cursor <= Len(control),
           n.at = "send" => n.cursor <= Len(control) /\ groups[d][m.gen] # NoGroup,
           n.at = "welcome" => /\ n.gen = gen /\ n.tree = groups[d][gen]
                               /\ Adds(op[d].commit) /\ n.commit = op[d].commit
    PROVE  StewardInv'
<1> DEFINE base == op[d].base
           c == op[d].commit
<1>1. /\ base \in Commits /\ c \in CommitRecord /\ op[d].gen = gen /\ c.by = d
      /\ Len(base) = Len(trees[gen]) /\ groups[d][gen] = Append(base, c)
      /\ chained => base = trees[gen]
  <2>1. op[d] \in CommitOp
    BY CommandByStage, Basics DEF StewardInv
  <2>2. CommitReady(d, op[d])
    BY DEF StewardInv, Sound, CommandsReady, Ready
  <2> QED
    BY <2>1, <2>2 DEF CommitOp, CommitReady, Stale, CommitAllowed, Tree
<1>2. /\ StoreCommit(d, base, c) /\ CommitAllowed(d, base, c)
  OBVIOUS
<1> HIDE DEF base, c
<1>3. /\ LogTypes' /\ LeafTypes' /\ packages' \subseteq packages
      /\ gen' = gen /\ Len(control') = Len(control) + 1
  BY <1>1, <1>2, StoreCommitTypes DEF StewardInv, Sound
<1>4. PackageTypes'
  BY <1>3, PackageTypesStay DEF StewardInv
<1>5. /\ gen \in Nat /\ gen \in Generation /\ trees[gen] \in Commits /\ Len(control) \in Nat
      /\ m.gen \in Nat /\ m.cursor \in Nat
      /\ n.at = "send" => n.cursor \in Nat
  <2>1. n.at = "send" => n \in SendOp
    BY CommandByStage
  <2>2. m.gen \in Nat
    BY Basics DEF StewardInv, MlsRecord
  <2> QED
    BY <2>1, <2>2, Basics DEF StewardInv, MlsRecord, SendOp
<1>6. Types'
  <2>1. groups' \in [Device -> [Generation -> Commits \cup {NoGroup}]]
    BY DEF StewardInv, Types, StoreTypes
  <2>2. /\ gen <= gen' /\ Len(control) <= Len(control') /\ m.gen <= gen' /\ m.cursor <= Len(control')
        /\ n.at \in {"send", "resync"} => n.cursor <= Len(control')
        /\ n.at \notin {"confirm", "process"}
    BY <1>3, <1>5
  <2> QED
    BY <1>3, <1>4, <2>1, <2>2, TypesOfAStep DEF StewardInv
<1>7. Elsewhere(d) /\ op'[d] = n /\ mls'[d] = m
  BY ElsewhereOf DEF StewardInv
<1>8. /\ trees' = [trees EXCEPT ![gen] = Append(@, c)] /\ chained' = TRUE
      /\ trees'[gen] = Append(trees[gen], c)
      /\ control' = Append(control,
                       [kind |-> "commit", gen |-> gen, base |-> base, commit |-> c])
  <2>1. trees \in [Generation -> Commits]
    BY DEF StewardInv, Types, LogTypes
  <2> QED
    BY <1>2, <1>5, <2>1 DEF StoreCommit
<1>9. ASSUME n.at = "welcome" PROVE ~Lonely(gen) /\ base = trees[gen]
  <2>1. Adds(c)
    BY <1>9 DEF c
  <2>2. PICK x \in Others : c.who = {x}
    BY <2>1 DEF Adds
  <2>3. x \notin gone
    BY <1>2, <2>1, <2>2 DEF CommitAllowed, Adds
  <2>4. ~Lonely(gen)
    <3>1. Lonely(gen) => gen \in 1..gen
      BY <1>5 DEF Lonely
    <3> QED
      BY <2>2, <2>3, <3>1 DEF StewardInv, Sound, LonelyForGood
  <2> QED
    BY <1>1, <2>4, BaseIsTheTree
<1>10. Ready(d)'
  <2>1. CASE n.at = "idle"
    BY <1>7, <2>1 DEF Ready
  <2>2. CASE n.at = "send"
    BY <1>7, <2>2 DEF Ready
  <2>3. CASE n.at = "welcome"
    <3>1. n.tree = trees'[gen] /\ trees'[gen] \in Commits /\ trees'[gen] # <<>>
      <4>1. base = trees[gen] /\ n.tree = groups[d][gen]
        BY <1>9, <2>3
      <4>2. n.tree = trees'[gen]
        BY <1>1, <1>8, <4>1
      <4>3. Append(trees[gen], c) \in Commits /\ Append(trees[gen], c) # <<>>
        BY <1>1, <1>5, AppendPointwise
      <4> QED
        BY <1>8, <4>2, <4>3
    <3>2. IsPrefix(n.tree, trees'[gen])
      BY <3>1, PrefixOfItself
    <3>3. WelcomeReady(n)'
      <4>1. n.gen = gen /\ Adds(n.commit)
        BY <2>3
      <4>2. n.gen <= gen'
        BY <1>3, <1>5, <4>1
      <4>3. n.tree # <<>> /\ IsPrefix(n.tree, trees'[n.gen])
        BY <3>1, <3>2, <4>1
      <4> QED
        BY <4>1, <4>2, <4>3 DEF WelcomeReady, Adds, IsPrefix
    <3> QED
      BY <1>7, <2>3, <3>3 DEF Ready
  <2> QED
    BY <2>1, <2>2, <2>3
<1>11. Sound'
  <2>1. op'[d].at = "welcome" => op'[d].gen = gen /\ ~Lonely(gen)
    BY <1>7, <1>9
  <2>2. gen' = gen /\ groups' = groups /\ gone' = gone
    BY <1>3
  <2> QED
    BY <1>1, <1>6, <1>7, <1>8, <1>10, <2>1, <2>2, CommitStep
<1> QED
  BY <1>6, <1>11 DEF StewardInv

LEMMA CommitSubmitKeeps ==
    ASSUME StewardInv, NEW d \in Device, CommitSubmit(d)
    PROVE  StewardInv'
<1> DEFINE o == op[d]
<1>1. op[d].at = "commit" /\ gone' = gone
  BY DEF CommitSubmit, Holds
<1>2. /\ op[d] \in CommitOp /\ CommitReady(d, op[d])
      /\ mls = [mls EXCEPT ![d] = mls[d]] /\ mls[d] \in MlsRecord
      /\ mls[d].gen <= gen /\ mls[d].cursor <= Len(control) /\ mls[d].cursor \in Nat
      /\ gen \in Nat /\ Len(control) \in Nat
  <2>1. op[d] \in CommitOp
    BY <1>1, CommandByStage, Basics DEF StewardInv
  <2>2. CommitReady(d, op[d])
    BY <1>1 DEF StewardInv, Sound, CommandsReady, Ready
  <2> QED
    BY <2>1, <2>2, SameMls, Basics DEF StewardInv, MlsRecord
<1>3. CASE UNCHANGED <<logVars, storeVars>> /\ Fail(d)
  BY <1>1, <1>3, GivingUp DEF storeVars, StewardInv, Types, FlagTypes
<1> DEFINE Stored == /\ ~Stale(op[d].gen, op[d].base)
                     /\ CommitAllowed(d, op[d].base, op[d].commit)
                     /\ StoreCommit(d, op[d].base, op[d].commit)
<1>4. CASE Stored /\ UNCHANGED storeVars /\ Goto(d, Idle) /\ stuck' = stuck \cup {d}
  <2>1. FlagTypes'
    BY <1>1, <1>4 DEF storeVars, StewardInv, Types, FlagTypes
  <2>2. UNCHANGED <<gone, groups, secrets, published, mls>> /\ op' = [op EXCEPT ![d] = Idle]
    BY <1>1, <1>4 DEF storeVars, Goto
  <2> QED
    BY <1>1, <1>2, <1>4, <2>1, <2>2, IdleType, CommitStored
<1>5. CASE Stored /\ CommitAnswered(d) /\ UNCHANGED <<stuck, faults>>
  <2>1. FlagTypes' /\ UNCHANGED <<gone, groups, secrets, published>>
    BY <1>1, <1>5 DEF CommitAnswered, StewardInv, Types, FlagTypes
  <2> DEFINE joined == [NotJoined EXCEPT !.confirmed = TRUE]
  <2>2. PICK m \in MlsRecord : /\ mls' = [mls EXCEPT ![d] = m]
                               /\ m.gen <= gen /\ m.cursor <= Len(control)
                               /\ op[d].commit.what # "boot" => m = mls[d]
    <3>1. CASE op[d].commit.what = "boot"
      <4>1. mls' = [mls EXCEPT ![d] = joined]
        BY <1>5, <3>1 DEF CommitAnswered, SetMls
      <4>2. joined \in MlsRecord /\ joined.gen = 0 /\ joined.cursor = 0
        <5>1. 0 \in Generation
          BY StewardConstants DEF Generation
        <5>2. NotJoined \in MlsRecord
          BY <5>1 DEF MlsRecord, NotJoined
        <5>3. joined \in MlsRecord
          BY <5>2 DEF MlsRecord
        <5>4. joined.gen = 0 /\ joined.cursor = 0
          BY DEF NotJoined
        <5> QED
          BY <5>3, <5>4
      <4>3. joined.gen <= gen /\ joined.cursor <= Len(control)
        BY <1>2, <4>2
      <4> HIDE DEF joined
      <4> QED
        BY <3>1, <4>1, <4>2, <4>3
    <3>2. CASE op[d].commit.what # "boot"
      <4>1. mls' = mls
        BY <1>5, <3>2 DEF CommitAnswered
      <4> QED
        BY <1>2, <3>2, <4>1
    <3> QED
      BY <3>1, <3>2
  <2>3. op[d].gen = gen
    BY <1>5 DEF Stale
  <2>4. CASE op[d].then = "done"
    <3>1. op' = [op EXCEPT ![d] = Idle]
      BY <1>5, <2>4 DEF CommitAnswered, Goto
    <3> QED
      BY <1>1, <1>5, <2>1, <2>2, <3>1, IdleType, CommitStored
  <2>5. CASE op[d].then = "send"
    <3> DEFINE n == [at |-> "send", repaired |-> TRUE, tries |-> 0, barren |-> 0,
                     cursor |-> mls[d].cursor, dirty |-> TRUE]
    <3>1. op' = [op EXCEPT ![d] = n]
      BY <1>5, <2>5 DEF CommitAnswered, Goto
    <3>2. n \in Command
      BY <1>2 DEF Command, SendOp
    <3>3. n.at = "send" /\ n.cursor <= Len(control)
      BY <1>2
    <3>4. groups[d][m.gen] # NoGroup
      BY <1>2, <2>2, <2>5 DEF CommitReady
    <3> HIDE DEF n
    <3> QED
      BY <1>1, <1>5, <2>1, <2>2, <3>1, <3>2, <3>3, <3>4, CommitStored
  <2>6. CASE op[d].then = "welcome"
    <3> DEFINE n == [at |-> "welcome", gen |-> gen, dirty |-> TRUE,
                     tree |-> groups[d][gen], commit |-> op[d].commit]
    <3>1. op' = [op EXCEPT ![d] = n]
      BY <1>5, <2>3, <2>6 DEF CommitAnswered, Goto, Local
    <3>2. n \in Command
      <4>1. groups[d][gen] \in Commits /\ op[d].commit \in CommitRecord /\ gen \in Generation
        <5>1. op[d].base \in Commits /\ op[d].commit \in CommitRecord
          BY <1>2 DEF CommitOp
        <5>2. groups[d][gen] = Append(op[d].base, op[d].commit)
          BY <1>2, <2>3 DEF CommitReady
        <5> QED
          BY <5>1, <5>2, Basics, AppendPointwise DEF StewardInv
      <4> QED
        BY <4>1 DEF Command, WelcomeOp
    <3>3. /\ n.at = "welcome" /\ n.gen = gen /\ n.tree = groups[d][gen]
          /\ n.commit = op[d].commit
      OBVIOUS
    <3>4. Adds(op[d].commit)
      BY <1>2, <2>6 DEF CommitReady
    <3> HIDE DEF n
    <3> QED
      BY <1>1, <1>5, <2>1, <2>2, <3>1, <3>2, <3>3, <3>4, CommitStored
  <2> QED
    BY <1>2, <2>4, <2>5, <2>6 DEF CommitOp
<1> QED
  BY <1>1, <1>3, <1>4, <1>5 DEF CommitSubmit, Submitted, Refused

(* The log takes a Welcome, whether or not the owner hears of it. *)
LEMMA WelcomeStored ==
    ASSUME StewardInv, NEW d \in Device, UNCHANGED <<gone, groups, secrets, published>>,
           FlagTypes',
           NEW e \in WelcomeEvent, SoundWelcome(e), e.gen > 0 /\ e.gen <= gen => ~Lonely(e.gen),
           StoreWelcome(e.gen, e.for, e.tree, e.pkg),
           NEW n \in Command, op' = [op EXCEPT ![d] = n], n.at \in {"idle", "reset"},
           n.at = "reset" => ResetReady(d, n),
           NEW m \in MlsRecord, mls' = [mls EXCEPT ![d] = m],
           m.gen <= gen, m.cursor <= Len(control)
    PROVE  StewardInv'
<1>1. control' = Append(control, e) /\ UNCHANGED <<gen, trees, chained, confirmed, pending, packages>>
  BY DEF StoreWelcome, WelcomeEvent
<1>2. control' \in Seq(ControlEvent) /\ Len(control') = Len(control) + 1 /\ Len(control) \in Nat
  BY <1>1, ControlAppended, Basics DEF StewardInv, Sound, ControlEvent
<1>3. LogTypes' /\ LeafTypes' /\ PackageTypes'
  <2>1. LogTypes' /\ LeafTypes'
    BY <1>1, <1>2 DEF StewardInv, Types, LogTypes, LeafTypes
  <2>2. packages' \subseteq packages
    BY <1>1
  <2> QED
    BY <2>1, <2>2, PackageTypesStay DEF StewardInv
<1>4. Types'
  <2>1. groups' \in [Device -> [Generation -> Commits \cup {NoGroup}]]
    BY DEF StewardInv, Types, StoreTypes
  <2>2. gen <= gen' /\ Len(control) <= Len(control') /\ m.gen <= gen' /\ m.cursor <= Len(control')
    BY <1>1, <1>2, Basics DEF StewardInv, MlsRecord
  <2> QED
    BY <1>3, <2>1, <2>2, TypesOfAStep DEF StewardInv
<1>5. Elsewhere(d) /\ op'[d] = n
  BY ElsewhereOf DEF StewardInv
<1>6. Ready(d)' /\ NoNewWelcome(d)
  BY <1>1, <1>5 DEF Ready, ResetReady, NoNewWelcome
<1>7. Sound'
  BY <1>1, <1>4, <1>5, <1>6, WelcomeStep
<1> QED
  BY <1>4, <1>7 DEF StewardInv

LEMMA WelcomeSubmitKeeps ==
    ASSUME StewardInv, NEW d \in Device, WelcomeSubmit(d)
    PROVE  StewardInv'
<1> DEFINE x == CHOOSE y \in op[d].commit.who : TRUE
           pkg == CHOOSE p \in op[d].commit.pkgs : TRUE
           e == [kind |-> "welcome", gen |-> gen, for |-> x, tree |-> op[d].tree, pkg |-> pkg]
<1>1. op[d].at = "welcome" /\ gone' = gone
  BY DEF WelcomeSubmit, Holds
<1>2. /\ op[d] \in WelcomeOp /\ WelcomeReady(op[d])
  <2>1. op[d] \in WelcomeOp
    BY <1>1, CommandByStage, Basics DEF StewardInv
  <2> QED
    BY <1>1, <2>1 DEF StewardInv, Sound, CommandsReady, Ready
<1>3. CASE UNCHANGED <<logVars, storeVars>> /\ Fail(d)
  BY <1>1, <1>3, GivingUp DEF storeVars, StewardInv, Types, FlagTypes
<1>4. ASSUME op[d].gen = gen, StoreWelcome(gen, x, op[d].tree, pkg), FlagTypes',
             UNCHANGED <<groups, secrets, published>>, op' = [op EXCEPT ![d] = Idle],
             NEW m \in MlsRecord, mls' = [mls EXCEPT ![d] = m],
             m.gen <= gen, m.cursor <= Len(control)
      PROVE  StewardInv'
  <2>1. x \in Others /\ pkg \in Pkg
    <3>1. Adds(op[d].commit) /\ op[d].commit \in CommitRecord
      BY <1>2 DEF WelcomeReady, WelcomeOp
    <3>2. PICK y \in Others : op[d].commit.who = {y}
      BY <3>1 DEF Adds
    <3>3. x = y
      BY <3>2
    <3>4. PICK p \in op[d].commit.pkgs : op[d].commit.pkgs = {p}
      BY <3>1 DEF Adds
    <3>5. pkg = p
      BY <3>4
    <3> HIDE DEF x, pkg
    <3> QED
      BY <3>1, <3>2, <3>3, <3>4, <3>5 DEF CommitRecord, Pkg
  <2>2. e \in WelcomeEvent /\ SoundWelcome(e) /\ e.gen = gen
    <3>1. gen \in Generation /\ op[d].tree \in Commits /\ op[d].tree # <<>>
          /\ IsPrefix(op[d].tree, trees[gen]) /\ gen <= gen
      BY <1>2, <1>4, Basics DEF WelcomeReady, WelcomeOp, StewardInv
    <3>2. x # Owner
      BY <2>1 DEF Others
    <3> HIDE DEF x, pkg
    <3> QED
      BY <2>1, <3>1, <3>2 DEF WelcomeEvent, SoundWelcome, Others
  <2>3. gen > 0 => ~Lonely(gen)
    <3>1. gen \in Nat /\ (gen > 0 => gen \in 1..gen)
      BY Basics DEF StewardInv
    <3> QED
      BY <1>1, <1>4, <3>1 DEF StewardInv, Sound, LonelyForGood
  <2>4. StoreWelcome(e.gen, e.for, e.tree, e.pkg)
    BY <1>4
  <2> HIDE DEF e
  <2> QED
    BY <1>1, <1>4, <2>2, <2>3, <2>4, IdleType, WelcomeStored
<1>5. CASE /\ op[d].gen = gen /\ StoreWelcome(gen, x, op[d].tree, pkg)
           /\ UNCHANGED storeVars /\ Goto(d, Idle) /\ stuck' = stuck \cup {d}
  <2>1. FlagTypes'
    BY <1>1, <1>5 DEF storeVars, StewardInv, Types, FlagTypes
  <2>2. UNCHANGED <<groups, secrets, published, mls>> /\ op' = [op EXCEPT ![d] = Idle]
    BY <1>5 DEF storeVars, Goto
  <2> HIDE DEF x, pkg
  <2> QED
    BY <1>4, <1>5, <2>1, <2>2, SameMls DEF StewardInv
<1>6. CASE /\ op[d].gen = gen /\ StoreWelcome(gen, x, op[d].tree, pkg)
           /\ WelcomeAnswered(d) /\ UNCHANGED <<stuck, faults>>
  <2> DEFINE m == [gen |-> gen, confirmed |-> TRUE, cursor |-> 0]
  <2>1. m \in MlsRecord /\ m.gen <= gen /\ m.cursor <= Len(control)
    BY Basics DEF StewardInv, MlsRecord
  <2>2. mls' = [mls EXCEPT ![d] = m] /\ op' = [op EXCEPT ![d] = Idle]
        /\ UNCHANGED <<groups, secrets, published, opening, gone>>
    BY <1>1, <1>6 DEF WelcomeAnswered, SetMls, Goto
  <2>3. FlagTypes'
    BY <1>6, <2>2 DEF StewardInv, Types, FlagTypes
  <2> HIDE DEF x, pkg, m
  <2> QED
    BY <1>4, <1>6, <2>1, <2>2, <2>3
<1> QED
  BY <1>1, <1>3, <1>5, <1>6 DEF WelcomeSubmit, Submitted, Refused

LEMMA SameLogTypes ==
    ASSUME Types, SameLog
    PROVE  LogTypes' /\ gen <= gen' /\ Len(control) <= Len(control')
<1>1. gen \in Nat /\ Len(control) \in Nat
  BY Basics
<1> QED
  BY <1>1 DEF Types, LogTypes, SameLog

(* A step of a command that touches neither the log nor a group. *)
LEMMA QuietMove ==
    ASSUME StewardInv, NEW d \in Device, SameLog, UNCHANGED groups, gone \subseteq gone',
           LeafTypes', FlagTypes', PackageTypes',
           NEW n \in Command, op' = [op EXCEPT ![d] = n], n.at # "welcome",
           n.at \in {"send", "resync"} => n.cursor <= Len(control),
           n.at \in {"confirm", "process"} => n.next <= Len(control),
           NEW m \in MlsRecord, mls' = [mls EXCEPT ![d] = m],
           m.gen <= gen, m.cursor <= Len(control),
           n.at \notin {"idle"} => Ready(d)'
    PROVE  StewardInv'
<1>1. LogTypes' /\ gen <= gen' /\ Len(control) <= Len(control')
  BY SameLogTypes DEF StewardInv
<1>2. gen' = gen /\ control' = control
  BY DEF SameLog
<1>3. groups' \in [Device -> [Generation -> Commits \cup {NoGroup}]]
  BY DEF StewardInv, Types, StoreTypes
<1>4. Types'
  BY <1>1, <1>2, <1>3, TypesOfAStep DEF StewardInv
<1>5. Elsewhere(d) /\ op'[d] = n
  BY ElsewhereOf DEF StewardInv
<1>6. Ready(d)'
  <2>1. n.at = "idle" => Ready(d)'
    BY <1>5 DEF Ready
  <2> QED
    BY <2>1
<1>7. NoNewWelcome(d)
  BY <1>5 DEF NoNewWelcome
<1> QED
  BY <1>4, <1>5, <1>6, <1>7, QuietStep DEF StewardInv

(* An own commit is merged before it is sent: the group forks by itself.   *)
LEMMA StartCommitKeeps ==
    ASSUME StewardInv, NEW d \in Device, NEW g \in 0..gen, groups[d][g] # NoGroup,
           NEW c \in CommitRecord, c.by = d, c.what # "boot",
           NEW then \in {"done", "send", "welcome"}, NEW dirty \in BOOLEAN,
           then = "welcome" => d = Owner /\ Adds(c),
           then = "send" => g = mls[d].gen,
           StartCommit(d, g, c, then, dirty)
    PROVE  StewardInv'
<1> DEFINE path == Append(groups[d][g], c)
<1>0. PICK n : n = [at |-> "commit", gen |-> g, base |-> groups[d][g], commit |-> c,
                    then |-> then, dirty |-> dirty]
  OBVIOUS
<1>1. /\ g \in Generation /\ groups[d][g] \in Commits /\ path \in Commits /\ path # <<>>
      /\ g \in Nat /\ gen \in Nat
      /\ groups[d][g] # <<>> => path[1] = groups[d][g][1]
  <2>1. g \in Generation /\ groups[d][g] \in Commits
    BY Basics DEF StewardInv
  <2>2. path \in Commits /\ path # <<>> /\ \A i \in 1..Len(groups[d][g]) : path[i] = groups[d][g][i]
    BY <2>1, AppendPointwise
  <2>3. groups[d][g] # <<>> => 1 \in 1..Len(groups[d][g])
    BY <2>1, EmptySeq, LenProperties DEF Commits
  <2> HIDE DEF path
  <2> QED
    BY <2>1, <2>2, <2>3, Basics DEF StewardInv
<1>2. /\ groups' = [groups EXCEPT ![d][g] = path] /\ op' = [op EXCEPT ![d] = n]
      /\ UNCHANGED <<logVars, gone, secrets, published, mls, opening, stuck>>
  BY <1>0 DEF StartCommit, Merge, Goto, Local
<1>3. n \in Command /\ n.at = "commit"
  BY <1>0, <1>1 DEF Command, CommitOp
<1>4. LogTypes' /\ LeafTypes' /\ gen <= gen' /\ Len(control) <= Len(control') /\ SameLog
  BY <1>2, LogTypesStay DEF StewardInv
<1>5. PackageTypes' /\ FlagTypes'
  <2>1. packages' \subseteq packages
    BY <1>2 DEF logVars
  <2> QED
    BY <1>2, <2>1, PackageTypesStay DEF StewardInv, Types, FlagTypes
<1>6. /\ mls' = [mls EXCEPT ![d] = mls[d]] /\ mls[d] \in MlsRecord
      /\ mls[d].gen <= gen' /\ mls[d].cursor <= Len(control')
  BY <1>2, <1>4, SameMls DEF StewardInv, SameLog
<1>7. groups' \in [Device -> [Generation -> Commits \cup {NoGroup}]]
  <2> HIDE DEF path
  <2> QED
    BY <1>1, <1>2 DEF StewardInv, Types, StoreTypes
<1>8. Types'
  BY <1>2, <1>3, <1>4, <1>5, <1>6, <1>7, TypesOfAStep DEF StewardInv
<1>9. Elsewhere(d) /\ op'[d] = n /\ mls'[d] = mls[d]
  <2> HIDE DEF path
  <2>1. \A e \in Device \ {d} : groups'[e] = groups[e]
    BY <1>2 DEF StewardInv, Types, StoreTypes
  <2>2. Types /\ op' = [op EXCEPT ![d] = n] /\ mls' = [mls EXCEPT ![d] = mls[d]]
    BY <1>2, <1>6 DEF StewardInv
  <2> QED
    BY <2>1, <2>2 DEF Elsewhere, Types, StoreTypes
<1>10. groups'[d][g] = path /\ path # NoGroup
  <2>1. path # NoGroup
    BY <1>1, NoGroupIsNoTree DEF Commits
  <2> HIDE DEF path
  <2> QED
    BY <1>1, <1>2, <2>1 DEF StewardInv, Types, StoreTypes
<1>11. Ready(d)'
  <2>1. CommitReady(d, n)'
    <3>1. /\ n.gen = g /\ g <= gen' /\ groups'[d][g] = Append(n.base, n.commit)
          /\ n.commit = c /\ n.then = then
      BY <1>0, <1>1, <1>4, <1>10 DEF SameLog
    <3>2. then = "send" => groups'[d][mls'[d].gen] # NoGroup
      BY <1>9, <1>10
    <3> HIDE DEF path
    <3> QED
      BY <3>1, <3>2 DEF CommitReady, Adds
  <2> QED
    BY <1>3, <1>9, <2>1 DEF Ready
<1>12. NoNewWelcome(d)
  BY <1>3, <1>9 DEF NoNewWelcome
<1>13. SelfForked(d, path, trees[g])
  <2>1. SelfForked(d, groups[d][g], trees[g]) /\ trees[g] \in Commits
    BY <1>1, Basics DEF StewardInv, Sound, Forks
  <2> QED
    BY <1>1, <2>1, OwnCommitForks
<1>14. g > 0 => g \in 1..gen
  BY <1>1
<1>15. g > 0 /\ ~Lonely(g) => path # <<>> /\ path[1] = trees[g][1]
  <2>1. g > 0 /\ ~Lonely(g) => groups[d][g] # <<>> /\ groups[d][g][1] = trees[g][1]
    BY <1>14 DEF StewardInv, Sound, SameStart
  <2> HIDE DEF path
  <2> QED
    BY <1>1, <2>1
<1>16. g > 0 /\ Lonely(g) => d = Owner
  BY <1>14 DEF StewardInv, Sound, LonelyForGood, Others
<1> HIDE DEF path
<1>17. Sound'
  BY <1>1, <1>2, <1>4, <1>8, <1>9, <1>11, <1>12, <1>13, <1>15, <1>16, GroupStep
<1> QED
  BY <1>8, <1>17 DEF StewardInv

LEMMA RekeyKeeps ==
    ASSUME StewardInv, NEW d \in Device, groups[d][mls[d].gen] # NoGroup,
           NEW what \in {"rekey", "remove"}, NEW who \in SUBSET Device,
           NEW then \in {"done", "send"}, NEW dirty \in BOOLEAN,
           StartCommit(d, mls[d].gen, Commit(d, what, who, {}), then, dirty)
    PROVE  StewardInv'
<1>1. PICK c : c = Commit(d, what, who, {})
  OBVIOUS
<1>2. c \in CommitRecord /\ c.by = d /\ c.what # "boot"
  BY <1>1, CommitType DEF Commit
<1>3. PICK g \in 0..gen : g = mls[d].gen
  BY Basics DEF StewardInv
<1> QED
  BY <1>1, <1>2, <1>3, StartCommitKeeps

LEMMA RekeyChannelKeeps ==
    ASSUME StewardInv, NEW d \in Device, RekeyChannel(d)
    PROVE  StewardInv'
BY RekeyKeeps DEF RekeyChannel, Local

LEMMA AddMemberKeeps ==
    ASSUME StewardInv, NEW x \in Device, AddMember(x)
    PROVE  StewardInv'
<1>1. PICK p \in packages :
          StartCommit(Owner, mls[Owner].gen, Commit(Owner, "add", {x}, {p}), "welcome", FALSE)
  BY DEF AddMember
<1>2. groups[Owner][mls[Owner].gen] # NoGroup /\ x # Owner
  BY DEF AddMember, Local, LeafView
<1>3. PICK c : c = Commit(Owner, "add", {x}, {p})
  OBVIOUS
<1>4. p \in Pkg
  BY DEF StewardInv, Types, PackageTypes
<1>5. c \in CommitRecord /\ c.by = Owner /\ c.what = "add"
  BY <1>3, <1>4, CommitType, StewardConstants DEF Commit
<1>6. Adds(c)
  BY <1>2, <1>3, <1>5 DEF Adds, Others, Commit
<1>7. PICK g \in 0..gen : g = mls[Owner].gen
  BY Basics, StewardConstants DEF StewardInv
<1> QED
  BY <1>1, <1>2, <1>3, <1>5, <1>6, <1>7, StewardConstants, StartCommitKeeps

LEMMA ProactiveRekeyKeeps ==
    ASSUME StewardInv, NEW d \in Device, ProactiveRekey(d)
    PROVE  StewardInv'
<1>1. op[d].at = "cadence"
  BY DEF ProactiveRekey, Holds
<1>2. groups[d][mls[d].gen] # NoGroup
  BY <1>1 DEF StewardInv, Sound, CommandsReady, Ready
<1>3. CASE Goto(d, Idle) /\ UNCHANGED <<logVars, gone, storeVars, stuck, faults>>
  <2>1. LeafTypes' /\ SameLog
    BY <1>3, LogTypesStay DEF StewardInv
  <2>2. PackageTypes'
    BY <1>3, PackageTypesStay DEF StewardInv, logVars, storeVars
  <2>3. FlagTypes'
    BY <1>3 DEF StewardInv, Types, FlagTypes, storeVars
  <2>4. UNCHANGED <<groups, gone, mls>> /\ op' = [op EXCEPT ![d] = Idle]
    BY <1>3 DEF Goto, storeVars
  <2> QED
    BY <2>1, <2>2, <2>3, <2>4, IdleType, SameMls, QuietMove DEF StewardInv
<1>4. CASE StartCommit(d, mls[d].gen, Commit(d, "rekey", {}, {}), "done", FALSE)
  BY <1>2, <1>4, RekeyKeeps
<1> QED
  BY <1>3, <1>4 DEF ProactiveRekey

(* A command waits or goes on with the log, its group and its state file   *)
(* as they are.                                                            *)
LEMMA SendingKeeps ==
    ASSUME StewardInv, NEW d \in Device, groups[d][mls[d].gen] # NoGroup,
           NEW n \in SendOp, n.cursor <= Len(control), op' = [op EXCEPT ![d] = n],
           UNCHANGED <<logVars, gone, storeVars, stuck>>
    PROVE  StewardInv'
<1>1. LeafTypes' /\ SameLog
  BY LogTypesStay DEF StewardInv
<1>2. PackageTypes'
  BY PackageTypesStay DEF StewardInv, logVars, storeVars
<1>3. FlagTypes'
  BY DEF StewardInv, Types, FlagTypes, storeVars
<1>4. UNCHANGED <<groups, mls>>
  BY DEF storeVars
<1>5. n \in Command /\ n.at \in {"send", "resync"}
  BY DEF Command, SendOp
<1>6. op'[d] = n
  BY DEF StewardInv, Types, StoreTypes
<1>7. Ready(d)'
  BY <1>4, <1>5, <1>6 DEF Ready
<1> QED
  BY <1>1, <1>2, <1>3, <1>4, <1>5, <1>7, SameMls, QuietMove DEF StewardInv

LEMMA SendSealedMessageKeeps ==
    ASSUME StewardInv, NEW d \in Device, SendSealedMessage(d)
    PROVE  StewardInv'
<1> DEFINE n == [at |-> "send", repaired |-> FALSE, tries |-> 0, barren |-> 0,
                 cursor |-> mls[d].cursor, dirty |-> FALSE]
<1>1. mls[d].cursor \in Nat /\ mls[d].cursor <= Len(control)
  BY SameMls DEF StewardInv, MlsRecord
<1>2. n \in SendOp /\ n.cursor <= Len(control)
  BY <1>1 DEF SendOp
<1>3. /\ op' = [op EXCEPT ![d] = n] /\ groups[d][mls[d].gen] # NoGroup
      /\ UNCHANGED <<logVars, gone, storeVars, stuck>>
  BY DEF SendSealedMessage, Goto, Local
<1> HIDE DEF n
<1> QED
  BY <1>2, <1>3, SendingKeeps

LEMMA SendSubmitKeeps ==
    ASSUME StewardInv, NEW d \in Device, SendSubmit(d)
    PROVE  StewardInv'
<1>1. op[d].at = "send"
  BY DEF SendSubmit, Holds
<1>2. /\ groups[d][mls[d].gen] # NoGroup /\ op[d] \in SendOp
      /\ op[d].cursor \in Nat /\ op[d].cursor <= Len(control) /\ op[d].dirty \in BOOLEAN
  <2>1. groups[d][mls[d].gen] # NoGroup
    BY <1>1 DEF StewardInv, Sound, CommandsReady, Ready
  <2>2. op[d] \in SendOp
    BY <1>1, CommandByStage, Basics DEF StewardInv
  <2>3. op[d].cursor <= Len(control)
    BY <1>1 DEF StewardInv, Types, Cursors
  <2> QED
    BY <2>1, <2>2, <2>3 DEF SendOp
<1>3. CASE /\ Goto(d, [op[d] EXCEPT !.at = "resync"])
           /\ UNCHANGED <<logVars, gone, storeVars, stuck, faults>>
  <2> DEFINE n == [op[d] EXCEPT !.at = "resync"]
  <2>1. n \in SendOp /\ n.cursor <= Len(control)
    BY <1>2 DEF SendOp
  <2>2. op' = [op EXCEPT ![d] = n]
    BY <1>3 DEF Goto
  <2> HIDE DEF n
  <2> QED
    BY <1>2, <1>3, <2>1, <2>2, SendingKeeps
<1>4. CASE UNCHANGED <<logVars, storeVars, gone>> /\ Fail(d)
  BY <1>4, GivingUp DEF storeVars, StewardInv, Types, FlagTypes
<1>5. CASE StartCommit(d, mls[d].gen, Commit(d, "remove", Dead(d), {}), "send", op[d].dirty)
  <2>1. Dead(d) \in SUBSET Device
    BY DEF Dead, StewardInv, Types, FlagTypes
  <2> QED
    BY <1>2, <1>5, <2>1, RekeyKeeps
<1>6. CASE StartCommit(d, mls[d].gen, Commit(d, "rekey", {}, {}), "send", op[d].dirty)
  BY <1>2, <1>6, RekeyKeeps
<1>7. ASSUME StorePost(d, Local(d, mls[d].gen)), gone' = gone, FlagTypes',
             UNCHANGED <<groups, secrets, published>>,
             NEW n \in IdleOp \cup CadenceOp, op' = [op EXCEPT ![d] = n],
             NEW m \in MlsRecord, mls' = [mls EXCEPT ![d] = m],
             m.gen = mls[d].gen, m.cursor <= Len(control)
      PROVE  StewardInv'
  <2>1. SameLog /\ LeafTypes' /\ packages' \subseteq packages
    BY <1>7 DEF StorePost, SameLog, StewardInv, Types, LeafTypes
  <2>2. PackageTypes'
    BY <1>7, <2>1, PackageTypesStay DEF StewardInv
  <2>3. n \in Command /\ n.at \in {"idle", "cadence"}
    BY <1>7 DEF Command, IdleOp, CadenceOp, Idle
  <2>4. op'[d] = n /\ mls'[d] = m
    BY <1>7 DEF StewardInv, Types, StoreTypes
  <2>5. Ready(d)'
    BY <1>2, <1>7, <2>3, <2>4 DEF Ready
  <2>6. m.gen <= gen
    BY <1>7, SameMls DEF StewardInv
  <2> QED
    BY <1>7, <2>1, <2>2, <2>3, <2>5, <2>6, QuietMove
<1>8. CASE /\ StorePost(d, Local(d, mls[d].gen)) /\ UNCHANGED <<storeVars, gone>>
           /\ Goto(d, Idle) /\ stuck' = stuck \cup {d}
  <2>1. FlagTypes'
    BY <1>8 DEF storeVars, StewardInv, Types, FlagTypes
  <2>2. UNCHANGED <<groups, secrets, published, mls>> /\ op' = [op EXCEPT ![d] = Idle]
    BY <1>8 DEF storeVars, Goto
  <2> QED
    BY <1>7, <1>8, <2>1, <2>2, SameMls DEF StewardInv, IdleOp
<1>9. CASE /\ StorePost(d, Local(d, mls[d].gen)) /\ SendAnswered(d)
           /\ UNCHANGED <<stuck, faults, gone>>
  <2> DEFINE m == [mls[d] EXCEPT !.cursor = op[d].cursor]
             n == [at |-> "cadence", dirty |-> FALSE]
  <2>1. m \in MlsRecord /\ m.gen = mls[d].gen /\ m.cursor <= Len(control)
    BY <1>2, SameMls DEF StewardInv, MlsRecord
  <2>2. n \in CadenceOp
    BY DEF CadenceOp
  <2>3. /\ mls' = [mls EXCEPT ![d] = m] /\ op' = [op EXCEPT ![d] = n]
        /\ UNCHANGED <<groups, secrets, published, opening>>
    BY <1>9 DEF SendAnswered, SetMls, Goto
  <2>4. FlagTypes'
    BY <1>9, <2>3 DEF StewardInv, Types, FlagTypes
  <2> HIDE DEF m, n
  <2> QED
    BY <1>7, <1>9, <2>1, <2>2, <2>3, <2>4
<1> QED
  BY <1>3, <1>4, <1>5, <1>6, <1>8, <1>9 DEF SendSubmit, Submitted, Refused

(* Nothing of the log, the groups and the commands changes. *)
LEMMA BystanderKeeps ==
    ASSUME StewardInv, UNCHANGED <<logVars, groups, secrets, published, mls, op>>,
           gone \subseteq gone', FlagTypes'
    PROVE  StewardInv'
<1>1. LeafTypes' /\ LogTypes' /\ SameLog
  BY LogTypesStay DEF StewardInv
<1>2. PackageTypes'
  BY PackageTypesStay DEF StewardInv, logVars
<1>3. StoreTypes' /\ Cursors'
  BY <1>1 DEF StewardInv, Types, StoreTypes, Cursors, SameLog
<1>4. Types'
  BY <1>1, <1>2, <1>3 DEF Types
<1>5. Elsewhere(Owner) /\ NoNewWelcome(Owner)
  BY DEF Elsewhere, NoNewWelcome
<1>6. Ready(Owner)'
  <2>1. LogGrows /\ gen' = gen
    BY <1>1, SameLogGrows DEF StewardInv, SameLog
  <2> QED
    BY <1>4, <2>1, StewardConstants, ReadyElsewhere DEF StewardInv, Sound
<1>7. Sound'
  BY <1>1, <1>4, <1>5, <1>6, StewardConstants, QuietStep
<1> QED
  BY <1>4, <1>7 DEF StewardInv

LEMMA OpenWithoutStoreKeeps ==
    ASSUME StewardInv, NEW d \in Device, OpenWithoutStore(d)
    PROVE  StewardInv'
<1>1. FlagTypes'
  BY DEF OpenWithoutStore, StewardInv, Types, FlagTypes
<1> QED
  BY <1>1, BystanderKeeps DEF OpenWithoutStore

LEMMA ExpelKeeps ==
    ASSUME StewardInv, NEW x \in Device, Expel(x)
    PROVE  StewardInv'
<1>1. FlagTypes'
  BY DEF Expel, StewardInv, Types, FlagTypes, storeVars
<1> QED
  BY <1>1, BystanderKeeps DEF Expel, storeVars

LEMMA AppClosesKeeps ==
    ASSUME StewardInv, NEW d \in Device, AppCloses(d)
    PROVE  StewardInv'
<1>1. opening' \subseteq Device
  BY DEF AppCloses, StewardInv, Types, FlagTypes
<1> QED
  BY <1>1, GivingUp DEF AppCloses

LEMMA PublishOwnKeyPackageKeeps ==
    ASSUME StewardInv, NEW d \in Device, PublishOwnKeyPackage(d)
    PROVE  StewardInv'
<1> DEFINE n == published[d] + 1
<1>1. /\ packages' = packages \cup {<<d, n>>} /\ published' = [published EXCEPT ![d] = n]
      /\ secrets' = [secrets EXCEPT ![d] = secrets[d] \cup {<<d, n>>}]
      /\ mls' = [mls EXCEPT ![d] = NotJoined] /\ opening' = opening \ {d}
      /\ UNCHANGED <<gone, groups, op, stuck, gen, trees, chained, confirmed, pending, control>>
      /\ op[d].at = "idle"
  BY DEF PublishOwnKeyPackage, StorePackage, SetMls, Holds, StewardInv, Types, PackageTypes
<1>2. SameLog /\ LeafTypes' /\ FlagTypes'
  BY <1>1 DEF SameLog, StewardInv, Types, LeafTypes, FlagTypes
<1>3. PackageTypes'
  <2>1. /\ packages \subseteq Pkg /\ published \in [Device -> Nat]
        /\ \A p \in packages : p[2] \in 1..published[p[1]]
        /\ secrets \in [Device -> SUBSET Pkg]
        /\ \A e \in Device : secrets[e] \subseteq {e} \X (1..published[e])
    BY DEF StewardInv, Types, PackageTypes
  <2>2. n \in Nat /\ <<d, n>> \in Pkg /\ n \in 1..n /\ published[d] \in Nat
        /\ 1..published[d] \subseteq 1..n
    BY <2>1 DEF Pkg
  <2> HIDE DEF n
  <2>3. packages' \subseteq Pkg /\ published' \in [Device -> Nat]
        /\ secrets' \in [Device -> SUBSET Pkg]
    BY <1>1, <2>1, <2>2
  <2>4. ASSUME NEW p \in packages' PROVE p[2] \in 1..published'[p[1]]
    <3>1. p \in Pkg /\ p[1] \in Device
      BY <2>3 DEF Pkg
    <3>2. CASE p \in packages
      <4>1. p[2] \in 1..published[p[1]]
        BY <2>1, <3>2
      <4> QED
        BY <1>1, <2>1, <2>2, <3>1, <4>1
    <3>3. CASE p = <<d, n>>
      BY <1>1, <2>1, <2>2, <3>3
    <3> QED
      BY <1>1, <3>2, <3>3
  <2>5. ASSUME NEW e \in Device PROVE secrets'[e] \subseteq {e} \X (1..published'[e])
    <3>1. CASE e = d
      <4>1. secrets'[e] = secrets[d] \cup {<<d, n>>} /\ published'[e] = n
        BY <1>1, <2>1, <3>1
      <4>2. secrets[d] \subseteq {d} \X (1..n)
        BY <2>1, <2>2
      <4> QED
        BY <2>2, <3>1, <4>1, <4>2
    <3>2. CASE e # d
      <4>1. secrets'[e] = secrets[e] /\ published'[e] = published[e]
        BY <1>1, <2>1, <3>2
      <4> QED
        BY <2>1, <4>1
    <3> QED
      BY <3>1, <3>2
  <2> QED
    BY <2>3, <2>4, <2>5 DEF PackageTypes
<1>4. op[d] \in Command /\ op' = [op EXCEPT ![d] = op[d]]
  BY <1>1 DEF StewardInv, Types, StoreTypes
<1>5. NotJoined \in MlsRecord /\ NotJoined.gen = 0 /\ NotJoined.cursor = 0
  <2>1. 0 \in Generation
    BY StewardConstants DEF Generation
  <2> QED
    BY <2>1 DEF MlsRecord, NotJoined
<1>6. 0 <= gen /\ 0 <= Len(control)
  BY Basics DEF StewardInv
<1> HIDE DEF n
<1> QED
  BY <1>1, <1>2, <1>3, <1>4, <1>5, <1>6, QuietMove

LEMMA ConfirmLeafKeeps ==
    ASSUME StewardInv, NEW d \in Device, ConfirmLeaf(d)
    PROVE  StewardInv'
<1>1. op[d].at = "confirm" /\ gone' = gone
  BY DEF ConfirmLeaf, Holds
<1>2. /\ op[d] \in JoinOp /\ JoinReady(op[d]) /\ op[d].next <= Len(control)
  <2>1. op[d] \in JoinOp
    BY <1>1, CommandByStage, Basics DEF StewardInv
  <2> QED
    BY <1>1, <2>1 DEF StewardInv, Sound, CommandsReady, Ready, Types, Cursors
<1>3. CASE UNCHANGED <<logVars, storeVars>> /\ Fail(d)
  BY <1>1, <1>3, GivingUp DEF storeVars, StewardInv, Types, FlagTypes
<1>4. ASSUME StoreConfirm(d), UNCHANGED <<groups, secrets, published>>
      PROVE  SameLog /\ LeafTypes' /\ PackageTypes'
  <2>1. packages' \subseteq packages
    BY <1>4 DEF StoreConfirm
  <2>2. PackageTypes'
    BY <1>4, <2>1, PackageTypesStay DEF StewardInv
  <2>3. SameLog
    BY <1>4 DEF StoreConfirm, SameLog
  <2>4. LeafTypes'
    BY <1>4 DEF StoreConfirm, StewardInv, Types, LeafTypes
  <2> QED
    BY <2>2, <2>3, <2>4
<1>5. CASE /\ StoreConfirm(d) /\ UNCHANGED storeVars
           /\ Goto(d, Idle) /\ stuck' = stuck \cup {d}
  <2>1. FlagTypes'
    BY <1>1, <1>5 DEF storeVars, StewardInv, Types, FlagTypes
  <2>2. UNCHANGED <<groups, secrets, published, mls>> /\ op' = [op EXCEPT ![d] = Idle]
    BY <1>5 DEF storeVars, Goto
  <2> QED
    BY <1>1, <1>4, <1>5, <2>1, <2>2, SameMls, IdleType, QuietMove DEF StewardInv
<1>6. CASE /\ StoreConfirm(d) /\ ConfirmAnswered(d) /\ UNCHANGED <<stuck, faults>>
           /\ ConfirmAllowed(d, op[d].gen, Local(d, op[d].gen))
  <2>1. PICK n, m : /\ n = [op[d] EXCEPT !.at = "process"]
                    /\ m = [mls[d] EXCEPT !.gen = op[d].gen, !.confirmed = TRUE]
    OBVIOUS
  <2>2. /\ op' = [op EXCEPT ![d] = n] /\ mls' = [mls EXCEPT ![d] = m]
        /\ UNCHANGED <<groups, secrets, published, opening>>
    BY <1>6, <2>1 DEF ConfirmAnswered, SetMls, Goto
  <2>3. FlagTypes'
    BY <1>1, <1>6, <2>2 DEF StewardInv, Types, FlagTypes
  <2>4. op[d].gen = gen
    BY <1>6 DEF ConfirmAllowed
  <2>5. /\ n \in JoinOp /\ n.at = "process" /\ n.next = op[d].next
        /\ n.gen = op[d].gen /\ n.events = op[d].events
    BY <1>2, <2>1 DEF JoinOp
  <2>6. m \in MlsRecord /\ m.gen <= gen /\ m.cursor <= Len(control)
    <3>1. m \in MlsRecord /\ m.gen = op[d].gen /\ m.cursor = mls[d].cursor
      BY <1>2, <2>1, SameMls DEF StewardInv, MlsRecord, JoinOp
    <3> QED
      BY <2>4, <3>1, SameMls, Basics DEF StewardInv
  <2>7. SameLog /\ LeafTypes' /\ PackageTypes'
    BY <1>4, <1>6, <2>2
  <2>8. Ready(d)'
    <3>1. op'[d] = n
      BY <2>2 DEF StewardInv, Types, StoreTypes
    <3>2. gen' = gen /\ control' = control /\ gen \in Nat
      BY <2>7, Basics DEF SameLog, StewardInv
    <3>3. JoinReady(n)'
      BY <1>2, <2>4, <2>5, <3>2 DEF JoinReady
    <3> QED
      BY <2>5, <3>1, <3>3 DEF Ready
  <2>9. n \in Command
    BY <2>5 DEF Command
  <2> QED
    BY <1>1, <1>2, <2>2, <2>3, <2>5, <2>6, <2>7, <2>8, <2>9, QuietMove
<1> QED
  BY <1>1, <1>3, <1>5, <1>6 DEF ConfirmLeaf, Submitted, Refused

-----------------------------------------------------------------------------
(* Following the log. *)

(* Fetched events are events of the log, as are the rest of them. *)
LEMMA EventsFrom ==
    ASSUME NEW events \in Seq(ControlEvent), NEW n \in Nat, n <= Len(events)
    PROVE  LET rest == SubSeq(events, n + 1, Len(events))
           IN  /\ rest \in Seq(ControlEvent) /\ Len(rest) \in Nat
               /\ \A i \in 1..Len(rest) : \E j \in 1..Len(events) : rest[i] = events[j]
<1> DEFINE rest == SubSeq(events, n + 1, Len(events))
<1>1. Len(events) \in Nat /\ \A i \in 1..Len(events) : events[i] \in ControlEvent
  BY LenProperties, ElementOfSeq
<1>2. /\ rest \in Seq(ControlEvent)
      /\ Len(rest) = IF n + 1 <= Len(events) THEN Len(events) - (n + 1) + 1 ELSE 0
      /\ \A i \in 1..(Len(events) - (n + 1) + 1) : rest[i] = events[n + 1 + i - 1]
  BY <1>1, SubSeqProperties
<1>3. ASSUME NEW i \in 1..Len(rest) PROVE \E j \in 1..Len(events) : rest[i] = events[j]
  <2> HIDE DEF rest
  <2>1. i \in 1..(Len(events) - (n + 1) + 1) /\ n + 1 + i - 1 \in 1..Len(events)
    BY <1>1, <1>2
  <2> QED
    BY <1>2, <2>1
<1>4. Len(rest) \in Nat
  BY <1>2, LenProperties
<1> QED
  BY <1>2, <1>3, <1>4

FromTheLog(events) ==
    /\ events \in Seq(ControlEvent)
    /\ \A i \in 1..Len(events) : \E j \in 1..Len(control) : events[i] = control[j]

LEMMA FetchedFromTheLog ==
    ASSUME Types, NEW cursor \in Nat, cursor <= Len(control)
    PROVE  FromTheLog(Fetched(cursor))
BY EventsFrom DEF Types, LogTypes, Fetched, FromTheLog

(* A group that starts as its generation does and left the tree, if it     *)
(* did, by its device's own commits, still does after catching up.         *)
LEMMA CatchingUp ==
    ASSUME StewardInv, NEW d \in Device, NEW g \in 0..gen, groups[d][g] # NoGroup,
           NEW events, FromTheLog(events), NEW after, after = After(g, groups[d][g], events)
    PROVE  /\ after.path \in Commits /\ after.ok \in BOOLEAN
           /\ SelfForked(d, after.path, trees[g])
           /\ g > 0 /\ ~Lonely(g) => after.path # <<>> /\ after.path[1] = trees[g][1]
           /\ g > 0 /\ Lonely(g) => d = Owner
<1> DEFINE Starts(p) == g > 0 /\ ~Lonely(g) => p # <<>> /\ p[1] = trees[g][1]
           S == {p \in Commits : SelfForked(d, p, trees[g]) /\ Starts(p)}
<1>1. /\ g \in Generation /\ trees[g] \in Commits /\ groups[d][g] \in Commits
      /\ g \in Nat /\ gen \in Nat /\ Len(events) \in Nat
      /\ g > 0 => g \in 1..gen
      /\ \A i \in 1..Len(control) : control[i] \in ControlEvent
  BY Basics, LenProperties DEF StewardInv, FromTheLog
<1>2. groups[d][g] \in S
  BY <1>1 DEF StewardInv, Sound, Forks, SameStart
<1>3. g > 0 /\ Lonely(g) => d = Owner
  BY <1>1 DEF StewardInv, Sound, LonelyForGood, Others
<1>4. ASSUME NEW p \in S, NEW i \in 1..Len(events), events[i].kind = "commit",
             Applies(g, p, events[i])
      PROVE  Append(p, events[i].commit) \in S
  <2>1. PICK e \in ControlEvent : e = events[i] /\ e.kind = "commit" /\ SoundCommit(e)
    <3>1. PICK j \in 1..Len(control) : events[i] = control[j]
      BY DEF FromTheLog
    <3> QED
      BY <1>1, <1>4, <3>1 DEF StewardInv, Sound, SoundControl
  <2>2. e.commit \in CommitRecord /\ p \in Commits
    BY <2>1, EventByKind DEF CommitEvent
  <2>3. /\ Append(p, e.commit) \in Commits /\ Append(p, e.commit) # <<>>
        /\ p # <<>> => Append(p, e.commit)[1] = p[1]
    <3>1. p # <<>> => 1 \in 1..Len(p)
      BY <2>2, EmptySeq, LenProperties DEF Commits
    <3> QED
      BY <2>2, <3>1, AppendPointwise
  <2>4. e.base = p /\ e.gen = g
    BY <1>4, <2>1 DEF Applies
  <2>5. SelfForked(d, Append(p, e.commit), trees[g])
    <3>1. CASE IsPrefix(Append(p, e.commit), trees[g])
      BY <1>1, <2>3, <3>1, OnTheTree
    <3>2. CASE e.commit.by = Owner /\ Lonely(g)
      <4>1. d = Owner
        BY <1>1, <1>3, <3>2 DEF Lonely
      <4>2. SelfForked(d, p, trees[g])
        OBVIOUS
      <4> QED
        BY <1>1, <2>2, <3>2, <4>1, <4>2, OwnCommitForks
    <3> QED
      BY <2>1, <2>4, <3>1, <3>2 DEF SoundCommit
  <2>6. Starts(p) => Starts(Append(p, e.commit))
    BY <2>3
  <2> QED
    BY <2>1, <2>3, <2>5, <2>6
<1>5. after.path \in S /\ after.ok \in BOOLEAN
  <2> HIDE DEF S
  <2> QED
    BY <1>1, <1>2, <1>4, AfterStays
<1> QED
  BY <1>3, <1>5

LEMMA GroupMove ==
    ASSUME StewardInv, NEW d \in Device, SameLog, gone' = gone,
           LeafTypes', FlagTypes', PackageTypes',
           NEW n \in Command, op' = [op EXCEPT ![d] = n], n.at # "welcome",
           n.at \in {"send", "resync"} => n.cursor <= Len(control),
           n.at \in {"confirm", "process"} => n.next <= Len(control),
           NEW m \in MlsRecord, mls' = [mls EXCEPT ![d] = m],
           m.gen <= gen, m.cursor <= Len(control),
           NEW g \in 0..gen, NEW path \in Commits, groups' = [groups EXCEPT ![d][g] = path],
           SelfForked(d, path, trees[g]),
           g > 0 /\ ~Lonely(g) => path # <<>> /\ path[1] = trees[g][1],
           g > 0 /\ Lonely(g) => d = Owner,
           n.at \in {"send", "resync", "cadence"} => groups[d][m.gen] # NoGroup,
           n.at \in {"confirm", "process"} => JoinReady(n),
           n.at \in {"idle", "send", "resync", "cadence", "confirm", "process"}
    PROVE  StewardInv'
<1>1. LogTypes' /\ gen <= gen' /\ Len(control) <= Len(control')
  BY SameLogTypes DEF StewardInv
<1>2. gen' = gen /\ control' = control
  BY DEF SameLog
<1>3. g \in Generation /\ path # NoGroup
  BY Basics, NoGroupIsNoTree DEF StewardInv, Commits
<1>4. groups \in [Device -> [Generation -> Commits \cup {NoGroup}]]
  BY DEF StewardInv, Types, StoreTypes
<1>5. Types'
  <2>1. groups' \in [Device -> [Generation -> Commits \cup {NoGroup}]]
    BY <1>3, <1>4
  <2> QED
    BY <1>1, <1>2, <2>1, TypesOfAStep DEF StewardInv
<1>6. Elsewhere(d) /\ op'[d] = n /\ mls'[d] = m
  BY <1>4 DEF Elsewhere, StewardInv, Types, StoreTypes
<1>7. \A k \in Generation : groups[d][k] # NoGroup => groups'[d][k] # NoGroup
  BY <1>3, <1>4
<1>8. Ready(d)'
  <2>1. n.at \in {"send", "resync", "cadence"} => groups'[d][m.gen] # NoGroup
    BY <1>7 DEF MlsRecord
  <2>2. n.at \in {"confirm", "process"} => JoinReady(n)'
    BY <1>2 DEF JoinReady
  <2> QED
    BY <1>6, <2>1, <2>2 DEF Ready
<1>9. NoNewWelcome(d)
  BY <1>6 DEF NoNewWelcome
<1>10. Sound'
  BY <1>5, <1>6, <1>8, <1>9, GroupStep
<1> QED
  BY <1>5, <1>10 DEF StewardInv

LEMMA ResyncKeeps ==
    ASSUME StewardInv, NEW d \in Device, Resync(d)
    PROVE  StewardInv'
<1>1. op[d].at = "resync"
  BY DEF Resync, Holds
<1>2. /\ groups[d][mls[d].gen] # NoGroup /\ op[d] \in SendOp
      /\ op[d].cursor \in Nat /\ op[d].cursor <= Len(control) /\ Len(control) \in Nat
  <2>1. groups[d][mls[d].gen] # NoGroup
    BY <1>1 DEF StewardInv, Sound, CommandsReady, Ready
  <2>2. op[d] \in SendOp
    BY <1>1, CommandByStage, Basics DEF StewardInv
  <2>3. op[d].cursor <= Len(control)
    BY <1>1 DEF StewardInv, Types, Cursors
  <2> QED
    BY <2>1, <2>2, <2>3, Basics DEF SendOp, StewardInv
<1>3. PICK g \in 0..gen : g = mls[d].gen
  BY Basics DEF StewardInv
<1>4. PICK after : after = After(g, groups[d][g], Fetched(op[d].cursor))
  OBVIOUS
<1>5. /\ after.path \in Commits /\ SelfForked(d, after.path, trees[g])
      /\ g > 0 /\ ~Lonely(g) => after.path # <<>> /\ after.path[1] = trees[g][1]
      /\ g > 0 /\ Lonely(g) => d = Owner
  <2>1. FromTheLog(Fetched(op[d].cursor))
    BY <1>2, FetchedFromTheLog DEF StewardInv
  <2> QED
    BY <1>2, <1>3, <1>4, <2>1, CatchingUp
<1>6. PICK barren : barren = IF after.path = groups[d][g] THEN Counted(op[d].barren) ELSE 0
  OBVIOUS
<1>7. /\ groups' = [groups EXCEPT ![d][g] = after.path]
      /\ IF ~after.ok \/ GivesUp(barren, Counted(op[d].tries))
         THEN Fail(d)
         ELSE /\ Goto(d, [op[d] EXCEPT !.at = "send", !.tries = Counted(@), !.barren = barren,
                                       !.cursor = Len(control)])
              /\ UNCHANGED stuck
      /\ UNCHANGED <<logVars, gone, secrets, published, mls, opening>>
  BY <1>3, <1>4, <1>6 DEF Resync, Local
<1>8. PICK n \in {Idle} \cup SendOp :
          /\ op' = [op EXCEPT ![d] = n]
          /\ n \in SendOp => n.cursor <= Len(control)
          /\ stuck' \subseteq Device
  <2>1. CASE Fail(d)
    <3>1. op' = [op EXCEPT ![d] = Idle] /\ stuck' \subseteq Device
      BY <2>1 DEF Fail, Goto, StewardInv, Types, FlagTypes
    <3>2. Idle \notin SendOp
      BY DEF Idle, SendOp
    <3> QED
      BY <3>1, <3>2
  <2>2. CASE ~Fail(d)
    <3> DEFINE n == [op[d] EXCEPT !.at = "send", !.tries = @ + 1, !.barren = barren,
                                  !.cursor = Len(control)]
    <3>1. op' = [op EXCEPT ![d] = n] /\ stuck' \subseteq Device
      BY <1>7, <2>2 DEF Goto, Counted, StewardInv, Types, FlagTypes
    <3>2. barren \in Nat
      BY <1>2, <1>6 DEF SendOp, Counted
    <3>3. n \in SendOp /\ n.cursor = Len(control)
      <4>1. op[d].tries + 1 \in Nat
        BY <1>2 DEF SendOp
      <4>2. [op[d] EXCEPT !.at = "send"] \in SendOp
        BY <1>2 DEF SendOp
      <4>3. ASSUME NEW o \in SendOp, NEW t \in Nat
            PROVE  [[[o EXCEPT !.tries = t] EXCEPT !.barren = barren] EXCEPT
                         !.cursor = Len(control)] \in SendOp
        BY <1>2, <3>2 DEF SendOp
      <4>4. n = [[[[op[d] EXCEPT !.at = "send"] EXCEPT !.tries = op[d].tries + 1]
                     EXCEPT !.barren = barren] EXCEPT !.cursor = Len(control)]
        BY <1>2 DEF SendOp
      <4>5. n \in SendOp
        BY <4>1, <4>2, <4>3, <4>4
      <4> QED
        BY <1>2, <4>5 DEF SendOp
    <3> HIDE DEF n
    <3>4. n \in {Idle} \cup SendOp /\ n.cursor <= Len(control)
      BY <1>2, <3>3
    <3> QED
      BY <3>1, <3>4
  <2> QED
    BY <2>1, <2>2
<1>9. /\ n \in Command /\ n.at \in {"idle", "send", "resync"}
      /\ n.at \in {"send", "resync"} => n.cursor <= Len(control)
  BY <1>8, IdleType DEF Command, SendOp
<1>10. SameLog /\ LeafTypes' /\ FlagTypes' /\ PackageTypes'
  <2>1. SameLog /\ LeafTypes'
    BY <1>7, LogTypesStay DEF StewardInv
  <2>2. PackageTypes'
    BY <1>7, PackageTypesStay DEF StewardInv, logVars
  <2>3. FlagTypes'
    BY <1>7, <1>8 DEF StewardInv, Types, FlagTypes
  <2> QED
    BY <2>1, <2>2, <2>3
<1>11. mls' = [mls EXCEPT ![d] = mls[d]]
  BY <1>7, SameMls DEF StewardInv
<1> QED
  BY <1>2, <1>3, <1>5, <1>7, <1>8, <1>9, <1>10, <1>11, SameMls, GroupMove DEF StewardInv

LEMMA ProcessRestKeeps ==
    ASSUME StewardInv, NEW d \in Device, NEW g \in 0..gen, NEW events, FromTheLog(events),
           NEW next \in Nat, next <= Len(control), NEW opened \in BOOLEAN,
           ProcessRest(d, g, events, next, opened, mls[d]),
           UNCHANGED <<logVars, gone, published>>
    PROVE  StewardInv'
<1>1. PICK after : after = IF groups[d][g] = NoGroup THEN [path |-> NoGroup, ok |-> TRUE]
                           ELSE After(g, groups[d][g], events)
  OBVIOUS
<1>2. /\ groups' = [groups EXCEPT ![d][g] = after.path] /\ secrets' = secrets
      /\ IF ~after.ok
         THEN Fail(d) /\ UNCHANGED <<mls, opening>>
         ELSE /\ SetMls(d, [mls[d] EXCEPT !.cursor = next])
              /\ Goto(d, Idle)
              /\ opening' = IF opened /\ ~mls[d].confirmed THEN opening \cup {d} ELSE opening
              /\ UNCHANGED stuck
  BY <1>1 DEF ProcessRest, Local
<1>3. op' = [op EXCEPT ![d] = Idle] /\ FlagTypes'
  BY <1>2 DEF Fail, Goto, StewardInv, Types, FlagTypes
<1>4. PICK m \in MlsRecord : /\ mls' = [mls EXCEPT ![d] = m]
                             /\ m.gen <= gen /\ m.cursor <= Len(control)
  <2>1. CASE mls' = mls
    BY <2>1, SameMls DEF StewardInv
  <2>2. CASE SetMls(d, [mls[d] EXCEPT !.cursor = next])
    <3> DEFINE m == [mls[d] EXCEPT !.cursor = next]
    <3>1. m \in MlsRecord /\ m.gen = mls[d].gen /\ m.cursor = next
      BY SameMls DEF StewardInv, MlsRecord
    <3>2. mls' = [mls EXCEPT ![d] = m]
      BY <2>2 DEF SetMls
    <3>3. m.gen <= gen
      BY <3>1, SameMls DEF StewardInv
    <3> HIDE DEF m
    <3> QED
      BY <3>1, <3>2, <3>3
  <2> QED
    BY <1>2, <2>1, <2>2
<1>5. SameLog /\ LeafTypes' /\ PackageTypes'
  <2>1. SameLog /\ LeafTypes'
    BY LogTypesStay DEF StewardInv
  <2> QED
    BY <1>2, <2>1, PackageTypesStay DEF StewardInv, logVars
<1>6. CASE groups[d][g] = NoGroup
  <2>1. groups' = groups
    <3>1. g \in Generation
      BY Basics DEF StewardInv
    <3> QED
      BY <1>1, <1>2, <1>6, <3>1 DEF StewardInv, Types, StoreTypes
  <2> QED
    BY <1>3, <1>4, <1>5, <2>1, IdleType, QuietMove
<1>7. CASE groups[d][g] # NoGroup
  <2>1. /\ after.path \in Commits /\ SelfForked(d, after.path, trees[g])
        /\ g > 0 /\ ~Lonely(g) => after.path # <<>> /\ after.path[1] = trees[g][1]
        /\ g > 0 /\ Lonely(g) => d = Owner
    BY <1>1, <1>7, CatchingUp
  <2> QED
    BY <1>2, <1>3, <1>4, <1>5, <2>1, IdleType, GroupMove
<1> QED
  BY <1>6, <1>7

LEMMA ProcessOnKeeps ==
    ASSUME StewardInv, NEW d \in Device, ProcessOn(d)
    PROVE  StewardInv'
<1>1. op[d].at = "process"
  BY DEF ProcessOn, Holds
<1>2. /\ op[d] \in JoinOp /\ JoinReady(op[d]) /\ op[d].next <= Len(control)
  <2>1. op[d] \in JoinOp
    BY <1>1, CommandByStage, Basics DEF StewardInv
  <2> QED
    BY <1>1, <2>1 DEF StewardInv, Sound, CommandsReady, Ready, Types, Cursors
<1>3. /\ FromTheLog(op[d].events) /\ op[d].next \in Nat /\ op[d].opened \in BOOLEAN
      /\ op[d].gen \in 0..gen
  <2>1. op[d].gen \in Nat /\ gen \in Nat /\ op[d].gen <= gen
    BY <1>1, <1>2, Basics DEF JoinOp, JoinReady, StewardInv
  <2> QED
    BY <1>2, <2>1 DEF FromTheLog, JoinOp, JoinReady
<1>4. /\ ProcessRest(d, op[d].gen, op[d].events, op[d].next, op[d].opened, mls[d])
      /\ UNCHANGED <<logVars, gone, published>>
  BY DEF ProcessOn
<1>5. PICK g, events, next, opened :
          g = op[d].gen /\ events = op[d].events /\ next = op[d].next /\ opened = op[d].opened
  OBVIOUS
<1>6. /\ g \in 0..gen /\ FromTheLog(events) /\ next \in Nat /\ next <= Len(control)
      /\ opened \in BOOLEAN
  BY <1>2, <1>3, <1>5
<1>7. ProcessRest(d, g, events, next, opened, mls[d])
  BY <1>4, <1>5
<1> QED
  BY <1>4, <1>6, <1>7, ProcessRestKeeps

(* Joining by a Welcome of the log: into the tree of a generation, or into *)
(* the group the owner has staged for the next.                            *)
LEMMA JoinKeeps ==
    ASSUME StewardInv, NEW d \in Device, op[d].at = "idle", NEW e \in ControlEvent,
           \E j \in 1..Len(control) : e = control[j],
           MyWelcome(d, e),
           NEW events, FromTheLog(events), NEW opened \in BOOLEAN,
           JoinChannel(d, e, [events |-> events, next |-> Len(control), opened |-> opened]),
           UNCHANGED <<logVars, gone, published>>
    PROVE  StewardInv'
<1>1. CASE Fail(d) /\ UNCHANGED <<groups, secrets, mls, opening>>
  BY <1>1, GivingUp DEF StewardInv, Types, FlagTypes
<1>2. PICK n : n = [at |-> "confirm", gen |-> e.gen, events |-> events,
                    next |-> Len(control), opened |-> opened, dirty |-> FALSE]
  OBVIOUS
<1>3. CASE /\ groups' = [groups EXCEPT ![d][e.gen] = e.tree]
           /\ secrets' = [secrets EXCEPT ![d] = secrets[d] \ {e.pkg}]
           /\ op' = [op EXCEPT ![d] = n] /\ UNCHANGED <<mls, opening, stuck>>
  <2>1. /\ e \in WelcomeEvent /\ SoundWelcome(e) /\ e.for = d
        /\ e.gen \in Generation /\ e.tree \in Commits
    BY EventByKind DEF MyWelcome, StewardInv, Sound, SoundControl, WelcomeEvent
  <2>2. d \in Others /\ e.tree # <<>> /\ gen \in Nat /\ e.gen \in Nat /\ Len(control) \in Nat
    BY <2>1, Basics DEF SoundWelcome, Others, StewardInv
  <2>3. SameLog /\ LeafTypes' /\ LogTypes' /\ gen <= gen' /\ Len(control) <= Len(control')
        /\ gen' = gen /\ control' = control
    BY LogTypesStay DEF StewardInv, SameLog
  <2>4. PackageTypes'
    BY <1>3 DEF logVars, StewardInv, Types, PackageTypes
  <2>5. FlagTypes'
    BY <1>3 DEF StewardInv, Types, FlagTypes
  <2>6. n \in JoinOp /\ n \in Command
    BY <1>2, <2>1, <2>2 DEF JoinOp, Command, FromTheLog
  <2>7. mls' = [mls EXCEPT ![d] = mls[d]]
    BY <1>3, SameMls DEF StewardInv
  <2>8. e.gen <= gen + 1 /\ JoinReady(n)
    <3>1. e.gen <= gen + 1
      BY <2>1, <2>2 DEF SoundWelcome
    <3> QED
      BY <1>2, <3>1 DEF JoinReady, FromTheLog
  <2>9. CASE e.gen <= gen
    <3>1. PICK g \in 0..gen : g = e.gen
      BY <2>2, <2>9
    <3>2. IsPrefix(e.tree, trees[g]) /\ trees[g] \in Commits
      BY <2>1, <2>2, <2>9, <3>1, Basics DEF SoundWelcome, StewardInv
    <3>3. SelfForked(d, e.tree, trees[g])
      BY <2>1, <3>2, OnTheTree
    <3>4. e.tree[1] = trees[g][1]
      <4>1. 1 \in 1..Len(e.tree)
        BY <2>1, <2>2, EmptySeq, LenProperties DEF Commits
      <4> QED
        BY <2>1, <3>2, <4>1, PrefixPointwise
    <3>5. ~(g > 0 /\ Lonely(g))
      <4>1. g > 0 => g \in 1..gen
        BY <2>2
      <4> QED
        BY <3>1, <4>1 DEF StewardInv, Sound, LonelyForGood, MyWelcome
    <3>6. n.at = "confirm" /\ n.next <= Len(control)
      BY <1>2, <2>2
    <3>7. groups' = [groups EXCEPT ![d][g] = e.tree]
      BY <1>3, <3>1
    <3>8. mls[d] \in MlsRecord /\ mls[d].gen <= gen /\ mls[d].cursor <= Len(control)
      BY SameMls DEF StewardInv
    <3> QED
      BY <1>3, <2>1, <2>2, <2>3, <2>4, <2>5, <2>6, <2>7, <2>8, <3>3, <3>4, <3>5, <3>6, <3>7,
         <3>8, GroupMove
  <2>10. CASE e.gen = gen + 1
    <3>1. e.tree = groups[Owner][gen + 1] /\ gen + 1 \in Generation
      BY <2>1, <2>2, <2>10 DEF SoundWelcome
    <3>2. groups[Owner][gen + 1] # NoGroup /\ groups[Owner][gen + 1] # <<>>
      BY <2>1, <2>2, <3>1, NoGroupIsNoTree DEF Commits
    <3>3. groups' = [groups EXCEPT ![d][gen + 1] = groups[Owner][gen + 1]]
      BY <1>3, <2>10, <3>1
    <3>4. groups \in [Device -> [Generation -> Commits \cup {NoGroup}]]
      BY DEF StewardInv, Types, StoreTypes
    <3>5. Types'
      <4>1. groups' \in [Device -> [Generation -> Commits \cup {NoGroup}]]
        BY <1>3, <2>1, <3>4
      <4>2. n.at = "confirm" /\ n.next <= Len(control')
        BY <1>2, <2>2, <2>3
      <4>3. mls[d] \in MlsRecord /\ mls[d].gen <= gen' /\ mls[d].cursor <= Len(control')
        BY <2>3, SameMls DEF StewardInv
      <4> QED
        BY <1>3, <2>3, <2>4, <2>5, <2>6, <2>7, <4>1, <4>2, <4>3, TypesOfAStep DEF StewardInv
    <3>6. Elsewhere(d) /\ op'[d] = n
      BY <1>3, <3>4 DEF Elsewhere, StewardInv, Types, StoreTypes
    <3>7. Ready(d)' /\ NoNewWelcome(d)
      <4>1. JoinReady(n)'
        BY <2>3, <2>8 DEF JoinReady
      <4> QED
        BY <1>2, <3>6, <4>1 DEF Ready, NoNewWelcome
    <3>8. Sound'
      BY <2>2, <2>3, <3>1, <3>2, <3>3, <3>5, <3>6, <3>7, JoinAheadStep
    <3> QED
      BY <3>5, <3>8 DEF StewardInv
  <2> QED
    BY <2>2, <2>8, <2>9, <2>10
<1> QED
  BY <1>1, <1>2, <1>3 DEF JoinChannel, Goto

LEMMA JoinFound ==
    ASSUME NEW d, NEW path, NEW events \in Seq(ControlEvent), UpToJoin(d, path, events) # 0
    PROVE  /\ UpToJoin(d, path, events) \in 1..Len(events)
           /\ MyWelcome(d, events[UpToJoin(d, path, events)])
<1> DEFINE Mine == {i \in DOMAIN events : MyWelcome(d, events[i])}
           First(i) == i \in Mine /\ \A j \in 1..(i - 1) : ~MyWelcome(d, events[j])
<1>1. DOMAIN events = 1..Len(events) /\ Len(events) \in Nat
  BY LenProperties
<1>2. Mine # {} /\ Mine \in SUBSET Nat
  BY <1>1 DEF UpToJoin
<1>3. PICK i \in Mine : \A j \in Mine : i <= j
  <2> HIDE DEF Mine
  <2> QED
    BY <1>2, LeastOf
<1>4. First(i)
  <2>1. i \in 1..Len(events) /\ \A j \in 1..(i - 1) : j \in DOMAIN events /\ ~(i <= j)
    BY <1>1
  <2> QED
    BY <1>3, <2>1
<1>5. UpToJoin(d, path, events) = CHOOSE k \in DOMAIN events :
            MyWelcome(d, events[k]) /\ \A j \in 1..(k - 1) : ~MyWelcome(d, events[j])
  BY DEF UpToJoin
<1> QED
  BY <1>1, <1>4, <1>5

LEMMA ProcessMlsControlEventsKeeps ==
    ASSUME StewardInv, NEW d \in Device, NEW opened \in BOOLEAN,
           ProcessMlsControlEvents(d, opened)
    PROVE  StewardInv'
<1>1. PICK g \in 0..gen : g = mls[d].gen
  BY Basics DEF StewardInv
<1>2. PICK events : events = Fetched(mls[d].cursor)
  OBVIOUS
<1>3. PICK join : join = UpToJoin(d, groups[d][g], events)
  OBVIOUS
<1>4. FromTheLog(events) /\ Len(control) \in Nat /\ Len(control) <= Len(control)
      /\ \A j \in 1..Len(control) : control[j] \in ControlEvent
  BY <1>2, FetchedFromTheLog, SameMls, Basics DEF StewardInv, MlsRecord
<1>5. op[d].at = "idle" /\ UNCHANGED <<logVars, gone, published>>
  BY DEF ProcessMlsControlEvents, Holds
<1>6. CASE join = 0
  <2>1. ProcessRest(d, g, events, Len(control), opened, mls[d])
    BY <1>1, <1>2, <1>3, <1>6 DEF ProcessMlsControlEvents, Local
  <2> QED
    BY <1>4, <1>5, <2>1, ProcessRestKeeps
<1>7. CASE join # 0
  <2>1. join \in 1..Len(events) /\ MyWelcome(d, events[join])
    BY <1>3, <1>4, <1>7, JoinFound DEF FromTheLog
  <2>2. PICK e : e = events[join]
    OBVIOUS
  <2>3. PICK rest : rest = SubSeq(events, join + 1, Len(events))
    OBVIOUS
  <2>4. (\E j \in 1..Len(control) : e = control[j]) /\ e \in ControlEvent
    BY <1>4, <2>1, <2>2 DEF FromTheLog
  <2>5. FromTheLog(rest)
    <3>1. join \in Nat /\ join <= Len(events) /\ events \in Seq(ControlEvent)
      BY <1>4, <2>1, LenProperties DEF FromTheLog
    <3>2. /\ rest \in Seq(ControlEvent)
          /\ \A i \in 1..Len(rest) : \E j \in 1..Len(events) : rest[i] = events[j]
      BY <2>3, <3>1, EventsFrom
    <3> QED
      BY <1>4, <3>2 DEF FromTheLog
  <2>6. JoinChannel(d, e, [events |-> rest, next |-> Len(control), opened |-> opened])
    BY <1>1, <1>2, <1>3, <1>7, <2>2, <2>3 DEF ProcessMlsControlEvents, Local
  <2> QED
    BY <1>5, <2>1, <2>2, <2>4, <2>5, <2>6, JoinKeeps
<1> QED
  BY <1>6, <1>7

LEMMA ResetGroupKeeps ==
    ASSUME StewardInv, ResetGroup
    PROVE  StewardInv'
<1> DEFINE Members == {x \in Device \ {Owner} : x \notin gone}
           Newest(x) == CHOOSE p \in packages :
                            p[1] = x /\ \A q \in packages : q[1] = x => q[2] <= p[2]
<1>0. Owner \in Device /\ gen \in Nat /\ mls[Owner].gen \in 0..gen /\ op[Owner].at = "idle"
  BY Basics, StewardConstants DEF StewardInv, ResetGroup, Holds
<1>1. PICK c : c = Commit(Owner, "reset", Members, {Newest(x) : x \in Members})
  OBVIOUS
<1>2. mls[Owner].gen = gen /\ gen + 1 \in Generation /\ groups[Owner][gen + 1] = NoGroup
  <2>1. groups[Owner][mls[Owner].gen + 1] = NoGroup /\ mls[Owner].gen < MaxGeneration
    BY DEF ResetGroup, Local
  <2>2. mls[Owner].gen + 1 \notin 0..gen
    BY <2>1 DEF StewardInv, Sound, OwnersGroups
  <2>3. mls[Owner].gen = gen
    BY <1>0, <2>2
  <2> QED
    BY <1>0, <2>1, <2>3, StewardConstants DEF Generation
<1>3. PICK path : path = IF Members = {} THEN <<>> ELSE <<c>>
  OBVIOUS
<1>4. PICK n : n = [at |-> "reset", gen |-> gen + 1, commit |-> c, left |-> Members,
                    dirty |-> FALSE]
  OBVIOUS
<1>5. /\ groups' = [groups EXCEPT ![Owner][gen + 1] = path] /\ op' = [op EXCEPT ![Owner] = n]
      /\ UNCHANGED <<logVars, gone, secrets, published, mls, opening, stuck>>
      /\ \A x \in Members : \E p \in packages : p[1] = x
  BY <1>1, <1>2, <1>3, <1>4 DEF ResetGroup, Goto
<1>6. ASSUME NEW x \in Members PROVE Newest(x) \in packages
  <2> DEFINE Offered == {p \in packages : p[1] = x}
             Age(p) == published[x] - p[2]
             Ages == {Age(p) : p \in Offered}
  <2>1. published[x] \in Nat /\ \A p \in Offered : p[2] \in Nat /\ p[2] <= published[x]
    BY DEF StewardInv, Types, PackageTypes, Pkg
  <2>2. Ages \in SUBSET Nat /\ Ages # {}
    BY <1>5, <2>1
  <2>3. PICK a \in Ages : \A b \in Ages : a <= b
    <3> HIDE DEF Ages
    <3> QED
      BY <2>2, LeastOf
  <2>4. PICK p \in Offered : a = Age(p)
    OBVIOUS
  <2>5. ASSUME NEW q \in packages, q[1] = x PROVE q[2] <= p[2]
    <3>1. q \in Offered /\ Age(q) \in Ages
      BY <2>5
    <3>2. Age(p) <= Age(q)
      BY <2>3, <2>4, <3>1
    <3> QED
      BY <2>1, <3>1, <3>2
  <2>6. p \in packages /\ p[1] = x /\ \A q \in packages : q[1] = x => q[2] <= p[2]
    BY <2>5
  <2> QED
    BY <2>6
<1>7. c \in CommitRecord /\ c.by = Owner /\ c.who = Members /\ Members \in SUBSET Device
  <2>1. {Newest(x) : x \in Members} \in SUBSET Pkg
    BY <1>6 DEF StewardInv, Types, PackageTypes
  <2>2. Members \in SUBSET Device
    OBVIOUS
  <2> HIDE DEF Members, Newest
  <2>3. c \in CommitRecord
    BY <1>0, <1>1, <2>1, <2>2, CommitType
  <2> QED
    BY <1>1, <2>2, <2>3 DEF Commit
<1>8. path \in Commits /\ path = IF c.who = {} THEN <<>> ELSE <<c>>
  <2> HIDE DEF Members
  <2> QED
    BY <1>3, <1>7 DEF Commits
<1>9. n \in Command /\ n.at = "reset" /\ n.gen = gen + 1 /\ n.commit = c /\ n.left = c.who
  <2> HIDE DEF Members
  <2> QED
    BY <1>2, <1>4, <1>7 DEF Command, ResetOp
<1>10. LogTypes' /\ LeafTypes' /\ gen <= gen' /\ Len(control) <= Len(control') /\ SameLog
       /\ gen' = gen /\ control' = control
  BY <1>5, LogTypesStay DEF StewardInv, SameLog
<1>11. PackageTypes' /\ FlagTypes'
  <2>1. packages' \subseteq packages
    BY <1>5 DEF logVars
  <2> QED
    BY <1>5, <2>1, PackageTypesStay DEF StewardInv, Types, FlagTypes
<1>12. /\ mls' = [mls EXCEPT ![Owner] = mls[Owner]] /\ mls[Owner] \in MlsRecord
       /\ mls[Owner].gen <= gen' /\ mls[Owner].cursor <= Len(control')
  BY <1>0, <1>5, <1>10, SameMls DEF StewardInv
<1>13. groups \in [Device -> [Generation -> Commits \cup {NoGroup}]]
  BY DEF StewardInv, Types, StoreTypes
<1>14. Types'
  <2>1. groups' \in [Device -> [Generation -> Commits \cup {NoGroup}]]
    BY <1>5, <1>8, <1>13
  <2> QED
    BY <1>0, <1>5, <1>9, <1>10, <1>11, <1>12, <2>1, TypesOfAStep DEF StewardInv
<1>15. Elsewhere(Owner) /\ op'[Owner] = n
  BY <1>0, <1>5, <1>13 DEF Elsewhere, StewardInv, Types, StoreTypes
<1>16. Ready(Owner)' /\ NoNewWelcome(Owner)
  <2>1. groups'[Owner][gen + 1] = path
    BY <1>0, <1>2, <1>5, <1>13
  <2>2. c.who \subseteq Others
    BY <1>7 DEF Others
  <2>3. ResetReady(Owner, n)'
    BY <1>7, <1>8, <1>9, <1>10, <2>1, <2>2 DEF ResetReady, Others
  <2> QED
    BY <1>9, <1>15, <2>3 DEF Ready, NoNewWelcome
<1>17. Sound'
  BY <1>2, <1>5, <1>10, <1>14, <1>15, <1>16, StageStep
<1> QED
  BY <1>14, <1>17 DEF StewardInv

(* The log takes the reset, whether or not the owner hears of it. *)
LEMMA ResetStored ==
    ASSUME StewardInv, op[Owner].at = "reset", op[Owner].gen = gen + 1,
           op[Owner].commit.who = {x \in Device \ {Owner} : x \notin gone},
           StoreReset(op[Owner].commit), UNCHANGED <<gone, groups, secrets, published>>,
           FlagTypes', op' = [op EXCEPT ![Owner] = Idle],
           NEW m \in MlsRecord, mls' = [mls EXCEPT ![Owner] = m],
           m.gen <= gen + 1, m.cursor <= Len(control)
    PROVE  StewardInv'
<1>1. PICK c : c = op[Owner].commit
  OBVIOUS
<1>2. /\ op[Owner] \in ResetOp /\ ResetReady(Owner, op[Owner]) /\ c \in CommitRecord
      /\ gen + 1 \in Generation /\ Owner \in Device /\ c.who \subseteq Device \ {Owner}
  <2>1. op[Owner] \in ResetOp
    BY CommandByStage, Basics, StewardConstants DEF StewardInv
  <2> QED
    BY <1>1, <2>1, StewardConstants
       DEF ResetOp, StewardInv, Sound, CommandsReady, Ready
<1>3. /\ gen' = gen + 1 /\ trees' = [trees EXCEPT ![gen + 1] = <<c>>] /\ chained' = FALSE
      /\ confirmed' = {Owner} /\ pending' = c.who /\ packages' = packages
      /\ control' = Append(control, [kind |-> "reset"])
  BY <1>1 DEF StoreReset
<1>4. <<c>> \in Commits /\ [kind |-> "reset"] \in ControlEvent
  BY <1>2 DEF Commits, ControlEvent, ResetEvent
<1>5. control' \in Seq(ControlEvent) /\ Len(control') = Len(control) + 1 /\ Len(control) \in Nat
      /\ gen \in Nat /\ m.gen \in Nat /\ m.cursor \in Nat
  <2>1. m.gen \in Nat
    BY Basics DEF MlsRecord, StewardInv
  <2> QED
    BY <1>3, <1>4, <2>1, ControlAppended, Basics DEF StewardInv, Sound, MlsRecord
<1>6. LogTypes' /\ LeafTypes' /\ PackageTypes'
  <2>1. LogTypes'
    BY <1>2, <1>3, <1>4, <1>5 DEF StewardInv, Types, LogTypes
  <2>2. LeafTypes'
    BY <1>2, <1>3 DEF LeafTypes
  <2>3. packages' \subseteq packages
    BY <1>3
  <2> QED
    BY <2>1, <2>2, <2>3, PackageTypesStay DEF StewardInv
<1>7. Types'
  <2>1. groups' \in [Device -> [Generation -> Commits \cup {NoGroup}]]
    BY DEF StewardInv, Types, StoreTypes
  <2>2. gen <= gen' /\ Len(control) <= Len(control') /\ m.gen <= gen' /\ m.cursor <= Len(control')
    BY <1>3, <1>5
  <2> QED
    BY <1>2, <1>6, <2>1, <2>2, IdleType, TypesOfAStep DEF StewardInv
<1>8. Elsewhere(Owner) /\ op'[Owner] = Idle
  BY <1>2, ElsewhereOf DEF StewardInv
<1>9. Ready(Owner)' /\ op'[Owner].at # "welcome"
  BY <1>8, IdleType DEF Ready
<1>10. c.who = {} => Others \subseteq gone
  BY <1>1 DEF Others
<1>11. Sound'
  BY <1>1, <1>2, <1>3, <1>7, <1>8, <1>9, <1>10, ResetStep
<1> QED
  BY <1>7, <1>11 DEF StewardInv

LEMMA ResetSubmitKeeps ==
    ASSUME StewardInv, ResetSubmit
    PROVE  StewardInv'
<1>1. op[Owner].at = "reset" /\ gone' = gone /\ Owner \in Device
  BY StewardConstants DEF ResetSubmit, Holds
<1>2. op[Owner] \in ResetOp /\ ResetReady(Owner, op[Owner])
  <2>1. op[Owner] \in ResetOp
    BY <1>1, CommandByStage, Basics DEF StewardInv
  <2> QED
    BY <1>1, <2>1 DEF StewardInv, Sound, CommandsReady, Ready
<1>3. /\ mls = [mls EXCEPT ![Owner] = mls[Owner]] /\ mls[Owner] \in MlsRecord
      /\ mls[Owner].gen <= gen /\ mls[Owner].cursor <= Len(control)
      /\ gen \in Nat /\ Len(control) \in Nat /\ mls[Owner].gen <= gen + 1
  <2>1. mls[Owner].gen \in 0..gen /\ gen \in Nat
    BY <1>1, Basics DEF StewardInv
  <2> QED
    BY <1>1, <2>1, SameMls, Basics DEF StewardInv
<1>4. CASE UNCHANGED <<logVars, storeVars>> /\ Fail(Owner)
  BY <1>1, <1>4, GivingUp DEF storeVars, StewardInv, Types, FlagTypes
<1>5. ASSUME NEW x \in op[Owner].left, NEW p \in op[Owner].commit.pkgs,
             StoreWelcome(op[Owner].gen, x, <<op[Owner].commit>>, p), FlagTypes',
             UNCHANGED <<groups, secrets, published, mls>>,
             NEW n \in Command, op' = [op EXCEPT ![Owner] = n], n.at \in {"idle", "reset"},
             n.at = "reset" => ResetReady(Owner, n)
      PROVE  StewardInv'
  <2>1. PICK e : e = [kind |-> "welcome", gen |-> op[Owner].gen, for |-> x,
                      tree |-> <<op[Owner].commit>>, pkg |-> p]
    OBVIOUS
  <2>2. /\ e \in WelcomeEvent /\ e.gen = gen + 1 /\ e.for = x
        /\ e.tree = <<op[Owner].commit>> /\ e.tree # <<>> /\ x # Owner
        /\ op[Owner].commit.who # {}
    <3>1. op[Owner].commit \in CommitRecord /\ op[Owner].gen \in Generation /\ x \in Device
      BY <1>2 DEF ResetOp
    <3>2. p \in Pkg
      BY <3>1 DEF CommitRecord, Pkg
    <3>3. x # Owner /\ op[Owner].gen = gen + 1 /\ op[Owner].commit.who # {}
      BY <1>2 DEF ResetReady, Others
    <3>4. <<op[Owner].commit>> \in Commits /\ <<op[Owner].commit>> # <<>>
      BY <3>1 DEF Commits
    <3> QED
      BY <2>1, <3>1, <3>2, <3>3, <3>4 DEF WelcomeEvent
  <2>3. SoundWelcome(e)
    BY <1>2, <2>2 DEF SoundWelcome, ResetReady
  <2>4. StoreWelcome(e.gen, e.for, e.tree, e.pkg)
    BY <1>5, <2>1
  <2>5. ~(e.gen <= gen)
    BY <1>3, <2>2
  <2>6. mls' = [mls EXCEPT ![Owner] = mls[Owner]]
    BY <1>3, <1>5
  <2> QED
    BY <1>1, <1>3, <1>5, <2>2, <2>3, <2>4, <2>5, <2>6, WelcomeStored
<1>6. ASSUME NEW x \in op[Owner].left, NEW p \in op[Owner].commit.pkgs,
             StoreWelcome(op[Owner].gen, x, <<op[Owner].commit>>, p),
             \/ StagedAnswered(x) /\ UNCHANGED stuck
             \/ UNCHANGED storeVars /\ Goto(Owner, Idle) /\ stuck' = stuck \cup {Owner}
      PROVE  StewardInv'
  <2>1. UNCHANGED storeVars /\ stuck' \subseteq Device
    BY <1>1, <1>6 DEF StagedAnswered, StewardInv, Types, FlagTypes
  <2>2. FlagTypes' /\ UNCHANGED <<groups, secrets, published, mls>>
    BY <1>1, <2>1 DEF storeVars, StewardInv, Types, FlagTypes
  <2>3. CASE Goto(Owner, Idle)
    BY <1>5, <1>6, <2>2, <2>3, IdleType DEF Goto
  <2>4. CASE StagedAnswered(x)
    <3>1. PICK n : n = [op[Owner] EXCEPT !.left = @ \ {x}, !.dirty = TRUE]
      OBVIOUS
    <3>2. op' = [op EXCEPT ![Owner] = n]
      BY <2>4, <3>1 DEF StagedAnswered, Goto
    <3>3. /\ n \in ResetOp /\ n.at = "reset" /\ n.gen = op[Owner].gen
          /\ n.commit = op[Owner].commit /\ n.left \subseteq op[Owner].left
      BY <1>2, <3>1 DEF ResetOp
    <3>4. ResetReady(Owner, n)
      BY <1>2, <3>3 DEF ResetReady
    <3>5. n \in Command
      BY <3>3 DEF Command
    <3> QED
      BY <1>5, <1>6, <2>2, <3>2, <3>3, <3>4, <3>5
  <2> QED
    BY <1>6, <2>3, <2>4
<1>7. ASSUME StoreReset(op[Owner].commit), op[Owner].gen = gen + 1,
             op[Owner].commit.who = {x \in Device \ {Owner} : x \notin gone},
             \/ ResetAnswered /\ UNCHANGED stuck
             \/ UNCHANGED storeVars /\ Goto(Owner, Idle) /\ stuck' = stuck \cup {Owner}
      PROVE  StewardInv'
  <2>1. FlagTypes' /\ UNCHANGED <<groups, secrets, published>> /\ op' = [op EXCEPT ![Owner] = Idle]
    BY <1>1, <1>7 DEF ResetAnswered, Goto, storeVars, StewardInv, Types, FlagTypes
  <2>2. CASE mls' = mls
    BY <1>1, <1>3, <1>7, <2>1, <2>2, ResetStored
  <2>3. CASE ResetAnswered
    <3>1. PICK m : m = [gen |-> gen + 1, confirmed |-> TRUE, cursor |-> 0]
      OBVIOUS
    <3>2. mls' = [mls EXCEPT ![Owner] = m]
      BY <1>7, <2>3, <3>1 DEF ResetAnswered, SetMls
    <3>3. gen + 1 \in Generation
      BY <1>2, <1>7 DEF ResetOp
    <3>4. m \in MlsRecord /\ m.gen <= gen + 1 /\ m.cursor <= Len(control)
      BY <1>3, <3>1, <3>3 DEF MlsRecord
    <3> QED
      BY <1>1, <1>7, <2>1, <3>2, <3>4, ResetStored
  <2> QED
    BY <1>7, <2>2, <2>3 DEF storeVars
<1> QED
  BY <1>1, <1>4, <1>6, <1>7 DEF ResetSubmit, Submitted, Refused

-----------------------------------------------------------------------------

LEMMA StewardInductive == StewardInv /\ [StewardNext]_stewardVars => StewardInv'
<1> SUFFICES ASSUME StewardInv, [StewardNext]_stewardVars PROVE StewardInv'
  OBVIOUS
<1>1. CASE ResetGroup
  BY <1>1, ResetGroupKeeps
<1>2. ASSUME NEW d \in Device, StewardStep(d) PROVE StewardInv'
  <2>1. CASE CommitSubmit(d)
    BY <2>1, CommitSubmitKeeps
  <2>2. CASE WelcomeSubmit(d)
    BY <2>2, WelcomeSubmitKeeps
  <2>3. CASE SendSubmit(d)
    BY <2>3, SendSubmitKeeps
  <2>4. CASE Resync(d)
    BY <2>4, ResyncKeeps
  <2>5. CASE ProactiveRekey(d)
    BY <2>5, ProactiveRekeyKeeps
  <2>6. CASE ProcessOn(d)
    BY <2>6, ProcessOnKeeps
  <2>7. CASE ConfirmLeaf(d)
    BY <2>7, ConfirmLeafKeeps
  <2>8. CASE ResetSubmit
    BY <2>8, ResetSubmitKeeps
  <2> QED
    BY <1>2, <2>1, <2>2, <2>3, <2>4, <2>5, <2>6, <2>7, <2>8 DEF StewardStep
<1>3. ASSUME NEW d \in Device, StewardStart(d) PROVE StewardInv'
  <2>1. CASE RekeyChannel(d)
    BY <2>1, RekeyChannelKeeps
  <2>2. CASE SendSealedMessage(d)
    BY <2>2, SendSealedMessageKeeps
  <2>3. CASE AddMember(d)
    BY <2>3, AddMemberKeeps
  <2>4. CASE \E opened \in BOOLEAN : ProcessMlsControlEvents(d, opened)
    BY <2>4, ProcessMlsControlEventsKeeps
  <2>5. CASE OpenWithoutStore(d)
    BY <2>5, OpenWithoutStoreKeeps
  <2>6. CASE PublishOwnKeyPackage(d)
    BY <2>6, PublishOwnKeyPackageKeeps
  <2>7. CASE Expel(d)
    BY <2>7, ExpelKeeps
  <2>8. CASE AppCloses(d)
    BY <2>8, AppClosesKeeps
  <2> QED
    BY <1>3, <2>1, <2>2, <2>3, <2>4, <2>5, <2>6, <2>7, <2>8 DEF StewardStart
<1>4. CASE UNCHANGED stewardVars
  BY <1>4, BystanderKeeps DEF stewardVars, storeVars, logVars, StewardInv, Types, FlagTypes
<1> QED
  BY <1>1, <1>2, <1>3, <1>4 DEF StewardNext

(* The log of a channel, the stores of its devices and the commands in      *)
(* flight agree as above along every order of commits, sends, joins, lost   *)
(* answers, expulsions, closings and resets (commands.rs, resync.rs,        *)
(* reset.rs).                                                               *)
THEOREM StewardInvHolds == StewardSpec => []StewardInv
<1> QED
  BY StewardInitSound, StewardInductive, PTL DEF StewardSpec

(* A command in flight holds what its next step needs, no leaf is both     *)
(* confirmed and pending, and no cursor runs ahead of the log, whatever    *)
(* was lost, refused or closed on the way (the mls_state.json every        *)
(* command loads and saves).                                               *)
THEOREM StewardTypesHold == StewardSpec => []StewardTypeOK
<1>1. StewardInv => StewardTypeOK
  <2> SUFFICES ASSUME StewardInv PROVE StewardTypeOK
    OBVIOUS
  <2>1. gen \in Generation /\ chained \in BOOLEAN
    BY DEF StewardInv, Types, LogTypes
  <2>2. /\ \A S \in {confirmed, pending, gone, opening, stuck} : S \subseteq Device
        /\ confirmed \cap pending = {}
    BY DEF StewardInv, Types, LeafTypes, FlagTypes
  <2>3. \A p \in packages : p[1] \in Device /\ p[2] \in 1..published[p[1]]
    BY DEF StewardInv, Types, PackageTypes, Pkg
  <2>4. ASSUME NEW d \in Device
        PROVE  /\ mls[d].gen \in Generation
               /\ mls[d].cursor \in 0..Len(control)
               /\ secrets[d] \subseteq {d} \X (1..published[d])
               /\ op[d].at = "commit" => Local(d, op[d].gen) # NoGroup
    <3>1. mls[d].gen \in Generation /\ mls[d].cursor \in 0..Len(control)
      BY SameMls, Basics DEF StewardInv, MlsRecord
    <3>2. secrets[d] \subseteq {d} \X (1..published[d])
      BY DEF StewardInv, Types, PackageTypes
    <3>3. ASSUME op[d].at = "commit" PROVE Local(d, op[d].gen) # NoGroup
      <4>1. op[d] \in CommitOp
        BY <3>3, CommandByStage, Basics DEF StewardInv
      <4>2. groups[d][op[d].gen] = Append(op[d].base, op[d].commit)
        BY <3>3 DEF StewardInv, Sound, CommandsReady, Ready, CommitReady
      <4>3. Append(op[d].base, op[d].commit) \in Commits
        BY <4>1, AppendPointwise DEF CommitOp
      <4> QED
        BY <4>2, <4>3, NoGroupIsNoTree DEF Commits, Local
    <3> QED
      BY <3>1, <3>2, <3>3
  <2> QED
    BY <2>1, <2>2, <2>3, <2>4 DEF StewardTypeOK
<1> QED
  BY <1>1, StewardInvHolds, PTL

(* Only its own commits take a device off the tree of the log, and a       *)
(* device off the tree merges nobody else's: a commit is applied at its    *)
(* epoch, in its group, to its base (process_incoming_commit's gates); the *)
(* Welcome of a commit follows the commit; and a commit refused, raced or  *)
(* lost stays merged at its author's alone.                                *)
THEOREM ForksSelfMade == StewardSpec => []ForksAreSelfMade
<1>1. StewardInv => ForksAreSelfMade
  <2> SUFFICES ASSUME StewardInv, NEW d \in Device, NEW g \in 0..gen,
                      groups[d][g] # NoGroup, NEW i \in DOMAIN groups[d][g]
               PROVE  \/ groups[d][g][i].by = d
                      \/ IsPrefix(SubSeq(groups[d][g], 1, i), trees[g])
    BY DEF ForksAreSelfMade, Local
  <2>1. groups[d][g] \in Commits
    BY Basics DEF StewardInv
  <2>2. i \in 1..Len(groups[d][g])
    BY <2>1, LenProperties DEF Commits
  <2> QED
    BY <2>2 DEF StewardInv, Sound, Forks, SelfForked
<1> QED
  BY <1>1, StewardInvHolds, PTL

-----------------------------------------------------------------------------
(* What the server accepted but cannot be read. *)

(* An accepted post that the log's tree does not open was sealed by a      *)
(* device that had merged a commit of its own the log never took, and by   *)
(* nobody else: the case the proactive rekey's Err arm speaks of.          *)
UnreadPostsAreSelfMade ==
    \A p \in posts : \A i \in DOMAIN p.path :
        p.path[i].by = p.by \/ IsPrefix(SubSeq(p.path, 1, i), trees[p.gen])

PostsSound ==
    \A p \in posts : /\ p.gen \in 0..gen /\ p.path \in Commits
                     /\ SelfForked(p.by, p.path, trees[p.gen])

TreesGrow ==
    \/ UNCHANGED <<gen, trees>>
    \/ gen' = gen /\ \E c \in CommitRecord : trees' = [trees EXCEPT ![gen] = Append(@, c)]
    \/ gen' = gen + 1 /\ \E t : trees' = [trees EXCEPT ![gen + 1] = t]

Post(d) == [by |-> d, n |-> Cardinality(posts), gen |-> gen, path |-> groups[d][gen]]

PostsGrow ==
    \/ UNCHANGED posts
    \/ \E d \in Device : groups[d][gen] # NoGroup /\ posts' = posts \cup {Post(d)}

LEMMA LogStep ==
    ASSUME StewardInv, StewardNext
    PROVE  TreesGrow /\ PostsGrow
<1>1. CASE UNCHANGED logVars
  BY <1>1 DEF logVars, TreesGrow, PostsGrow
<1>2. ASSUME NEW d \in Device, CommitSubmit(d), ~UNCHANGED logVars
      PROVE  TreesGrow /\ PostsGrow
  <2>1. op[d].at = "commit" /\ StoreCommit(d, op[d].base, op[d].commit)
    BY <1>2 DEF CommitSubmit, Submitted, Refused, Holds
  <2>2. op[d].commit \in CommitRecord
    BY <2>1, CommandByStage, Basics DEF StewardInv, CommitOp
  <2> QED
    BY <2>1, <2>2 DEF StoreCommit, TreesGrow, PostsGrow
<1>3. ASSUME NEW d \in Device, WelcomeSubmit(d), ~UNCHANGED logVars
      PROVE  TreesGrow /\ PostsGrow
  BY <1>3 DEF WelcomeSubmit, Submitted, Refused, StoreWelcome, TreesGrow, PostsGrow
<1>4. ASSUME NEW d \in Device, ConfirmLeaf(d), ~UNCHANGED logVars
      PROVE  TreesGrow /\ PostsGrow
  BY <1>4 DEF ConfirmLeaf, Submitted, Refused, StoreConfirm, TreesGrow, PostsGrow
<1>5. ASSUME NEW d \in Device, PublishOwnKeyPackage(d)
      PROVE  TreesGrow /\ PostsGrow
  BY <1>5 DEF PublishOwnKeyPackage, StorePackage, TreesGrow, PostsGrow
<1>6. ASSUME ResetSubmit, ~UNCHANGED logVars
      PROVE  TreesGrow /\ PostsGrow
  BY <1>6 DEF ResetSubmit, Submitted, Refused, StoreWelcome, StoreReset, TreesGrow, PostsGrow
<1>7. ASSUME NEW d \in Device, SendSubmit(d), ~UNCHANGED logVars
      PROVE  TreesGrow /\ PostsGrow
  <2>1. /\ op[d].at = "send" /\ ~Stale(mls[d].gen, Local(d, mls[d].gen))
        /\ StorePost(d, Local(d, mls[d].gen))
    BY <1>7 DEF SendSubmit, Submitted, Refused, StartCommit, Holds
  <2>2. mls[d].gen = gen /\ groups[d][gen] # NoGroup
    BY <2>1 DEF Stale, StewardInv, Sound, CommandsReady, Ready
  <2> QED
    BY <2>1, <2>2 DEF StorePost, Local, Post, TreesGrow, PostsGrow
<1>8. ResetGroup => UNCHANGED logVars
  BY DEF ResetGroup
<1>9. ASSUME NEW d \in Device
      PROVE  /\ Resync(d) => UNCHANGED logVars
             /\ ProactiveRekey(d) => UNCHANGED logVars
             /\ ProcessOn(d) => UNCHANGED logVars
             /\ RekeyChannel(d) => UNCHANGED logVars
             /\ SendSealedMessage(d) => UNCHANGED logVars
             /\ AddMember(d) => UNCHANGED logVars
             /\ (\E opened \in BOOLEAN : ProcessMlsControlEvents(d, opened)) => UNCHANGED logVars
             /\ OpenWithoutStore(d) => UNCHANGED logVars
             /\ Expel(d) => UNCHANGED logVars
             /\ AppCloses(d) => UNCHANGED logVars
  BY DEF Resync, ProactiveRekey, ProcessOn, RekeyChannel, SendSealedMessage, AddMember,
         ProcessMlsControlEvents, OpenWithoutStore, Expel, AppCloses, StartCommit
<1> QED
  BY <1>1, <1>2, <1>3, <1>4, <1>5, <1>6, <1>7, <1>8, <1>9
     DEF StewardNext, StewardStep, StewardStart

LEMMA PostsStep == StewardInv /\ PostsSound /\ [StewardNext]_stewardVars => PostsSound'
<1> SUFFICES ASSUME StewardInv, PostsSound, [StewardNext]_stewardVars PROVE PostsSound'
  OBVIOUS
<1>1. CASE UNCHANGED stewardVars
  BY <1>1 DEF stewardVars, logVars, PostsSound
<1>2. CASE StewardNext
  <2>1. TreesGrow /\ PostsGrow
    BY <1>2, LogStep
  <2>2. /\ gen \in Generation /\ gen \in Nat /\ trees \in [Generation -> Commits]
        /\ \A g \in 0..gen : g \in Generation /\ trees[g] \in Commits /\ g # gen + 1
    BY Basics DEF StewardInv, Types, LogTypes
  <2>3. ASSUME NEW d, NEW s \in Commits, NEW g \in 0..gen, SelfForked(d, s, trees[g])
        PROVE  g \in 0..gen' /\ SelfForked(d, s, trees'[g])
    <3>1. CASE UNCHANGED <<gen, trees>>
      BY <2>3, <3>1
    <3>2. CASE gen' = gen /\ \E c \in CommitRecord : trees' = [trees EXCEPT ![gen] = Append(@, c)]
      <4>1. PICK c \in CommitRecord : trees' = [trees EXCEPT ![gen] = Append(@, c)]
        BY <3>2
      <4>2. CASE g = gen
        <5>1. trees'[g] = Append(trees[g], c) /\ trees[g] \in Commits
          BY <2>2, <4>1, <4>2
        <5> QED
          BY <2>3, <3>2, <5>1, ForksStay
      <4>3. CASE g # gen
        <5>1. trees'[g] = trees[g]
          BY <2>2, <4>1, <4>3
        <5> QED
          BY <2>3, <3>2, <5>1
      <4> QED
        BY <4>2, <4>3
    <3>3. CASE gen' = gen + 1 /\ \E t : trees' = [trees EXCEPT ![gen + 1] = t]
      <4>1. trees'[g] = trees[g]
        BY <2>2, <3>3
      <4> QED
        BY <2>2, <2>3, <3>3, <4>1
    <3> QED
      BY <2>1, <3>1, <3>2, <3>3 DEF TreesGrow
  <2>4. ASSUME NEW p \in posts'
        PROVE  p.gen \in 0..gen /\ p.path \in Commits /\ SelfForked(p.by, p.path, trees[p.gen])
    <3>1. CASE p \in posts
      BY <3>1 DEF PostsSound
    <3>2. ASSUME NEW d \in Device, groups[d][gen] # NoGroup, p = Post(d)
          PROVE  p.gen \in 0..gen /\ p.path \in Commits /\ SelfForked(p.by, p.path, trees[p.gen])
      <4>1. p.by = d /\ p.gen = gen /\ p.path = groups[d][gen]
        BY <3>2 DEF Post
      <4>2. gen \in 0..gen /\ groups[d][gen] \in Commits
        BY <2>2, <3>2, Basics DEF StewardInv
      <4> QED
        BY <3>2, <4>1, <4>2 DEF StewardInv, Sound, Forks
    <3> QED
      BY <2>1, <3>1, <3>2 DEF PostsGrow
  <2> QED
    BY <2>3, <2>4 DEF PostsSound
<1> QED
  BY <1>1, <1>2

(* AcceptedPostsReadable is false of the code; this is what is left of it.  *)
(* A post the server accepted and the log's group cannot open comes from a  *)
(* device that went ahead by a commit of its own (CommitSubmit's refusals). *)
THEOREM UnreadPostsSelfMade == StewardSpec => []UnreadPostsAreSelfMade
<1>1. StewardInit => PostsSound
  BY DEF StewardInit, PostsSound
<1>2. PostsSound => UnreadPostsAreSelfMade
  <2> SUFFICES ASSUME PostsSound, NEW p \in posts, NEW i \in DOMAIN p.path
               PROVE  p.path[i].by = p.by \/ IsPrefix(SubSeq(p.path, 1, i), trees[p.gen])
    BY DEF UnreadPostsAreSelfMade
  <2>1. i \in 1..Len(p.path)
    BY LenProperties DEF PostsSound, Commits
  <2> QED
    BY <2>1 DEF PostsSound, SelfForked
<1> QED
  BY <1>1, <1>2, StewardInvHolds, PostsStep, PTL DEF StewardSpec

-----------------------------------------------------------------------------
(* The server's side is a LeafRecord.                                       *)

(* A chained authenticator comes with the first commit after the beginning. *)
BeginOf(g) == IF g = 0 THEN 0 ELSE 1

TreeBegun ==
    /\ Len(trees[gen]) >= BeginOf(gen)
    /\ chained <=> Len(trees[gen]) > BeginOf(gen)

LeafMoves ==
    \/ UNCHANGED <<gen, trees, chained, confirmed, pending>>
    \/ \E d \in Device, base \in Commits, c \in CommitRecord :
          CommitAllowed(d, base, c) /\ StoreCommit(d, base, c)
    \/ \E d \in pending : StoreConfirm(d)
    \/ \E c \in CommitRecord : c.who \subseteq Others /\ gen + 1 \in Generation /\ StoreReset(c)

LEMMA LeafStep ==
    ASSUME StewardInv, StewardNext
    PROVE  LeafMoves
<1>1. CASE UNCHANGED logVars
  BY <1>1 DEF logVars, LeafMoves
<1>2. ASSUME NEW d \in Device, CommitSubmit(d), ~UNCHANGED logVars
      PROVE  LeafMoves
  <2>1. /\ op[d].at = "commit" /\ CommitAllowed(d, op[d].base, op[d].commit)
        /\ StoreCommit(d, op[d].base, op[d].commit)
    BY <1>2 DEF CommitSubmit, Submitted, Refused, Holds
  <2>2. op[d].base \in Commits /\ op[d].commit \in CommitRecord
    BY <2>1, CommandByStage, Basics DEF StewardInv, CommitOp
  <2> QED
    BY <2>1, <2>2 DEF LeafMoves
<1>3. ASSUME NEW d \in Device, WelcomeSubmit(d), ~UNCHANGED logVars
      PROVE  LeafMoves
  BY <1>3 DEF WelcomeSubmit, Submitted, Refused, StoreWelcome, LeafMoves
<1>4. ASSUME NEW d \in Device, ConfirmLeaf(d), ~UNCHANGED logVars
      PROVE  LeafMoves
  <2>1. d \in pending /\ StoreConfirm(d)
    BY <1>4 DEF ConfirmLeaf, ConfirmAllowed, Submitted, Refused
  <2> QED
    BY <2>1 DEF LeafMoves
<1>5. ASSUME NEW d \in Device, PublishOwnKeyPackage(d)
      PROVE  LeafMoves
  BY <1>5 DEF PublishOwnKeyPackage, StorePackage, LeafMoves
<1>6. ASSUME ResetSubmit, ~UNCHANGED logVars
      PROVE  LeafMoves
  <2>1. op[Owner].at = "reset"
    BY <1>6 DEF ResetSubmit, Holds
  <2>2. op[Owner] \in ResetOp /\ op[Owner].commit.who \subseteq Others
    BY <2>1, CommandByStage, Basics, StewardConstants
       DEF StewardInv, Sound, CommandsReady, Ready, ResetReady
  <2>3. \/ UNCHANGED <<gen, trees, chained, confirmed, pending>>
        \/ op[Owner].gen = gen + 1 /\ StoreReset(op[Owner].commit)
    BY <1>6 DEF ResetSubmit, Submitted, Refused, StoreWelcome
  <2>4. op[Owner].commit \in CommitRecord /\ op[Owner].gen \in Generation
    BY <2>2 DEF ResetOp
  <2> QED
    BY <2>2, <2>3, <2>4 DEF LeafMoves
<1>7. ASSUME NEW d \in Device, SendSubmit(d), ~UNCHANGED logVars
      PROVE  LeafMoves
  BY <1>7 DEF SendSubmit, Submitted, Refused, StartCommit, StorePost, LeafMoves
<1>8. ResetGroup => UNCHANGED logVars
  BY DEF ResetGroup
<1>9. ASSUME NEW d \in Device
      PROVE  /\ Resync(d) => UNCHANGED logVars
             /\ ProactiveRekey(d) => UNCHANGED logVars
             /\ ProcessOn(d) => UNCHANGED logVars
             /\ RekeyChannel(d) => UNCHANGED logVars
             /\ SendSealedMessage(d) => UNCHANGED logVars
             /\ AddMember(d) => UNCHANGED logVars
             /\ (\E opened \in BOOLEAN : ProcessMlsControlEvents(d, opened)) => UNCHANGED logVars
             /\ OpenWithoutStore(d) => UNCHANGED logVars
             /\ Expel(d) => UNCHANGED logVars
             /\ AppCloses(d) => UNCHANGED logVars
  BY DEF Resync, ProactiveRekey, ProcessOn, RekeyChannel, SendSealedMessage, AddMember,
         ProcessMlsControlEvents, OpenWithoutStore, Expel, AppCloses, StartCommit
<1> QED
  BY <1>1, <1>2, <1>3, <1>4, <1>5, <1>6, <1>7, <1>8, <1>9
     DEF StewardNext, StewardStep, StewardStart

(* The one channel's entry, before and after.                               *)
LEMMA TheRecord ==
    /\ record = [c \in {TheChannel} |-> record[TheChannel]]
    /\ record[TheChannel].generation = gen
    /\ record[TheChannel].epoch = Len(trees[gen])
    /\ record[TheChannel].confirmed = confirmed
    /\ record[TheChannel].pending = pending
BY DEF record, Tree

LEMMA CommitKept ==
    ASSUME StewardInv, TreeBegun, NEW d \in Device, NEW base \in Commits,
           NEW c \in CommitRecord, CommitAllowed(d, base, c), StoreCommit(d, base, c)
    PROVE  TreeBegun' /\ Record!Commit(TheChannel, d) /\ record' # record
<1> DEFINE r == record[TheChannel]
           own == IF chained /\ confirmed # {} THEN {} ELSE {d}
           add == IF c.what = "add" THEN c.who ELSE {}
           cut == IF c.what = "remove" THEN c.who ELSE {}
<1>1. gen \in Nat /\ gen \in Generation /\ trees \in [Generation -> Commits]
      /\ trees[gen] \in Commits /\ Len(trees[gen]) \in Nat
  BY Basics, LenProperties DEF StewardInv, Types, LogTypes, Commits
<1>2. /\ gen' = gen /\ trees'[gen] = Append(trees[gen], c) /\ chained' = TRUE
      /\ confirmed' = (confirmed \ cut) \cup own
      /\ pending' = ((pending \cup add) \ cut) \ own
  BY <1>1 DEF StoreCommit
<1>3. Len(trees'[gen]) = Len(trees[gen]) + 1
  BY <1>1, <1>2, AppendPointwise
<1>4. TreeBegun'
  <2>1. BeginOf(gen) \in Nat
    BY DEF BeginOf
  <2>2. Len(trees'[gen]) > BeginOf(gen)
    BY <1>1, <1>3, <2>1 DEF TreeBegun
  <2> QED
    BY <1>1, <1>2, <1>3, <2>1, <2>2 DEF TreeBegun, BeginOf
<1>5. own = IF Record!Founding(r) THEN {d} ELSE {}
  <2>1. BeginOf(gen) \in Nat
    BY DEF BeginOf
  <2>2. chained <=> Len(trees[gen]) # BeginOf(gen)
    BY <1>1, <2>1 DEF TreeBegun
  <2>3. Record!FirstEpoch(r) = BeginOf(gen)
    BY TheRecord DEF Record!FirstEpoch, BeginOf
  <2> QED
    BY <2>2, <2>3, TheRecord DEF Record!Founding
<1>6. add \in SUBSET (Device \ Record!Leaves(r)) /\ cut \in SUBSET Record!Leaves(r)
  <2>1. c.who \subseteq Device
    BY DEF CommitRecord
  <2> QED
    BY <2>1, TheRecord DEF CommitAllowed, Record!Leaves, Leaves, Drift
<1>7. r.confirmed # {} => d \in r.confirmed
  BY TheRecord DEF CommitAllowed
<1> DEFINE next == [generation |-> r.generation,
                    epoch |-> r.epoch + 1,
                    confirmed |-> (r.confirmed \ cut) \cup own,
                    pending |-> ((r.pending \cup add) \ cut) \ own]
<1> HIDE DEF own, add, cut
<1>8. record'[TheChannel] = next
  BY <1>2, <1>3, TheRecord DEF record, Tree
<1>9. record' = [record EXCEPT ![TheChannel] = next]
  <2>1. record' = [x \in {TheChannel} |-> record'[TheChannel]]
    BY DEF record
  <2> HIDE DEF next
  <2> QED
    BY <1>8, <2>1, TheRecord
<1>10. record' # record
  <2>1. record'[TheChannel].epoch # r.epoch
    BY <1>1, <1>8, TheRecord
  <2> QED
    BY <2>1
<1> QED
  BY <1>4, <1>5, <1>6, <1>7, <1>9, <1>10 DEF Record!Commit

LEMMA ConfirmKept ==
    ASSUME StewardInv, TreeBegun, NEW d \in pending, StoreConfirm(d)
    PROVE  TreeBegun' /\ Record!Confirm(TheChannel, d) /\ record' # record
<1> DEFINE r == record[TheChannel]
           next == [generation |-> r.generation,
                    epoch |-> r.epoch,
                    confirmed |-> r.confirmed \cup {d},
                    pending |-> r.pending \ {d}]
<1>1. /\ UNCHANGED <<gen, trees, chained>>
      /\ confirmed' = confirmed \cup {d} /\ pending' = pending \ {d}
  BY DEF StoreConfirm
<1>2. TreeBegun'
  BY <1>1 DEF TreeBegun, BeginOf
<1>3. record'[TheChannel] = next
  BY <1>1, TheRecord DEF record, Tree
<1>4. record' = [record EXCEPT ![TheChannel] = next]
  <2>1. record' = [x \in {TheChannel} |-> record'[TheChannel]]
    BY DEF record
  <2> HIDE DEF next
  <2> QED
    BY <1>3, <2>1, TheRecord
<1>5. d \in r.pending /\ d \notin record'[TheChannel].pending
  BY <1>3, TheRecord
<1>6. record' # record
  BY <1>5
<1> QED
  BY <1>2, <1>4, <1>5, <1>6 DEF Record!Confirm

LEMMA ResetKept ==
    ASSUME StewardInv, NEW c \in CommitRecord, c.who \subseteq Others, gen + 1 \in Generation,
           StoreReset(c)
    PROVE  TreeBegun' /\ Record!Reset(TheChannel, Owner) /\ record' # record
<1> DEFINE r == record[TheChannel]
           next == [generation |-> r.generation + 1,
                    epoch |-> 1,
                    confirmed |-> {Owner},
                    pending |-> c.who]
<1>1. gen \in Nat /\ trees \in [Generation -> Commits]
  BY Basics DEF StewardInv, Types, LogTypes
<1>2. /\ gen' = gen + 1 /\ trees'[gen + 1] = <<c>> /\ chained' = FALSE
      /\ confirmed' = {Owner} /\ pending' = c.who
  BY <1>1 DEF StoreReset
<1>3. Len(trees'[gen']) = 1
  BY <1>2
<1>4. TreeBegun'
  <2>1. gen' # 0
    BY <1>1, <1>2
  <2> QED
    BY <1>2, <1>3, <2>1 DEF TreeBegun, BeginOf
<1>5. record'[TheChannel] = next
  BY <1>2, <1>3, TheRecord DEF record, Tree
<1>6. record' = [record EXCEPT ![TheChannel] = next]
  <2>1. record' = [x \in {TheChannel} |-> record'[TheChannel]]
    BY DEF record
  <2> HIDE DEF next
  <2> QED
    BY <1>5, <2>1, TheRecord
<1>7. record' # record
  <2>1. record'[TheChannel].generation # r.generation
    BY <1>1, <1>5, TheRecord
  <2> QED
    BY <2>1
<1>8. c.who \in SUBSET (Device \ {Owner})
  BY DEF Others
<1> QED
  BY <1>4, <1>6, <1>7, <1>8 DEF Record!Reset

(* What a command may have stored without hearing of it, and what it was    *)
(* refused, leave the server one LeafRecord: the part of the fold this      *)
(* model keeps promises its clients what LogMls shows of all of it          *)
(* (FoldImplementsLeafRecord; the arms of MlsCommit, MlsLeafConfirmed and   *)
(* MlsGroupReset).                                                          *)
THEOREM ServerKeepsTheRecord == StewardSpec => ServerImplementsLeafRecord
<1>1. StewardInit => Record!Init /\ TreeBegun
  <2> SUFFICES ASSUME StewardInit PROVE Record!Init /\ TreeBegun
    OBVIOUS
  <2>1. gen = 0 /\ trees[0] = <<>> /\ chained = FALSE /\ confirmed = {} /\ pending = {}
    BY StewardConstants DEF StewardInit, Generation
  <2>2. Record!Init
    <3>1. record = [c \in {TheChannel} |-> [generation |-> 0, epoch |-> 0,
                                            confirmed |-> {}, pending |-> {}]]
      BY <2>1 DEF record, Tree
    <3> QED
      BY <3>1 DEF Record!Init
  <2>3. TreeBegun
    BY <2>1 DEF TreeBegun, BeginOf
  <2> QED
    BY <2>2, <2>3
<1>2. StewardInv /\ TreeBegun /\ [StewardNext]_stewardVars
          => TreeBegun' /\ [Record!Next]_record
  <2> SUFFICES ASSUME StewardInv, TreeBegun, [StewardNext]_stewardVars
               PROVE  TreeBegun' /\ [Record!Next]_record
    OBVIOUS
  <2>1. CASE UNCHANGED <<gen, trees, chained, confirmed, pending>>
    BY <2>1 DEF TreeBegun, BeginOf, record, Tree
  <2>2. ASSUME NEW d \in Device, NEW base \in Commits, NEW c \in CommitRecord,
               CommitAllowed(d, base, c), StoreCommit(d, base, c)
        PROVE  TreeBegun' /\ [Record!Next]_record
    BY <2>2, CommitKept DEF Record!Next
  <2>3. ASSUME NEW d \in pending, StoreConfirm(d)
        PROVE  TreeBegun' /\ [Record!Next]_record
    <3>1. d \in Device
      BY DEF StewardInv, Types, LeafTypes
    <3> QED
      BY <2>3, <3>1, ConfirmKept DEF Record!Next
  <2>4. ASSUME NEW c \in CommitRecord, c.who \subseteq Others, gen + 1 \in Generation,
               StoreReset(c)
        PROVE  TreeBegun' /\ [Record!Next]_record
    BY <2>4, ResetKept, StewardConstants DEF Record!Next
  <2>5. CASE UNCHANGED stewardVars
    BY <2>1, <2>5 DEF stewardVars, logVars
  <2>6. CASE StewardNext
    BY <2>1, <2>2, <2>3, <2>4, <2>6, LeafStep DEF LeafMoves
  <2> QED
    BY <2>5, <2>6
<1> QED
  BY <1>1, <1>2, StewardInvHolds, PTL
     DEF StewardSpec, ServerImplementsLeafRecord, Record!Spec
=============================================================================
