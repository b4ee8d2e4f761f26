------------------------------ MODULE Steward ------------------------------
(***************************************************************************)
(* The clients of one end-to-end encrypted channel: the commands that      *)
(* create, add, rekey, discharge drift, send, follow the control plane,    *)
(* publish key packages and reset, each holding its device's chain lock    *)
(* from start to end, against a server that folds what they submit.        *)
(*                                                                         *)
(* A group is the sequence of commits merged into it: two devices share an *)
(* epoch's keys exactly when their sequences are equal, and the epoch is   *)
(* the length.  The server sees the epoch of sealed content, never its     *)
(* group.  One device per identity; the membership rules are LogAuthz's    *)
(* and LogMls's, of which a client meets accept, stale-epoch, refused or   *)
(* silence.  The lock's chain position is DeviceChain's: here a device is  *)
(* stuck once a command gave up after an accepted event it did not save.   *)
(* Whether the commit-rate rule refuses a rekey is left open.              *)
(***************************************************************************)
EXTENDS Naturals, Sequences, FiniteSets

CONSTANTS Device, Owner,
          NoGroup,
          Plans,                \* what users may start, and how often
          MaxGeneration, MaxPackages,   \* bounds, with those of a plan
          FreshnessCeiling,     \* posts one epoch may carry
          MaxUnproductive,      \* MAX_UNPRODUCTIVE_RESYNC_ATTEMPTS
          MaxTotal              \* MAX_TOTAL_RESYNC_ATTEMPTS

ASSUME StewardConstants ==
    /\ Owner \in Device
    /\ {MaxGeneration, MaxPackages, FreshnessCeiling} \subseteq Nat
    /\ Plans \subseteq [start : SUBSET {"add", "rekey", "send", "cadence", "expel",
                                       "reset", "close"},
                        epochs : Nat, posts : Nat, faults : Nat]
    /\ MaxUnproductive \in Nat \ {0} /\ MaxTotal \in Nat \ {0}

CommitRecord == [by : Device, what : {"boot", "add", "rekey", "remove", "reset"},
                 who : SUBSET Device, pkgs : SUBSET (Device \X Nat)]

ASSUME NoGroupIsNoTree == NoGroup \notin Seq(CommitRecord)

VARIABLES gen, trees,           \* the log's generation and each generation's commits
          chained,              \* a commit has to name its predecessor
          confirmed, pending,   \* leaves
          gone,                 \* devices whose identity was expelled
          packages,             \* published key packages not yet consumed
          control,              \* the channel's control events, in accept order
          posts, spent,         \* accepted sealed posts; those since the last commit
          groups,               \* per device and generation: its MLS store
          secrets,              \* per device: key packages it can still join with
          published,            \* per device: how many it has made
          mls,                  \* per device: mls_state.json
          op,                   \* per device: the command holding the chain lock
          opening,              \* devices whose window will publish a key package
          stuck, faults,
          plan                  \* what this behaviour's users start

logVars == <<gen, trees, chained, confirmed, pending, packages, control, posts, spent>>
storeVars == <<groups, secrets, published, mls, opening>>
stewardVars == <<logVars, gone, storeVars, op, stuck, faults, plan>>

Generation == 0..MaxGeneration
Idle == [at |-> "idle", dirty |-> FALSE]
NotJoined == [gen |-> 0, confirmed |-> FALSE, cursor |-> 0]

Commit(d, what, who, pkgs) == [by |-> d, what |-> what, who |-> who, pkgs |-> pkgs]

CreatorLeaf == Commit(Owner, "boot", {}, {})

(* The owner's create command holds its lock: ChannelCreated is in the     *)
(* log, the group made and the commit of its own leaf about to be sent.    *)
StewardInit ==
    /\ gen = 0
    /\ trees = [g \in Generation |-> <<>>]
    /\ chained = FALSE
    /\ confirmed = {} /\ pending = {} /\ gone = {}
    /\ packages = {} /\ control = <<>> /\ posts = {} /\ spent = 0
    /\ groups = [d \in Device |-> [g \in Generation |->
                    IF d = Owner /\ g = 0 THEN <<CreatorLeaf>> ELSE NoGroup]]
    /\ secrets = [d \in Device |-> {}]
    /\ published = [d \in Device |-> 0]
    /\ mls = [d \in Device |-> NotJoined]
    /\ op = [d \in Device |->
                IF d = Owner THEN [at |-> "commit", gen |-> 0, base |-> <<>>,
                                   commit |-> CreatorLeaf, then |-> "done", dirty |-> FALSE]
                ELSE Idle]
    /\ opening = {}
    /\ stuck = {} /\ faults = 0
    /\ plan \in Plans

-----------------------------------------------------------------------------
(* The server's side. *)

Tree == trees[gen]
Leaves == confirmed \cup pending
Drift == Leaves \cap gone

(* The pre-check that answers "stale-epoch". *)
Stale(g, path) == g # gen \/ Len(path) # Len(Tree)

CommitAllowed(d, base, c) ==
    /\ d \notin gone
    /\ IF confirmed = {} THEN d = Owner ELSE d \in confirmed
    /\ chained => base = Tree
    /\ c.pkgs \subseteq packages
    /\ c.what = "add" => c.who \cap (Leaves \cup gone) = {}
    /\ c.what = "remove" => c.who \subseteq Drift

(* Discharging drift and a spent budget are exempt from the rate rule. *)
RateMayRefuse(c) == c.what = "rekey" /\ spent < FreshnessCeiling

PostRefused(d) == d \in gone \/ d \notin confirmed
ResetIncomplete == gen > 0 /\ \E x \in Tree[1].who : x \in pending

StoreCommit(d, base, c) ==
    LET own == IF chained /\ confirmed # {} THEN {} ELSE {d}
        add == IF c.what = "add" THEN c.who ELSE {}
        cut == IF c.what = "remove" THEN c.who ELSE {}
    IN  /\ trees' = [trees EXCEPT ![gen] = Append(@, c)]
        /\ chained' = TRUE
        /\ confirmed' = (confirmed \ cut) \cup own
        /\ pending' = ((pending \cup add) \ cut) \ own
        /\ packages' = packages \ c.pkgs
        /\ control' = Append(control, [kind |-> "commit", gen |-> gen, base |-> base, commit |-> c])
        /\ spent' = 0
        /\ UNCHANGED <<gen, posts>>

StoreWelcome(g, x, tree, pkg) ==
    /\ control' = Append(control,
                    [kind |-> "welcome", gen |-> g, for |-> x, tree |-> tree, pkg |-> pkg])
    /\ UNCHANGED <<gen, trees, chained, confirmed, pending, packages, posts, spent>>

ConfirmAllowed(d, g, tree) ==
    /\ d \notin gone
    /\ d \in pending
    /\ g = gen
    /\ Len(tree) <= Len(Tree) /\ SubSeq(Tree, 1, Len(tree)) = tree

StoreConfirmStillPending(d) ==   \* mutant
    /\ confirmed' = confirmed \cup {d}
    /\ UNCHANGED <<gen, trees, chained, pending, packages, control, posts, spent>>

StoreConfirm(d) ==
    /\ pending' = pending \ {d}
    /\ confirmed' = confirmed \cup {d}
    /\ UNCHANGED <<gen, trees, chained, packages, control, posts, spent>>

StorePost(d, path) ==
    /\ posts' = posts \cup {[by |-> d, n |-> Cardinality(posts), gen |-> gen, path |-> path]}
    /\ spent' = spent + 1
    /\ UNCHANGED <<gen, trees, chained, confirmed, pending, packages, control>>

StorePackage(d, n) ==
    /\ packages' = packages \cup {<<d, n>>}
    /\ UNCHANGED <<gen, trees, chained, confirmed, pending, control, posts, spent>>

(* Every leaf the fold owes, but the resetter's own. *)
StoreReset(c) ==
    /\ gen' = gen + 1
    /\ trees' = [trees EXCEPT ![gen + 1] = <<c>>]
    /\ chained' = FALSE
    /\ confirmed' = {Owner}
    /\ pending' = c.who
    /\ control' = Append(control, [kind |-> "reset"])
    /\ spent' = 0
    /\ UNCHANGED <<packages, posts>>

-----------------------------------------------------------------------------
(* A command's round trips. *)

Holds(d, at) == op[d].at = at
Goto(d, next) == op' = [op EXCEPT ![d] = next]
SetMls(d, m) == mls' = [mls EXCEPT ![d] = m]

(* The command returns an error; what it had accepted stays unsaved. *)
Fail(d) ==
    /\ Goto(d, Idle)
    /\ stuck' = IF op[d].dirty THEN stuck \cup {d} ELSE stuck

(* An acceptable event: answered, stored without the answer arriving, or   *)
(* never arriving.                                                         *)
Submitted(d, Store, Answered) ==
    \/ Store /\ Answered /\ UNCHANGED <<stuck, faults>>
    \/ /\ faults < plan.faults
       /\ faults' = faults + 1
       /\ UNCHANGED storeVars
       /\ \/ Store /\ Goto(d, Idle) /\ stuck' = stuck \cup {d}
          \/ Fail(d) /\ UNCHANGED logVars

Refused(d) == Fail(d) /\ UNCHANGED <<logVars, storeVars, faults>>

(* The chain check, which a stuck device fails. *)
Contiguous(d) == d \notin stuck

-----------------------------------------------------------------------------
(* Own commits: merged into the local group first, then submitted.         *)

Local(d, g) == groups[d][g]
Merge(d, g, c) == groups' = [groups EXCEPT ![d][g] = Append(@, c)]

StartCommit(d, g, c, then, dirty) ==
    /\ Len(Local(d, g)) < plan.epochs
    /\ Merge(d, g, c)
    /\ Goto(d, [at |-> "commit", gen |-> g, base |-> Local(d, g), commit |-> c,
                then |-> then, dirty |-> dirty])
    /\ UNCHANGED <<logVars, gone, secrets, published, mls, opening, stuck, faults>>

LeafView(path) ==
    {Owner} \cup {x \in Device : \E i \in 1..Len(path) :
        /\ path[i].what # "remove" /\ x \in path[i].who
        /\ \A j \in i..Len(path) : ~(path[j].what = "remove" /\ x \in path[j].who)}

RekeyChannel(d) ==
    /\ "rekey" \in plan.start
    /\ Holds(d, "idle") /\ mls[d].confirmed
    /\ Local(d, mls[d].gen) # NoGroup
    /\ StartCommit(d, mls[d].gen, Commit(d, "rekey", {}, {}), "done", FALSE)

(* Triggered on the owner's client; the roster it adds from was fetched    *)
(* before, so the member may have been expelled since. Each member of the  *)
(* command's loop is a command here: one that fails for another reason     *)
(* than its epoch is skipped, and the loop goes on with the next.          *)
AddMember(x) ==
    LET g == mls[Owner].gen
        offered == {p \in packages : p[1] = x}
    IN  /\ "add" \in plan.start
        /\ Holds(Owner, "idle") /\ Local(Owner, g) # NoGroup
        /\ x \notin LeafView(Local(Owner, g))
        /\ \E p \in offered :
              /\ \A q \in offered : q[2] <= p[2]
              /\ StartCommit(Owner, g, Commit(Owner, "add", {x}, {p}), "welcome", FALSE)

CommitAnswered(d) ==
    LET o == op[d]
        g == o.gen
    IN  /\ CASE o.then = "welcome" -> Goto(d, [at |-> "welcome", gen |-> g, dirty |-> TRUE,
                                               tree |-> Local(d, g), commit |-> o.commit])
             [] o.then = "send" -> Goto(d, [at |-> "send", repaired |-> TRUE, tries |-> 0,
                                            barren |-> 0, cursor |-> mls[d].cursor,
                                            dirty |-> TRUE])
             [] o.then = "done" -> Goto(d, Idle)
        /\ IF o.commit.what = "boot" THEN SetMls(d, [NotJoined EXCEPT !.confirmed = TRUE])
                                     ELSE UNCHANGED mls
        /\ UNCHANGED <<groups, secrets, published, opening>>

(* No answer but acceptance undoes the merge, or ever will. *)
CommitSubmit(d) ==
    LET o == op[d] IN
    /\ Holds(d, "commit")
    /\ UNCHANGED gone
    /\ \/ /\ ~Stale(o.gen, o.base) /\ Contiguous(d) /\ CommitAllowed(d, o.base, o.commit)
          /\ Submitted(d, StoreCommit(d, o.base, o.commit), CommitAnswered(d))
       \/ /\ \/ Stale(o.gen, o.base) \/ ~Contiguous(d)
             \/ ~CommitAllowed(d, o.base, o.commit) \/ RateMayRefuse(o.commit)
          /\ Refused(d)

WelcomeAnswered(d) ==
    /\ Goto(d, Idle)
    /\ SetMls(d, [gen |-> op[d].gen, confirmed |-> TRUE, cursor |-> 0])
    /\ UNCHANGED <<groups, secrets, published, opening>>

WelcomeSubmit(d) ==
    LET o == op[d]
        x == CHOOSE y \in o.commit.who : TRUE
        pkg == CHOOSE p \in o.commit.pkgs : TRUE
    IN  /\ Holds(d, "welcome")
        /\ UNCHANGED gone
        /\ IF /\ Contiguous(d) /\ d \notin gone /\ o.gen = gen
              /\ d \in confirmed /\ x \in pending
           THEN Submitted(d, StoreWelcome(gen, x, o.tree, pkg), WelcomeAnswered(d))
           ELSE Refused(d)

-----------------------------------------------------------------------------
(* Sending: send_sealed_keepalive, then send_sealed_resync. *)

Sending(o) == o.at \in {"send", "resync"} \/ (o.at = "commit" /\ o.then = "send")

SendSealedMessage(d) ==
    /\ "send" \in plan.start
    /\ Holds(d, "idle") /\ mls[d].confirmed
    /\ Local(d, mls[d].gen) # NoGroup
    /\ Cardinality(posts) + Cardinality({x \in Device : Sending(op[x])}) < plan.posts
    /\ Goto(d, [at |-> "send", repaired |-> FALSE, tries |-> 0, barren |-> 0,
                cursor |-> mls[d].cursor, dirty |-> FALSE])
    /\ UNCHANGED <<logVars, gone, storeVars, stuck, faults>>

Dead(d) == LeafView(Local(d, mls[d].gen)) \cap gone

(* Each repair once, in the first pass only; the bound on epochs refuses. *)
MayRepair(o, path) == ~o.repaired /\ o.tries = 0 /\ Len(path) < plan.epochs

(* A resync's cursor is saved only now. *)
SendAnswered(d) ==
    /\ Goto(d, [at |-> "cadence", dirty |-> FALSE])
    /\ SetMls(d, [mls[d] EXCEPT !.cursor = op[d].cursor])
    /\ UNCHANGED <<groups, secrets, published, opening>>

SendSubmit(d) ==
    LET o == op[d]
        g == mls[d].gen
        path == Local(d, g)
    IN
    /\ Holds(d, "send")
    /\ \/ /\ Stale(g, path)
          /\ Goto(d, [o EXCEPT !.at = "resync"])
          /\ UNCHANGED <<logVars, gone, storeVars, stuck, faults>>
       \/ /\ ~Stale(g, path)
          /\ \/ ~Contiguous(d) \/ PostRefused(d)
             \/ (Drift # {} \/ spent >= FreshnessCeiling) /\ ~MayRepair(o, path)
             \/ Drift # {} /\ Dead(d) = {}
             \/ Drift = {} /\ spent < FreshnessCeiling /\ ResetIncomplete
          /\ Refused(d) /\ UNCHANGED gone
       \/ /\ ~Stale(g, path) /\ Contiguous(d) /\ ~PostRefused(d) /\ MayRepair(o, path)
          /\ \/ /\ Drift # {} /\ Dead(d) # {}
                /\ StartCommit(d, g, Commit(d, "remove", Dead(d), {}), "send", o.dirty)
             \/ /\ Drift = {} /\ spent >= FreshnessCeiling
                /\ StartCommit(d, g, Commit(d, "rekey", {}, {}), "send", o.dirty)
       \/ /\ ~Stale(g, path) /\ Contiguous(d) /\ ~PostRefused(d)
          /\ Drift = {} /\ spent < FreshnessCeiling /\ ~ResetIncomplete
          /\ Submitted(d, StorePost(d, path), SendAnswered(d)) /\ UNCHANGED gone

(* A commit applies at its epoch, in its group, to its base; one of an     *)
(* epoch gone by is a replay; any other is an error.                       *)
AppliesByEpoch(g, path, e) == Len(e.base) = Len(path)   \* mutant
Applies(g, path, e) == e.gen = g /\ e.base = path
Behind(path, e) == Len(e.base) < Len(path)

(* The group after the fetched commits, or where the first error stopped   *)
(* it.                                                                     *)
After(g, path, events) ==
    LET step[i \in 0..Len(events)] ==
            IF i = 0 THEN [path |-> path, ok |-> TRUE]
            ELSE LET s == step[i - 1]
                     e == events[i]
                 IN  IF ~s.ok \/ e.kind # "commit" \/ Behind(s.path, e) THEN s
                     ELSE IF Applies(g, s.path, e)
                          THEN [s EXCEPT !.path = Append(@, e.commit)]
                     ELSE [s EXCEPT !.ok = FALSE]
    IN  step[Len(events)]

FetchedPastNext(cursor) == SubSeq(control, cursor + 2, Len(control))   \* mutant
Fetched(cursor) == SubSeq(control, cursor + 1, Len(control))

Uncounted(n) == n   \* mutant
Counted(n) == n + 1

GivesUp(barren, tries) == barren >= MaxUnproductive \/ tries >= MaxTotal

Resync(d) ==
    LET o == op[d]
        g == mls[d].gen
        after == After(g, Local(d, g), Fetched(o.cursor))
        barren == IF after.path = Local(d, g) THEN Counted(o.barren) ELSE 0
    IN  /\ Holds(d, "resync")
        /\ groups' = [groups EXCEPT ![d][g] = after.path]
        /\ IF ~after.ok \/ GivesUp(barren, Counted(o.tries))
           THEN Fail(d)
           ELSE /\ Goto(d, [o EXCEPT !.at = "send", !.tries = Counted(@), !.barren = barren,
                                      !.cursor = Len(control)])
                /\ UNCHANGED stuck
        /\ UNCHANGED <<logVars, gone, secrets, published, mls, opening, faults>>

(* The message is delivered; a proactive rekey is best effort.             *)
ProactiveRekey(d) ==
    /\ Holds(d, "cadence")
    /\ \/ /\ Goto(d, Idle)
          /\ UNCHANGED <<logVars, gone, storeVars, stuck, faults>>
       \/ /\ "cadence" \in plan.start
          /\ StartCommit(d, mls[d].gen, Commit(d, "rekey", {}, {}), "done", FALSE)

-----------------------------------------------------------------------------
(* process_mls_control_events, run when a control event is broadcast or    *)
(* the channel is opened; the window publishes when it hears "unconfirmed".*)

(* Nothing else touches the group meanwhile, so what lies between two      *)
(* round trips is one step.                                                *)
ProcessRest(d, g, events, next, opened, m) ==
    LET path == Local(d, g)
        after == IF path = NoGroup THEN [path |-> NoGroup, ok |-> TRUE]
                 ELSE After(g, path, events)
    IN
    /\ groups' = [groups EXCEPT ![d][g] = after.path]
    /\ UNCHANGED secrets
    /\ IF ~after.ok
       THEN Fail(d) /\ UNCHANGED <<mls, opening>>
       ELSE /\ SetMls(d, [m EXCEPT !.cursor = next])
            /\ Goto(d, Idle)
            /\ opening' = IF opened /\ ~m.confirmed THEN opening \cup {d} ELSE opening
            /\ UNCHANGED stuck

JoinChannel(d, e, rest) ==
    /\ UNCHANGED <<mls, opening>>
    /\ \/ /\ e.pkg \notin secrets[d]
          /\ Fail(d)
          /\ UNCHANGED <<groups, secrets>>
       \/ /\ e.pkg \in secrets[d]
          /\ groups' = [groups EXCEPT ![d][e.gen] = e.tree]
          /\ secrets' = [secrets EXCEPT ![d] = @ \ {e.pkg}]
          /\ Goto(d, [at |-> "confirm", gen |-> e.gen, events |-> rest.events,
                      next |-> rest.next, opened |-> rest.opened, dirty |-> FALSE])
          /\ UNCHANGED stuck

ConfirmAnswered(d) ==
    /\ Goto(d, [op[d] EXCEPT !.at = "process"])
    /\ SetMls(d, [mls[d] EXCEPT !.gen = op[d].gen, !.confirmed = TRUE])
    /\ UNCHANGED <<groups, secrets, published, opening>>

MyWelcome(d, e) == e.kind = "welcome" /\ e.for = d

UpToJoin(d, path, events) ==
    IF path = NoGroup /\ \E i \in DOMAIN events : MyWelcome(d, events[i])
    THEN CHOOSE i \in DOMAIN events :
            MyWelcome(d, events[i]) /\ \A j \in 1..(i - 1) : ~MyWelcome(d, events[j])
    ELSE 0

ProcessMlsControlEvents(d, opened) ==
    LET g == mls[d].gen
        events == Fetched(mls[d].cursor)
        join == UpToJoin(d, Local(d, g), events)
    IN
    /\ Holds(d, "idle") /\ d \notin gone
    /\ published[d] > 0 \/ d = Owner
    /\ mls[d].cursor < Len(control) \/ (opened /\ ~mls[d].confirmed)
    /\ IF join # 0
       THEN JoinChannel(d, events[join], [events |-> SubSeq(events, join + 1, Len(events)),
                                          next |-> Len(control), opened |-> opened])
       ELSE ProcessRest(d, g, events, Len(control), opened, mls[d])
    /\ UNCHANGED <<logVars, gone, published, faults>>

ConfirmLeaf(d) ==
    LET o == op[d] IN
    /\ Holds(d, "confirm")
    /\ UNCHANGED gone
    /\ IF Contiguous(d) /\ ConfirmAllowed(d, o.gen, Local(d, o.gen))
       THEN Submitted(d, StoreConfirm(d), ConfirmAnswered(d))
       ELSE Refused(d)

ProcessOn(d) ==
    LET o == op[d] IN
    /\ Holds(d, "process")
    /\ ProcessRest(d, o.gen, o.events, o.next, o.opened, mls[d])
    /\ UNCHANGED <<logVars, gone, published, faults>>

(* The first opening finds no store and publishes too. *)
OpenWithoutStore(d) ==
    /\ Holds(d, "idle") /\ d \notin gone /\ d # Owner
    /\ published[d] = 0 /\ d \notin opening
    /\ opening' = opening \cup {d}
    /\ UNCHANGED <<logVars, gone, groups, secrets, published, mls, op, stuck, faults>>

PublishOwnKeyPackage(d) ==
    LET n == published[d] + 1 IN
    /\ Holds(d, "idle") /\ d \in opening /\ d \notin gone
    /\ n <= MaxPackages /\ Contiguous(d)
    /\ StorePackage(d, n)
    /\ published' = [published EXCEPT ![d] = n]
    /\ secrets' = [secrets EXCEPT ![d] = @ \cup {<<d, n>>}]
    /\ SetMls(d, NotJoined)
    /\ opening' = opening \ {d}
    /\ UNCHANGED <<gone, groups, op, stuck, faults>>

-----------------------------------------------------------------------------
(* Expulsion, reset, and the application closing. *)

Expel(x) ==
    /\ "expel" \in plan.start
    /\ x # Owner /\ x \notin gone
    /\ gone' = gone \cup {x}
    /\ UNCHANGED <<logVars, storeVars, op, stuck, faults>>

(* Everybody entitled, each with a package, in one fresh group. *)
ResetGroup ==
    LET g == mls[Owner].gen
        members == {x \in Device \ {Owner} : x \notin gone}
        newest(x) == CHOOSE p \in packages : p[1] = x /\ \A q \in packages : q[1] = x => q[2] <= p[2]
        c == Commit(Owner, "reset", members, {newest(x) : x \in members})
    IN  /\ "reset" \in plan.start
        /\ Holds(Owner, "idle") /\ g < MaxGeneration
        /\ Local(Owner, g) # NoGroup /\ Local(Owner, g + 1) = NoGroup
        /\ \A x \in members : \E p \in packages : p[1] = x
        /\ groups' = [groups EXCEPT ![Owner][g + 1] = IF members = {} THEN <<>> ELSE <<c>>]
        /\ Goto(Owner, [at |-> "reset", gen |-> g + 1, commit |-> c, left |-> members,
                        dirty |-> FALSE])
        /\ UNCHANGED <<logVars, gone, secrets, published, mls, opening, stuck, faults>>

StagedAnswered(x) ==
    /\ Goto(Owner, [op[Owner] EXCEPT !.left = @ \ {x}, !.dirty = TRUE])
    /\ UNCHANGED storeVars

ResetAnswered ==
    /\ Goto(Owner, Idle)
    /\ SetMls(Owner, [gen |-> op[Owner].gen, confirmed |-> TRUE, cursor |-> 0])
    /\ UNCHANGED <<groups, secrets, published, opening>>

ResetSubmit ==
    LET o == op[Owner] IN
    /\ Holds(Owner, "reset")
    /\ UNCHANGED gone
    /\ \/ \E x \in o.left : \E p \in o.commit.pkgs :
             /\ p[1] = x
             /\ IF Contiguous(Owner) /\ o.gen = gen + 1
                THEN Submitted(Owner, StoreWelcome(o.gen, x, <<o.commit>>, p), StagedAnswered(x))
                ELSE Refused(Owner)
       \/ /\ o.left = {}
          /\ IF /\ Contiguous(Owner) /\ o.gen = gen + 1
                /\ o.commit.who = {x \in Device \ {Owner} : x \notin gone}
             THEN Submitted(Owner, StoreReset(o.commit), ResetAnswered)
             ELSE Refused(Owner)

AppCloses(d) ==
    /\ "close" \in plan.start
    /\ op[d] # Idle \/ d \in opening
    /\ opening' = opening \ {d}
    /\ Fail(d)
    /\ UNCHANGED <<logVars, gone, groups, secrets, published, mls, faults>>

-----------------------------------------------------------------------------

StewardStep(d) ==
    \/ CommitSubmit(d) \/ WelcomeSubmit(d) \/ SendSubmit(d) \/ Resync(d) \/ ProactiveRekey(d)
    \/ ProcessOn(d) \/ ConfirmLeaf(d) \/ (d = Owner /\ ResetSubmit)

StewardStart(d) ==
    \/ RekeyChannel(d) \/ SendSealedMessage(d) \/ AddMember(d)
    \/ \E opened \in BOOLEAN : ProcessMlsControlEvents(d, opened)
    \/ OpenWithoutStore(d) \/ PublishOwnKeyPackage(d)
    \/ Expel(d) \/ AppCloses(d)

StewardNext ==
    /\ \/ ResetGroup
       \/ \E d \in Device : StewardStep(d) \/ StewardStart(d)
    /\ UNCHANGED plan

StewardSpec == StewardInit /\ [][StewardNext]_stewardVars

(* A command runs on; a control event is processed when broadcast, and the *)
(* chain lock is a queue, so that nobody starts commands in its place for  *)
(* ever.                                                                   *)
FairStewardSpec ==
    /\ StewardSpec
    /\ \A d \in Device : /\ WF_stewardVars(StewardStep(d) /\ UNCHANGED plan)
                         /\ SF_stewardVars(ProcessMlsControlEvents(d, FALSE) /\ UNCHANGED plan)

-----------------------------------------------------------------------------
(* Properties. *)

IsPrefix(s, t) == Len(s) <= Len(t) /\ SubSeq(t, 1, Len(s)) = s
InStep(d) == Local(d, gen) # NoGroup /\ IsPrefix(Local(d, gen), Tree)

(* Types: a command in flight holds what its next step needs.              *)
StewardTypeOK ==
    /\ gen \in Generation /\ chained \in BOOLEAN
    /\ \A S \in {confirmed, pending, gone, opening, stuck} : S \subseteq Device
    /\ confirmed \cap pending = {}
    /\ \A p \in packages : p[1] \in Device /\ p[2] \in 1..published[p[1]]
    /\ \A d \in Device : /\ mls[d].gen \in Generation
                         /\ mls[d].cursor \in 0..Len(control)
                         /\ secrets[d] \subseteq {d} \X (1..published[d])
                         /\ op[d].at = "commit" => Local(d, op[d].gen) # NoGroup

(* Only its own commits take a device off the log's tree, and once off it  *)
(* merges nobody else's: whatever the log refused, lost, raced or reset    *)
(* away (process_incoming_commit's gates, and the order of a commit and    *)
(* its Welcome).                                                           *)
ForksAreSelfMade ==
    \A d \in Device : \A g \in 0..gen :
        LET path == Local(d, g) IN
        path # NoGroup => \A i \in DOMAIN path :
            path[i].by = d \/ IsPrefix(SubSeq(path, 1, i), trees[g])

(* What was accepted can be read: a post is sealed under the very tree the *)
(* log holds at its epoch (the Err arm of the proactive rekey: an epoch    *)
(* ahead is something "the send path's existing bounded resync already     *)
(* recovers from on the next send").                                       *)
AcceptedPostsReadable == \A p \in posts : IsPrefix(p.path, trees[p.gen])

(* useMlsSteward.ts:108: publishing "must never run on an already-         *)
(* confirmed member".                                                      *)
PublishNeverUnconfirms ==
    [][\A d \in Device : published'[d] # published[d] => ~mls[d].confirmed]_stewardVars

FollowsTheLog(d, g) ==
    gen = g /\ mls[d].gen = g /\ InStep(d)
        ~> Local(d, g) \in {trees[g], <<>>} \/ gen # g \/ ~InStep(d) \/ d \in gone

(* A device in step with the log comes to hold the log's tree, forks by a  *)
(* commit of its own, or is cut off (run_process_mls_control_events).      *)
StewardCatchesUp == \A d \in Device : FollowsTheLog(d, 0)

(* So after a reset, in its group: the cursor starts again, and "an        *)
(* already-applied commit is a replay" (commands.rs:5925).                 *)
ResetGroupIsFollowed == \A d \in Device : \A g \in 1..MaxGeneration : FollowsTheLog(d, g)

(* Every command ends: the resync of a send is bounded both by attempts    *)
(* that gain nothing and by all attempts (resync.rs).                      *)
StewardCommandsEnd == \A d \in Device : op[d] # Idle ~> op[d] = Idle

(* The channel's group as LeafRecord sees it. *)
TheChannel == "channel"

record == [c \in {TheChannel} |-> [generation |-> gen,
                                   epoch      |-> Len(Tree),
                                   confirmed  |-> confirmed,
                                   pending    |-> pending]]

Record == INSTANCE LeafRecord WITH Channel <- {TheChannel}, Leaf <- Device, record <- record

(* The server these clients are modelled against promises what the fold     *)
(* promises (LogMls!ImplementsLeafRecord), answers lost or not.             *)
ServerImplementsLeafRecord == Record!Spec
=============================================================================
