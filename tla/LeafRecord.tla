----------------------------- MODULE LeafRecord -----------------------------
(***************************************************************************)
(* What the event log promises about the groups of sealed channels, to a   *)
(* client that knows nothing of members, packages, rates or clocks: each   *)
(* channel has a generation and in it an epoch, which only go up, one at a *)
(* time; a leaf is put in by somebody who is in and counts only once it    *)
(* has confirmed itself, or made the group itself; and one event touches   *)
(* one channel.  LogMls implements this specification, and so does the     *)
(* server that Steward models its clients against.                         *)
(***************************************************************************)
EXTENDS Naturals

CONSTANTS Channel,
          Leaf          \* devices that may hold a place in a group

VARIABLE record         \* channel -> its generation, epoch and leaves

Init == record = [c \in Channel |->
                    [generation |-> 0, epoch |-> 0, confirmed |-> {}, pending |-> {}]]

Leaves(r) == r.confirmed \cup r.pending

(* Where a generation begins: a reset is its own first epoch. *)
FirstEpoch(r) == IF r.generation = 0 THEN 0 ELSE 1

(* Who commits to an empty tree, or to a new one, is in it. *)
Founding(r) == r.confirmed = {} \/ r.epoch = FirstEpoch(r)

Commit(c, by) ==
    LET r == record[c]
        own == IF Founding(r) THEN {by} ELSE {}
    IN  /\ r.confirmed # {} => by \in r.confirmed
        /\ \E adds \in SUBSET (Leaf \ Leaves(r)), removes \in SUBSET Leaves(r) :
              record' = [record EXCEPT ![c] =
                           [generation |-> r.generation,
                            epoch      |-> r.epoch + 1,
                            confirmed  |-> (r.confirmed \ removes) \cup own,
                            pending    |-> ((r.pending \cup adds) \ removes) \ own]]

Confirm(c, leaf) ==
    LET r == record[c] IN
    /\ leaf \in r.pending
    /\ record' = [record EXCEPT ![c] =
                    [generation |-> r.generation,
                     epoch      |-> r.epoch,
                     confirmed  |-> r.confirmed \cup {leaf},
                     pending    |-> r.pending \ {leaf}]]

(* A new group of the resetter's, whom everybody invited has yet to join. *)
Reset(c, by) ==
    \E invited \in SUBSET (Leaf \ {by}) :
        record' = [record EXCEPT ![c] =
                     [generation |-> record[c].generation + 1,
                      epoch      |-> 1,
                      confirmed  |-> {by},
                      pending    |-> invited]]

Next == /\ record' # record
        /\ \E c \in Channel, leaf \in Leaf :
              Commit(c, leaf) \/ Confirm(c, leaf) \/ Reset(c, leaf)

Spec == Init /\ [][Next]_record
=============================================================================
