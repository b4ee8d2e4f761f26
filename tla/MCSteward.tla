----------------------------- MODULE MCSteward -----------------------------
(* An owner and a member, and what their users start.                      *)
EXTENDS Steward

(* Two members commit and send against each other. *)
Quarrel == [start |-> {"add", "rekey", "send"}, epochs |-> 3, posts |-> 2, faults |-> 0]

(* Answers are lost, the application is closed. *)
Trouble == [start |-> {"add", "send", "close"}, epochs |-> 2, posts |-> 1, faults |-> 1]

(* A member is expelled, the group reset. *)
Upheaval == [start |-> {"add", "send", "cadence", "expel", "reset"},
             epochs |-> 3, posts |-> 1, faults |-> 0]

(* The group is reset and goes on. *)
Renewal == [start |-> {"send", "cadence", "reset"}, epochs |-> 3, posts |-> 2, faults |-> 0]

AllPlans == {Quarrel, Trouble, Upheaval}
QuarrelPlan == {Quarrel}
RenewalPlan == {Renewal}
=============================================================================
