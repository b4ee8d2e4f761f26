----------------------------- MODULE Membership -----------------------------
(***************************************************************************)
(* What the event log promises about one identity's standing, whoever the  *)
(* authors are and whatever devices they sign with: an identity is a       *)
(* stranger, waits for approval, is a member or is banned; it changes      *)
(* standing one identity at a time, a ban is left only through an explicit *)
(* unban, and the owner is never banned.  LogAuthz is checked, and proved, *)
(* to implement this specification.                                        *)
(***************************************************************************)
CONSTANTS Identity,     \* public keys that may appear in the log
          Owner         \* the genesis owner

VARIABLE standing

Standings == {"stranger", "pending", "member", "banned"}

(* The standings an identity may move to from each standing. *)
Moves == [stranger |-> {"pending", "member", "banned"},
          pending  |-> {"member", "stranger", "banned"},
          member   |-> {"stranger", "banned"},
          banned   |-> {"stranger"}]

Init == standing = [m \in Identity |-> IF m = Owner THEN "member" ELSE "stranger"]

Move(m, s) ==
    /\ s \in Moves[standing[m]]
    /\ s = "banned" => m # Owner
    /\ standing' = [standing EXCEPT ![m] = s]

Next == \E m \in Identity, s \in Standings : Move(m, s)

Spec == Init /\ [][Next]_standing
=============================================================================
