----------------------------- MODULE MCSessions -----------------------------
(* The owner and a member with a channel; connections that may be either's. *)
EXTENDS Sessions, TLC

CONSTANTS owner, member, ch, c1, c2, c3

MCMember == {owner, member}
MCConn == {c1, c2, c3}
MCUpgraded == {c2, c3}
Alike == Permutations({c2, c3})
Everything == {"lostAnswer", "category"}
=============================================================================
