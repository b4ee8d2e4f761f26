---------------------------- MODULE MCLogAuthz ----------------------------
(***************************************************************************)
(* Instances of LogAuthz for TLC: who holds which device key, and two      *)
(* stories told by one run, one about membership and one about devices.    *)
(***************************************************************************)
EXTENDS LogAuthz, TLC

CONSTANTS o, a, b,          \* the owner and two users
          d1, d2, d3, d4    \* device keys

VARIABLE story

storyVars == <<authzVars, story>>

(* One user has more devices than a cap of one allows, and another user     *)
(* holds the keys of both; which of the two is which makes no difference.   *)
Shared == {<<b, d2>>, <<b, d3>>}
TwoOfOne == {<<o, d1>>, <<a, d2>>, <<a, d3>>, <<b, d4>>} \cup Shared
DevicesOfOne == Permutations({d2, d3})

StoryInit == AuthzInit /\ story \in {"membership", "devices"}

(* Invites, approvals, kicks, bans and grants, one device each, at one      *)
(* moment.                                                                  *)
MembershipStep ==
    /\ \E k \in Keys \ Shared : AuthzStep(k[1], k[2], 0)
    /\ \A d \in Device : deviceExpiry'[d] \in {0, NoExpiry}
    /\ UNCHANGED revokedDevices
    /\ \A i \in Invite : invites'[i] # NoInvite => invites'[i].expires_at = 0
    /\ {d2, d3} \cap (DOMAIN deviceIdentity' \ {d \in Device : deviceIdentity'[d] = NoOne}) # {d2, d3}

(* Certificates, revocations, keys that pass to a second identity, and      *)
(* clocks. Only the two-device user's certificates run out, and only that    *)
(* user is banned.                                                          *)
DevicesStep ==
    /\ \E k \in Keys \ {<<b, d4>>}, ts \in Time : AuthzStep(k[1], k[2], ts)
    /\ UNCHANGED <<capabilities, invites>>
    /\ banned' \subseteq {a}
    /\ \A d \in Device : deviceIdentity'[d] # a => deviceExpiry'[d] = NoExpiry

StoryNext ==
    /\ IF story = "membership" THEN MembershipStep ELSE DevicesStep
    /\ UNCHANGED story

StorySpec == StoryInit /\ [][StoryNext]_storyVars
=============================================================================
