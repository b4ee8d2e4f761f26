------------------------------ MODULE MCRelay ------------------------------
(* Two clients, of two members, and one fault; or no client and two.        *)
EXTENDS Relay, TLC

CONSTANTS a, b, c1, c2

MCHolder == (c1 :> a) @@ (c2 :> b)

NoClients == \A c \in Client : client[c] = Waiting
StoryNext == RelayNext /\ (NoClients' \/ (faults' <= 1 /\ prompt))
StorySpec ==
    RelayInit /\ [][StoryNext]_relayVars /\ WF_relayVars(\E l \in Link : LinkStep(l))
=============================================================================
