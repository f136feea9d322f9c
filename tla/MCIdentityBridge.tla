--------------------------- MODULE MCIdentityBridge ---------------------------
(***************************************************************************)
(* Two settings of IdentityBridge for TLC.  In the first one worker syncs  *)
(* three GitHub users, of whom two show one address and two one Twitter    *)
(* name, a Hugging Face user who may claim a login and a LinkedIn address, *)
(* so that profiles are merged more than once.  In the second two workers  *)
(* sync one person's accounts at the same time.                            *)
(***************************************************************************)
EXTENDS IdentityBridge

CONSTANTS w1, w2, g1, g2, g3, h1

VARIABLE setting

Address == [clean |-> "a", at |-> TRUE, noreply |-> FALSE]
Alias == [clean |-> "x"]
MCRaw == (g1 :> [email |-> Address, name |-> <<1, 2, 3>>]) @@ (g2 :> [email |-> Address, twitter |-> Alias])
         @@ (g3 :> [twitter |-> Alias]) @@ (h1 :> [name |-> <<1, 2, 3>>])

Crowd == INSTANCE IdentityBridge
    WITH GhUsers <- {g1}, RunModes <- {"full"}, MaxResolves <- 1, MaxReviews <- 0

ASSUME Assumptions ==
    /\ IdsAssumption /\ UsersAssumption /\ BridgeBoundsAssumption /\ ModesAssumption
    /\ Crowd!UsersAssumption /\ Crowd!ModesAssumption

MCInit == setting \in {"merges", "crowd"} /\ Init

MergesNext == setting = "merges" /\ Next /\ worker'[w2] = Idle /\ UNCHANGED setting
CrowdNext == setting = "crowd" /\ Crowd!Next /\ UNCHANGED setting

MCSpec == MCInit /\ [][MergesNext \/ CrowdNext]_<<setting, vars>>

=============================================================================
