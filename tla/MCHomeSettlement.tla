--------------------------- MODULE MCHomeSettlement ---------------------------
(***************************************************************************)
(* Instances of HomeSettlement: two requests of a workspace that the home  *)
(* plane knows, or one of them and one of a workspace that it does not.    *)
(***************************************************************************)
EXTENDS HomeSettlement

CONSTANTS w1, w2, r1, r2, r3

TwoWorkspaces == [r \in Requests |-> IF r = r3 THEN w2 ELSE w1]

VARIABLE scenario

Sent == IF scenario = "unknown" THEN {r2, r3} ELSE {r1, r2}

MCInit == Init /\ scenario \in {"known", "unknown"}

MCNext ==
    /\ Next
    /\ \A c \in Clients : client'[c] # Idle => client'[c].req \in Sent
    /\ UNCHANGED scenario

MCSpec == MCInit /\ [][MCNext]_<<vars, scenario>> /\ Fairness
=============================================================================
