------------------------------ MODULE MCCashouts ------------------------------
(***************************************************************************)
(* Instances of Cashouts: one cash-out whose payable changes often and     *)
(* that requests and events handle at the same time, once oftener if no    *)
(* call is denied, or two that draw on the same balance, handled one call  *)
(* at a time.                                                              *)
(***************************************************************************)
EXTENDS Cashouts

CONSTANTS c1, c2, w1, w2

VARIABLE scenario

MCInit == Init /\ scenario \in {"crowded", "two"}

MCNext ==
    /\ Next
    /\ scenario = "crowded" =>
          cash'[c2] = NoCash /\ (changes'[c1] = MaxChanges => denials' = 0)
    /\ scenario = "two" => worker'[w2] = Idle /\ \A c \in Cashouts : changes'[c] <= 2
    /\ UNCHANGED scenario

MCSpec == MCInit /\ [][MCNext]_<<vars, scenario>> /\ Fairness
=============================================================================
