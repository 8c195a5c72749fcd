----------------------------- MODULE MCCreditRows -----------------------------
(***************************************************************************)
(* Instances of CreditRows.  Rows: no payments, every other operation.     *)
(* Claims: a payment disputed and one refunded in part, with a hold and    *)
(* one other operation between.  Notices: one payment both disputed and    *)
(* refunded, up to four notices in every order.                            *)
(***************************************************************************)
EXTENDS CreditRows

TwoPayments == 1 .. 2
TwoPaid == <<3, 3>>
TwoCredited == <<2, 2>>
ThreeRefs == {"d1", "r1", "r2"}
ThreeKinds == [f \in ThreeRefs |-> IF f = "d1" THEN "dispute" ELSE "refund"]
ThreeAbout == [f \in ThreeRefs |-> IF f = "r2" THEN 2 ELSE 1]
ThreeRefunds == [f \in ThreeRefs |-> IF f = "d1" THEN 0 ELSE 2]

CONSTANTS r1, r2

VARIABLE scenario

MCInit ==
    /\ Init
    /\ scenario \in {"rows", "claims", "notices"}
    /\ scenario # "rows" => ShardCount(ws) = 2

OneHold(est) == holds'[r2] = NoHold /\ holds'[r1].amount \in {0, est}
OneShape == DOMAIN ws'.rows = DOMAIN ws.rows /\ "migration" \notin ws'.causes

Within ==
    CASE scenario = "rows" -> ws'.claims = ws.claims /\ story' = story
      [] scenario = "claims" ->
            /\ OneHold(2) /\ OneShape /\ moves' <= 1
            /\ story'["r1"] = <<>> /\ \A f \in Refs : Len(story'[f]) <= 2
            /\ Len(story'["d1"]) + Len(story'["r2"]) <= 3
      [] scenario = "notices" ->
            /\ OneHold(1) /\ OneShape /\ moves' = 0
            /\ story'["r2"] = <<>> /\ ~ws'.claims[2].credited
            /\ Len(story'["d1"]) + Len(story'["r1"]) <= 4

MCSpec == MCInit /\ [][Next /\ Within /\ UNCHANGED scenario]_<<vars, scenario>>
=============================================================================
