---------------------------- MODULE MCSettlement ----------------------------
(* Settlement for TLC.  One request settled with its activity row in the     *)
(* commit, or one without, by two deliveries and a drain worker each; two    *)
(* workers that draw on one intent's lease; and a key's own request, billed  *)
(* to the key alone.                                                         *)
EXTENDS Settlement

CONSTANTS a1, a2, d1, d2, w1, w2

\* A hold on the workspace and on the key, and one on the key alone.
MCHolds == {[credit |-> 2, key |-> 2], [credit |-> 0, key |-> 1]}

\* A settle, a settle of a key's own request, and a refund.
MCTerminals ==
  {[kind |-> "settle", cost |-> 1, byok |-> b] : b \in BOOLEAN}
    \union {[kind |-> "refund", cost |-> 1, byok |-> FALSE]}

VARIABLE scenario

MCInit == Init /\ scenario \in {"commit", "index", "workers", "byok"}

Untouched(a) == res'[a].state = None
Alone(w) == worker'[w] = Idle
Metered == \A d \in Deliveries : ~delivery'[d].byok
WithCredit == \A a \in Auths : res'[a].credit = 2 \/ res'[a].state = None

Within ==
  CASE scenario = "commit" -> Untouched(a2) /\ Alone(w2) /\ WithCredit /\ Metered
    [] scenario = "index" -> Untouched(a1) /\ Alone(w2) /\ WithCredit /\ Metered
    [] scenario = "workers" ->
         Untouched(a1) /\ delivery'[d2].pc = "idle" /\ WithCredit /\ Metered
    [] scenario = "byok" ->
         /\ Untouched(a2) /\ Alone(w2) /\ faults' <= 1
         /\ auth'[a1].snapshot = 0
         /\ \A d \in Deliveries : delivery'[d].kind = "settle"

\* The drain's fairness, of the workers that the scenario has.
MCFairness ==
  /\ \A w \in Workers : WF_vars(Draining(w) /\ Within)
  /\ \A p \in Auths \X Kinds : WF_vars(LapseLease(p) /\ Within)

MCSpec ==
  MCInit /\ [][Next /\ Within /\ UNCHANGED scenario]_<<vars, scenario>>
    /\ MCFairness

=============================================================================
