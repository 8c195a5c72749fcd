-------------------------- MODULE MCCreditTransfer --------------------------
(* CreditTransfer for TLC: two sources that use the same transfer id at one  *)
(* destination; one source whose destination changes under two operators;    *)
(* and one with a queue of two ids for recovery to work through.             *)
EXTENDS CreditTransfer

CONSTANTS s1, s2, p1, p2, o1, o2, w

VARIABLE scenario

MCInit ==
  /\ Init
  /\ scenario \in {"shared", "rerouted", "queue"}
  /\ \A s \in Sources : peer[s] = p1
  /\ \A d \in Destinations : federated[d] = {}

OnlyOneId == \A s \in Sources : transfer'[s, 2].state = None
OnlyOneSource == transfer'[s2, 1].state = None /\ driver'[s2] = Idle
OnlyOneOperator == driver'[o2] = Idle

Within ==
  CASE scenario = "shared" -> 
         /\ OnlyOneId /\ OnlyOneOperator /\ moves' = 0 /\ federated'[p2] = {}
         /\ faults' <= 1
    [] scenario = "rerouted" -> OnlyOneId /\ OnlyOneSource
    [] scenario = "queue" ->
         /\ OnlyOneSource /\ transfer'[s2, 2].state = None
         /\ OnlyOneOperator /\ faults' <= 1
         /\ transfer'[s1, 1].state # None => transfer'[s1, 1].amount = 1

\* The fairness of the specification, for what the scenario has.
MCFairness ==
  /\ \A s \in Sources : WF_vars(Recovering(s) /\ Within)
  /\ \A d \in Destinations : WF_vars(Federate(d, w) /\ Within)

MCSpec ==
  MCInit /\ [][Next /\ Within /\ UNCHANGED scenario]_<<vars, scenario>>
    /\ MCFairness

=============================================================================
