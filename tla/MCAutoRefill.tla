----------------------------- MODULE MCAutoRefill -----------------------------
(***************************************************************************)
(* Instances of AutoRefill: two callers on one settlement's job, which a   *)
(* refill makes good, or one caller and two settlements, whose refills     *)
(* together do not, with a fault or with tasks outside the queue.          *)
(***************************************************************************)
EXTENDS AutoRefill

CONSTANTS a1, a2, c1, c2

VARIABLE scenario

MCInit == RefillInit /\ scenario \in {"callers", "settlements"}

Outside(t) == t # Idle /\ ~t.queued

MCNext ==
    /\ RefillNext
    /\ scenario = "callers" => job'[a2] = NoJob
    /\ scenario = "settlements" =>
          /\ task'[c2] = Idle
          /\ faults' <= IF Outside(task'[c1]) THEN 0 ELSE 1
    /\ UNCHANGED scenario

MCSpec == MCInit /\ [][MCNext]_<<refillVars, scenario>> /\ Fairness
=============================================================================
