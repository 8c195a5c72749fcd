---------------------------- MODULE MCLeaseOwner ----------------------------
(***************************************************************************)
(* LeaseOwner for TLC.  A scenario is the actors that take part beside the *)
(* requests, the flusher and the log's sender, and its bounds: one lease   *)
(* with all of them at once is out of reach.                               *)
(*                                                                         *)
(*   publish   publishes fail, are stored though they failed, and retried  *)
(*   lapse     the same, across cutoffs and renewals                       *)
(*   reap      the reaper and the drain log                                *)
(*   adopt     two holds' rows adopted after a renewal                     *)
(*   audit     the auditor and the shortfall writer, to the lease's close  *)
(*   end       every way the lease ends                                    *)
(*   retry     liveness: records failed and cutoffs passed                 *)
(*   finish    liveness: shortfalls written and the lease closed           *)
(***************************************************************************)
EXTENDS LeaseOwner, TLC

CONSTANT Scenarios

VARIABLE scenario

\* A hold's expected overrun: one unit on each.
MCOverrun == [e \in Estimates |-> 1]
MCNoOverrun == [e \in Estimates |-> 0]

\* A stream may report one unit more than its hold.
MCCeiling == [e \in Estimates |-> e + 1]

AuthSymmetry == Permutations(Auths)

Cast(s) ==
  CASE s = "publish" -> {"auditor"}
    [] s = "lapse" -> {"lapse", "round"}
    [] s = "reap" -> {"frontdoor", "lapse", "reaper", "round"}
    [] s = "adopt" -> {"frontdoor", "lapse", "round"}
    [] s = "audit" -> {"auditor", "close", "frontdoor", "round", "writer"}
    [] s = "end" -> {"close", "handoff", "lapse", "revoke", "round", "stop",
                     "switch"}
    [] s = "retry" -> {"lapse", "round"}
    [] s = "finish" -> {"close", "round", "writer"}

Plays(actor) == actor \in Actors \intersect Cast(scenario)

Used == {a \in Auths : hold[a].state /= "unused"}

\* At most a holds, r records, d rows and f failed publishes.
AtMost(a, r, d, f) ==
  /\ Cardinality(Used') <= a
  /\ Len(log') <= r
  /\ Len(drain') <= d
  /\ failures' <= f

\* The open holds are of the modes ms, and the charges settled, reported and
\* drained are in cs.
Only(ms, cs) ==
  /\ \A a \in Open' : hold'[a].mode \in ms
                       /\ hold'[a].running \in cs \union {0}
  /\ \A n \in 1 .. Len(log') : log'[n].charge \in cs \union {0}
  /\ \A i \in 1 .. Len(drain') : drain'[i].charge \in cs \union {0}

Heartbeats == {n \in 1 .. Len(log) : log[n].kind = "heartbeat"}

NoRefunds ==
  /\ \A n \in 1 .. Len(log') : log'[n].kind /= "refund"
  /\ \A i \in 1 .. Len(drain') : drain'[i].kind /= "refund"

Bounds ==
  CASE scenario = "publish" ->
         AtMost(3, 4, 0, 2) /\ Only({"stream"}, {1, 3}) /\ Heartbeats' = {}
    [] scenario = "lapse" ->
         AtMost(2, 2, 0, 1) /\ Only({"request"}, {1})
    [] scenario = "reap" ->
         AtMost(1, 2, 2, 0) /\ Only(Modes, {3})
    [] scenario = "adopt" ->
         AtMost(2, 2, 2, 0) /\ Only({"stream"}, {3}) /\ Heartbeats' = {}
    [] scenario = "audit" ->
         AtMost(2, 3, 1, 0) /\ Only({"stream"}, {3})
           /\ NoRefunds
    [] scenario = "end" ->
         AtMost(1, 2, 0, 0) /\ Only({"request"}, {1})
    [] scenario = "retry" -> Only(Modes, {1})
    [] scenario = "finish" -> Only(Modes, {3})

MCNext ==
  \/ Request \/ Flusher \/ Sender \/ FailLong \/ StopWorkers
  \/ Plays("auditor") /\ Auditor
  \/ Plays("close") /\ Close
  \/ Plays("frontdoor") /\ FrontDoor
  \/ Plays("handoff") /\ Handoffs
  \/ Plays("lapse") /\ PassCutoff
  \/ Plays("reaper") /\ Reaper
  \/ Plays("revoke") /\ (RowRevoked \/ RowExpires)
  \/ Plays("round") /\ Round
  \/ Plays("stop") /\ Stop
  \/ Plays("switch") /\ Switch
  \/ Plays("writer") /\ Writer

MCInit == Init /\ scenario \in Scenarios

MCSpec ==
  MCInit /\ [][MCNext /\ Bounds /\ UNCHANGED scenario]_<<vars, scenario>>

\* The bounds of the scenarios it is used with are on the requests alone, so
\* that no action assumed fair is kept from happening.
MCFairSpec == MCSpec /\ Fairness

=============================================================================
