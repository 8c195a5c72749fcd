---------------------------- MODULE MCLeaseAudit ----------------------------
(***************************************************************************)
(* Instances of LeaseAudit, for two members and one hold: a lease of three *)
(* records before its fence, with a crash or a lost answer; and a lease   *)
(* that is drained to its close, with a record and a row, with a record    *)
(* and a crash, and with a row, a crash and a lost answer.  The fairness   *)
(* of time is for the last three: the first's behaviours end at the fence. *)
(***************************************************************************)
EXTENDS LeaseAudit

Charges == [from \in {"owner", "door", "reap"} |->
    CASE from = "owner" -> 1 [] from = "door" -> 2 [] from = "reap" -> 4]

VARIABLE scenario

MCInit == Init /\ scenario \in {"overtaken", "drained", "crashed", "unheard"}

Within ==
    CASE scenario = "overtaken" -> clock' = 0 /\ drain' = <<>> /\ crashes' + lost' <= 1
      [] scenario = "drained" -> Published' <= 1 /\ crashes' = 0 /\ lost' = 0
      [] scenario = "crashed" -> 
            /\ Published' <= 1 /\ lost' = 0
            /\ \A i \in DOMAIN drain' : drain'[i].from # "door"
      [] scenario = "unheard" -> Published' = 0

MCSpec ==
    MCInit /\ [][Next /\ Within /\ UNCHANGED scenario]_<<vars, scenario>> /\ Fairness
=============================================================================
