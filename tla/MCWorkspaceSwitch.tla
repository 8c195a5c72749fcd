-------------------------- MODULE MCWorkspaceSwitch --------------------------
(***************************************************************************)
(* Instances of WorkspaceSwitch: workspaces in the order of their usage.   *)
(* The standing of the workspaces changes while the current tools run      *)
(* alone; older tools run beside them, and leases are granted, while it    *)
(* stands still.                                                           *)
(***************************************************************************)
EXTENDS WorkspaceSwitch

CONSTANTS w1, w2

ByUsage == [w \in Workspaces |-> IF w = w1 THEN 1 ELSE 2]

VARIABLE scenario

MCInit == SwitchInit /\ scenario \in {"standing", "rollback"}

MCNext ==
    /\ \/ Operators \/ Enabler
       \/ scenario = "standing" /\ Standing
       \/ scenario = "rollback" /\ (OlderTools \/ Leases)
    /\ UNCHANGED scenario

MCSpec == MCInit /\ [][MCNext]_<<switchVars, scenario>> /\ SwitchFairness
=============================================================================
