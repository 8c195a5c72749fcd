------------------------------ MODULE MCVideoJobs ------------------------------
(***************************************************************************)
(* Instances of VideoJobs: two attempts under one authorization; the       *)
(* pollers are interchangeable.                                            *)
(***************************************************************************)
EXTENDS VideoJobs, TLC

CONSTANT a1

OneAuth == [j \in Jobs |-> a1]
Symmetric == Permutations(Pollers) \cup Permutations(Jobs)
=============================================================================
