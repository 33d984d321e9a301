--------------------------- MODULE MCDeployQueue ---------------------------
(* Instances of DeployQueue for TLC. *)
EXTENDS DeployQueue, TLC

CONSTANTS p1, p2, e1, e2, e3, e4, r1, r2, r3, r4, t1, t2

(* A run of two executions on two targets, a run of one, and in some *)
(* instances a stop.                                                 *)
TwoThenOne    == [e \in Executions |-> CASE e \in {e1, e2} -> r1 [] e = e3 -> r2 [] e = e4 -> r3]
TwoTargets    == [e \in Executions |-> IF e = e2 THEN t2 ELSE t1]
OneRunOfTwo   == (e1 :> r1) @@ (e2 :> r1)

Deploys       == [r \in Runs |-> "deploy"]
ThenStop      == [r \in Runs |-> IF r = r3 THEN "stop" ELSE "deploy"]

InOrder == [e \in Executions |-> CASE e = e1 -> 1 [] e = e2 -> 2 [] e = e3 -> 3 [] e = e4 -> 4]
=============================================================================
