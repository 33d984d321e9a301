---------------------------- MODULE MCWorkflow ----------------------------
(* Instances of Workflow for TLC. *)
EXTENDS Workflow, TLC

CONSTANTS p1, p2, v1, r1, r2, s1, s2, s3

(* A build from generated metadata, a reviewed one, then a deployment. *)
Mixed          == (s1 :> "auto") @@ (s2 :> "review") @@ (s3 :> "deploy")
Building       == [s \in Steps |-> "build"]
ReviewFirst    == [s \in Steps |-> IF s = s1 THEN "review" ELSE "deploy"]
AllReviewed    == [s \in Steps |-> "review"]

AlwaysStop     == [s \in Steps |-> "stop"]
FirstContinues == [s \in Steps |-> IF s = s1 THEN "continue" ELSE "stop"]
InOrder        == [s \in Steps |-> CASE s = s1 -> 1 [] s = s2 -> 2 [] s = s3 -> 3]
=============================================================================
