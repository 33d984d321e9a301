------------------------------- MODULE JobBoard -------------------------------
(***************************************************************************)
(* What the orchestrator relies on of the jobs it has enqueued, a          *)
(* BuildBatch or a DeploymentRun: a job is open until it has an outcome,   *)
(* and then it keeps it, so that _check_current_step may act on the first  *)
(* terminal status it sees.  BuildQueue maps its batches onto this module  *)
(* and DeployQueue its runs; Workflow, whose JobEnds also has what either  *)
(* queue may do to a job where the mapping fails, is checked with both.    *)
(***************************************************************************)
CONSTANT Jobs

VARIABLE outcome    (* of each job: "absent", "open" or how it has ended     *)

Outcomes == {"success", "failed", "partial_failure"}

Init == outcome = [j \in Jobs |-> "absent"]

Submit(j) ==
  /\ outcome[j] = "absent"
  /\ outcome' = [outcome EXCEPT ![j] = "open"]

End(j) ==
  /\ outcome[j] = "open"
  /\ \E o \in Outcomes : outcome' = [outcome EXCEPT ![j] = o]

Next == \E j \in Jobs : Submit(j) \/ End(j)

Spec == Init /\ [][Next]_outcome
=============================================================================
