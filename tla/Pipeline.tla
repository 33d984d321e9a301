------------------------------ MODULE Pipeline ------------------------------
(***************************************************************************)
(* What a workflow run promises (docstrings of WorkflowRun, WorkflowStep   *)
(* and finish_step): it goes through the steps of its workflow in order,   *)
(* one at a time and each once; a failed step ends it, unless the step     *)
(* says "continue"; and its last status tells what happened.               *)
(***************************************************************************)
EXTENDS Naturals

CONSTANTS Runs, Steps, Position, OnFailure

VARIABLES
  stage,      (* per run: "absent", "waiting", "going" or its final status  *)
  progress    (* per run and step: "todo", "doing", "success" or "failed"   *)

vars == <<stage, progress>>

Init ==
  /\ stage = [r \in Runs |-> "absent"]
  /\ progress = [r \in Runs |-> [s \in Steps |-> "todo"]]

Over(o, s)  == o[s] = "success" \/ (o[s] = "failed" /\ OnFailure[s] = "continue")
Stopped(o)  == \E s \in Steps : o[s] = "failed" /\ OnFailure[s] = "stop"
Complete(o) == \A s \in Steps : o[s] \in {"success", "failed"}

(* The stages a run may be in once its steps are as o says. *)
Verdict(o) ==
  {"going"}
    \union (IF Stopped(o) THEN {"failed"} ELSE {})
    \union (IF Complete(o) /\ ~Stopped(o)
            THEN IF \A s \in Steps : o[s] = "success" THEN {"success"}
                 ELSE {"completed_with_failures"}
            ELSE {})

Submit(r) ==
  /\ stage[r] = "absent"
  /\ stage' = [stage EXCEPT ![r] = "waiting"]
  /\ UNCHANGED progress

BeginStep(r, s) ==
  /\ stage[r] \in {"waiting", "going"}
  /\ progress[r][s] = "todo"
  /\ \A t \in Steps : /\ progress[r][t] # "doing"
                      /\ Position[t] < Position[s] => Over(progress[r], t)
  /\ stage' = [stage EXCEPT ![r] = "going"]
  /\ progress' = [progress EXCEPT ![r][s] = "doing"]

EndStep(r, s) ==
  /\ stage[r] = "going"
  /\ progress[r][s] = "doing"
  /\ \E o \in {"success", "failed"} : progress' = [progress EXCEPT ![r][s] = o]
  /\ \E st \in Verdict(progress'[r]) : stage' = [stage EXCEPT ![r] = st]

End(r) ==
  /\ stage[r] = "going"
  /\ \E st \in Verdict(progress[r]) : stage' = [stage EXCEPT ![r] = st]
  /\ UNCHANGED progress

Next ==
  \E r \in Runs :
    \/ Submit(r)
    \/ \E s \in Steps : BeginStep(r, s) \/ EndStep(r, s)
    \/ End(r)

Spec == Init /\ [][Next]_vars
=============================================================================
