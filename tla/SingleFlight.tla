----------------------------- MODULE SingleFlight -----------------------------
(***************************************************************************)
(* What the build queue promises: jobs wait, one job at a time is active   *)
(* over the whole fleet, one process at a time works, only on the active   *)
(* job, and an outcome is final.  A worker may vanish; the job it leaves   *)
(* behind is then abandoned, which frees the slot.  BuildQueue maps its    *)
(* rows and poll threads onto this module.                                 *)
(***************************************************************************)
CONSTANTS Procs, Jobs

VARIABLES
  phase,    (* where each job is                     *)
  workers   (* the processes at work on the active job *)

vars == <<phase, workers>>

Phases == {"absent", "waiting", "active", "succeeded", "failed"}

Init ==
  /\ phase = [j \in Jobs |-> "absent"]
  /\ workers = {}

(* A request puts several jobs into the queue at once. *)
Submit(S) ==
  /\ \A j \in S : phase[j] = "absent"
  /\ phase' = [j \in Jobs |-> IF j \in S THEN "waiting" ELSE phase[j]]
  /\ UNCHANGED workers

Start(p, j) ==
  /\ phase[j] = "waiting"
  /\ workers = {}
  /\ \A k \in Jobs : phase[k] # "active"
  /\ phase' = [phase EXCEPT ![j] = "active"]
  /\ workers' = {p}

Finish(j, outcome) ==
  /\ workers # {}
  /\ phase[j] = "active"
  /\ phase' = [phase EXCEPT ![j] = outcome]
  /\ workers' = {}

(* The working process dies, or its thread loses the job. *)
Vanish ==
  /\ workers # {}
  /\ workers' = {}
  /\ UNCHANGED phase

(* Only a job nobody works on is given up. *)
Abandon(j) ==
  /\ workers = {}
  /\ phase[j] = "active"
  /\ phase' = [phase EXCEPT ![j] = "failed"]
  /\ UNCHANGED workers

Next ==
  \/ \E S \in SUBSET Jobs : Submit(S)
  \/ \E p \in Procs, j \in Jobs : Start(p, j)
  \/ \E j \in Jobs, outcome \in {"succeeded", "failed"} : Finish(j, outcome)
  \/ Vanish
  \/ \E j \in Jobs : Abandon(j)

Spec == Init /\ [][Next]_vars
=============================================================================
