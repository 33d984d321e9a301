------------------------------- MODULE Rollout -------------------------------
(***************************************************************************)
(* A kubectl apply, delete or restart of one manifest by                   *)
(* app/services/deployment/kubernetes_provider.py, and the wait for its    *)
(* workloads to become ready.  The wait goes through the workloads in      *)
(* document order against one deadline: for each it starts a child process *)
(* (kubectl rollout status), looks every few seconds whether the child has *)
(* ended, kills one that outlives its time, and meanwhile lists the        *)
(* workload's pods, to give up at the first that cannot start.  Meanwhile  *)
(* workloads come and go, and the child may end, fail or hang.             *)
(***************************************************************************)
EXTENDS Naturals

CONSTANTS
  Workloads,    (* Deployments, StatefulSets and DaemonSets of the manifest *)
  Labelled,     (* those whose selector has matchLabels                     *)
  Budgets,      (* wait_timeout_seconds of a request; 0: do not wait        *)
  Buffer,       (* ROLLOUT_STATUS_TIMEOUT_BUFFER_SECONDS                    *)
  Interval,     (* ROLLOUT_POLL_INTERVAL_SECONDS                            *)
  ProbeTime,    (* POD_LIST_TIMEOUT_SECONDS                                 *)
  StopTime,     (* how long _terminate_process waits before it kills        *)
  MaxShifts     (* bound: changes to the workloads from outside             *)

Order == 1..Workloads

ASSUME RolloutAssumption ==
  /\ Workloads \in Nat /\ Labelled \subseteq Order
  /\ Budgets \subseteq Nat
  /\ Buffer \in Nat /\ Interval \in Nat \ {0} /\ ProbeTime \in Nat /\ StopTime \in Nat
  /\ MaxShifts \in Nat

VARIABLES
  (* the provider *)
  task,         (* "apply", "delete" or "restart"                           *)
  phase,        (* where it is                                              *)
  budget, deadline,
  turn,         (* the workload it waits for                                *)
  killAt,       (* hard_deadline of the child                               *)
  since,        (* when it began what it is doing                           *)
  failFast,     (* fail_fast_detail of this turn                            *)
  failedLabels,
  outcome,      (* DeployResult.success                                     *)
  (* outside *)
  now,          (* time.monotonic()                                         *)
  child,        (* kubectl rollout status: none, running, ready or failed   *)
  objects,      (* workloads that exist on the cluster                      *)
  ready, stuck, (* those that are rolled out; that have a failing pod       *)
  shifts,
  (* history *)
  sawReady,     (* workloads rollout status reported ready                  *)
  sawStuck      (* workloads with a pod listed as failing                   *)

taskVars    == <<task, budget>>
turnVars    == <<deadline, turn, killAt>>
resultVars  == <<failFast, failedLabels, outcome>>
clusterVars == <<objects, ready, stuck, shifts>>
sawVars     == <<sawReady, sawStuck>>
rolloutVars == <<taskVars, phase, turnVars, since, resultVars, now, child, clusterVars, sawVars>>

(* The longest each phase lasts. *)
Lasts == [probe |-> ProbeTime, sleep |-> Interval, terminate |-> StopTime]

To(p) == phase' = p /\ since' = now
Ends(success) == To("ended") /\ outcome' = IF success THEN "success" ELSE "failed"

-----------------------------------------------------------------------------
(* kubectl apply and delete act on one object after the other.             *)

StartTask(t, b) ==
  /\ phase = "idle"
  /\ task' = t /\ budget' = b
  /\ To(IF t = "apply" THEN "apply" ELSE "delete")
  /\ UNCHANGED <<turnVars, resultVars, now, child, clusterVars, sawVars>>

Gone(S) ==
  /\ objects' = objects \ S /\ ready' = ready \ S /\ stuck' = stuck \ S
  /\ UNCHANGED shifts

KubectlDelete ==
  /\ phase = "delete"
  /\ \/ /\ Gone(Order)
        /\ IF task = "restart" THEN To("apply") /\ UNCHANGED outcome ELSE Ends(TRUE)
     \/ \E S \in SUBSET Order : Gone(S) /\ Ends(FALSE)
  /\ UNCHANGED <<taskVars, turnVars, failFast, failedLabels, now, child, sawVars>>

KubectlApply ==
  /\ phase = "apply"
  /\ \/ /\ objects' = Order
        /\ IF budget = 0 \/ Order = {} THEN Ends(TRUE) ELSE To("turn") /\ UNCHANGED outcome
     \/ \E S \in SUBSET Order : objects' = objects \union S /\ Ends(FALSE)
  /\ deadline' = now + budget
  /\ UNCHANGED <<taskVars, turn, killAt, failFast, failedLabels, now, child, ready, stuck, shifts, sawVars>>

-----------------------------------------------------------------------------
(* _wait_for_rollout: a pod that cannot start ends it for all workloads. *)

AtTurn == phase = "turn" /\ turn \in Order /\ ~failFast

NextTurn(success) ==
  /\ turn' = turn + 1
  /\ failedLabels' = IF success THEN failedLabels ELSE failedLabels \union {turn}
  /\ To("turn")
  /\ UNCHANGED outcome

(* A workload whose turn comes after the deadline counts as failed. *)
SkipsQuietly ==                                              (* mutant *)
  /\ AtTurn /\ now >= deadline
  /\ NextTurn(TRUE)
  /\ UNCHANGED <<taskVars, deadline, killAt, failFast, now, child, clusterVars, sawVars>>
SkipWait ==
  /\ AtTurn /\ now >= deadline
  /\ NextTurn(FALSE)
  /\ UNCHANGED <<taskVars, deadline, killAt, failFast, now, child, clusterVars, sawVars>>

BudgetEach ==                                                (* mutant *)
  /\ AtTurn
  /\ child' = "running"
  /\ killAt' = now + budget + Buffer
  /\ To("poll")
  /\ UNCHANGED <<taskVars, deadline, turn, resultVars, now, clusterVars, sawVars>>
StartStatus ==
  /\ AtTurn /\ now < deadline
  /\ child' = "running"
  /\ killAt' = deadline + Buffer
  /\ To("poll")
  /\ UNCHANGED <<taskVars, deadline, turn, resultVars, now, clusterVars, sawVars>>

NoChild ==
  /\ AtTurn /\ now < deadline
  /\ NextTurn(FALSE)
  /\ UNCHANGED <<taskVars, deadline, killAt, failFast, now, child, clusterVars, sawVars>>

EndWait ==
  /\ phase = "turn" /\ (turn \notin Order \/ failFast)
  /\ Ends(failedLabels = {})
  /\ UNCHANGED <<taskVars, turnVars, failFast, failedLabels, now, child, clusterVars, sawVars>>

-----------------------------------------------------------------------------
(* _run_rollout_status_poll *)

StatusExited ==
  /\ phase = "poll" /\ child # "running"
  /\ NextTurn(child = "ready")
  /\ UNCHANGED <<taskVars, deadline, killAt, failFast, now, child, clusterVars, sawVars>>

OutOfTime ==
  /\ phase = "poll" /\ child = "running" /\ now >= killAt
  /\ To("terminate")
  /\ UNCHANGED <<taskVars, turnVars, resultVars, now, child, clusterVars, sawVars>>

Look ==
  /\ phase = "poll" /\ child = "running" /\ now < killAt
  /\ To(IF turn \in Labelled THEN "probe" ELSE "sleep")
  /\ UNCHANGED <<taskVars, turnVars, resultVars, now, child, clusterVars, sawVars>>

(* _pod_fail_fast_reason; an error says nothing. *)
ProbeFindsStuck ==
  /\ phase = "probe" /\ turn \in stuck
  /\ failFast' = TRUE
  /\ sawStuck' = sawStuck \union {turn}
  /\ To("terminate")
  /\ UNCHANGED <<taskVars, turnVars, failedLabels, outcome, now, child, clusterVars, sawReady>>

ProbeFindsNothing ==
  /\ phase = "probe"
  /\ To("sleep")
  /\ UNCHANGED <<taskVars, turnVars, resultVars, now, child, clusterVars, sawVars>>

WakeUp ==
  /\ phase = "sleep" /\ now = since + Interval
  /\ To("poll")
  /\ UNCHANGED <<taskVars, turnVars, resultVars, now, child, clusterVars, sawVars>>

(* _terminate_process: the child is gone, whatever it was about to say. *)
TerminateChild ==
  /\ phase = "terminate"
  /\ child' = "none"
  /\ NextTurn(FALSE)
  /\ UNCHANGED <<taskVars, deadline, killAt, failFast, now, clusterVars, sawVars>>

-----------------------------------------------------------------------------
(* The child, the cluster and the clock. *)

ReportsReady ==
  /\ child = "running" /\ turn \in ready
  /\ child' = "ready"
  /\ sawReady' = sawReady \union {turn}
  /\ UNCHANGED <<taskVars, phase, turnVars, since, resultVars, now, clusterVars, sawStuck>>

ReportsFailure ==
  /\ child = "running"
  /\ child' = "failed"
  /\ UNCHANGED <<taskVars, phase, turnVars, since, resultVars, now, clusterVars, sawVars>>

Shift ==
  /\ shifts < MaxShifts /\ shifts' = shifts + 1
  /\ \E w \in objects :
       \/ ready' = ready \union {w} /\ stuck' = stuck \ {w} /\ UNCHANGED objects
       \/ stuck' = stuck \union {w} /\ UNCHANGED <<objects, ready>>
       \/ objects' = objects \ {w} /\ ready' = ready \ {w} /\ stuck' = stuck \ {w}
  /\ UNCHANGED <<taskVars, phase, turnVars, since, resultVars, now, child, sawVars>>

ClockTick ==
  /\ phase \in DOMAIN Lasts
  /\ now < since + Lasts[phase]
  /\ now' = now + 1
  /\ UNCHANGED <<taskVars, phase, turnVars, since, resultVars, child, clusterVars, sawVars>>

RolloutInit ==
  /\ task = "none" /\ phase = "idle" /\ budget = 0 /\ deadline = 0
  /\ turn = 1 /\ killAt = 0 /\ since = 0
  /\ failFast = FALSE /\ failedLabels = {} /\ outcome = "none"
  /\ now = 0 /\ child = "none"
  /\ objects \in SUBSET Order /\ ready = objects /\ stuck = {}
  /\ shifts = 0 /\ sawReady = {} /\ sawStuck = {}

RolloutNext ==
  \/ \E t \in {"apply", "delete", "restart"}, b \in Budgets : StartTask(t, b)
  \/ KubectlDelete \/ KubectlApply
  \/ SkipWait \/ StartStatus \/ NoChild \/ EndWait
  \/ StatusExited \/ OutOfTime \/ Look
  \/ ProbeFindsStuck \/ ProbeFindsNothing \/ WakeUp \/ TerminateChild
  \/ ReportsReady \/ ReportsFailure \/ Shift \/ ClockTick

RolloutSpec == RolloutInit /\ [][RolloutNext]_rolloutVars

-----------------------------------------------------------------------------
(* The variables keep their types. *)
RolloutTypeOK ==
  /\ task \in {"none", "apply", "delete", "restart"}
  /\ phase \in {"idle", "delete", "apply", "turn", "poll", "ended"} \union DOMAIN Lasts
  /\ budget \in Budgets \union {0} /\ deadline \in Nat /\ killAt \in Nat
  /\ turn \in 1..(Workloads + 1)
  /\ now \in Nat /\ since \in 0..now
  /\ failFast \in BOOLEAN /\ failedLabels \subseteq Order
  /\ outcome \in {"none", "success", "failed"}
  /\ child \in {"none", "running", "ready", "failed"}
  /\ ready \subseteq objects /\ stuck \subseteq objects /\ objects \subseteq Order
  /\ sawReady \subseteq Order /\ sawStuck \subseteq Order
  /\ shifts \in 0..MaxShifts

(* However many workloads a manifest has and however kubectl misbehaves,   *)
(* the wait holds the deployment slot for its budget and one overrun only: *)
(* the buffer of the child running at the deadline, one pod listing and    *)
(* one interval after the last look, and the killing.                      *)
HeldForOneBudget ==
  phase \in {"turn", "poll", "ended"} \union DOMAIN Lasts =>
    now <= deadline + Buffer + ProbeTime + Interval + StopTime

(* A rollout that was waited for succeeds only if rollout status reported  *)
(* every workload ready in its turn.  One that was reported ready counts   *)
(* as failed only if a pod of it was seen failing or its child was killed  *)
(* for outliving the deadline and the buffer.  And a turn that is over     *)
(* leaves no child running.                                                *)
WaitIsHonest ==
  /\ outcome = "success" /\ budget > 0 /\ task # "delete" => sawReady = Order
  /\ failedLabels \intersect sawReady \subseteq sawStuck \/ now >= deadline + Buffer
  /\ child = "running" => phase \notin {"turn", "ended"}
=============================================================================
