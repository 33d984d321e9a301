------------------------------ MODULE Workflow ------------------------------
(***************************************************************************)
(* The workflow orchestrator of app/services/workflow/worker.py: one poll  *)
(* thread per gunicorn worker process advances WorkflowRuns through the    *)
(* steps of their Workflow, and request handlers (web or bot) approve or   *)
(* reject the steps that wait for a review.  A step is carried out by a    *)
(* BuildBatch or a DeploymentRun, here a job, of the queues modelled in    *)
(* BuildQueue and DeployQueue; this module sees only the job's status.     *)
(*                                                                         *)
(* One workflow is modelled; its runs share nothing else.  An action is a  *)
(* transaction, or the reads a transaction is computed from when another   *)
(* agent may act in between.                                               *)
(***************************************************************************)
EXTENDS Naturals, Sequences, FiniteSets

CONSTANTS
  Procs,            (* worker processes, each with an orchestrator thread   *)
  Reviewers,        (* request handlers that approve or reject              *)
  Runs,             (* WorkflowRun rows that may be enqueued                *)
  Steps,            (* WorkflowStep rows                                    *)
  Kind,             (* how a step is started, see Kinds                     *)
  OnFailure,        (* WorkflowStep.on_failure                              *)
  InitialOrder,     (* WorkflowStep.order at first; 0: not added yet        *)
  NoRun, NoStep,
  MayNotResolve,    (* steps that may resolve to nothing when they start    *)
  Outcomes,         (* how jobs may end                                     *)
  LateHeartbeats,   (* may build owners be taken for dead, or be overtaken  *)
                    (* inside a transaction?  Then a batch may be revised.  *)
  MaxAborts,        (* bound: crashes and exceptions that end an activity   *)
  MaxGitFailures,   (* bound: repositories that cannot be read              *)
  MayReorder,       (* may the steps be reordered?                          *)
  MaxEdits,         (* bound: edits of the workflow's steps                 *)
  OneTrouble        (* bound: edits and such repositories never together?   *)

(* A deploy step; a build step with its metadata typed in; one with        *)
(* generated metadata, and one whose generated metadata is reviewed.       *)
Kinds == {"deploy", "build", "auto", "review"}

Agents == Procs \union Reviewers

ASSUME WorkflowAssumption ==
  /\ Procs \intersect Reviewers = {} /\ IsFiniteSet(Reviewers) /\ IsFiniteSet(Steps)
  /\ Kind \in [Steps -> Kinds]
  /\ OnFailure \in [Steps -> {"stop", "continue"}]
  /\ InitialOrder \in [Steps -> Nat]
  /\ MayNotResolve \subseteq Steps
  /\ NoRun \notin Runs /\ NoStep \notin Steps
  /\ Outcomes \subseteq {"success", "failed", "partial_failure"}
  /\ LateHeartbeats \in BOOLEAN /\ MayReorder \in BOOLEAN
  /\ MaxAborts \in Nat /\ MaxGitFailures \in Nat /\ MaxEdits \in Nat

VARIABLES
  (* the database *)
  order,        (* WorkflowStep.order; 0 when the step is not there         *)
  runStatus,    (* WorkflowRun.status; "none" before the row exists         *)
  currentStep,  (* WorkflowRun.current_step_id                              *)
  hasFailed,    (* runs whose has_failed_step is set                        *)
  stepRuns,     (* the WorkflowStepRun rows by created_at                   *)
  jobs,         (* the BuildBatch and DeploymentRun rows, and the run and   *)
                (* step they were enqueued for                              *)
  (* the outside world *)
  notices,      (* notify_run_finished calls per run                        *)
  newOrder,     (* per step being added, the order read for it (0: none)    *)
  (* each agent *)
  phase,        (* where an orchestrator is in its tick                     *)
  pc,           (* what the agent does for the run in hand                  *)
  todo,         (* the rest of the tick's loop over runs                    *)
  held,         (* WorkflowRun rows it holds FOR UPDATE                     *)
  at,           (* the run, step, step run, job and outcome in hand         *)
  (* bounds *)
  aborts, gitFailures, edits

flowVars  == <<order, newOrder>>
runVars   == <<runStatus, currentStep, hasFailed, notices>>
agentVars == <<phase, pc, todo, held, at>>
boundVars == <<aborts, gitFailures, edits>>
vars      == <<flowVars, runVars, stepRuns, jobs, agentVars, boundVars>>

-----------------------------------------------------------------------------
Ended         == {"success", "failed", "completed_with_failures"}
RunStatus     == {"none", "queued", "running"} \union Ended
StepRunStatus == {"running", "success", "failed", "awaiting_review"}
StepRunRow    == [run: Runs, step: Steps, status: StepRunStatus, job: Nat]

(* BUILD_TERMINAL_STATUSES and DEPLOY_TERMINAL_STATUSES.  An "endless" job *)
(* is queued or running and will not be updated any more.                  *)
NoPartial   == {"success", "failed"}                         (* mutant *)
JobTerminal == {"success", "failed", "partial_failure"}
JobRow      == [run: Runs, step: Steps,
                status: {"queued", "endless"} \union JobTerminal]

Pcs    == {"loop", "start", "prefilled", "started", "failing", "checked", "finish",
           "reviewing", "approved"}
InHand == [run: Runs \union {NoRun}, step: Steps \union {NoStep}, entry: Nat, job: Nat,
           ok: BOOLEAN]
Idle   == [run |-> NoRun, step |-> NoStep, entry |-> 0, job |-> 0, ok |-> FALSE]

Present == {s \in Steps : order[s] > 0}
Earliest(S) == {s \in S : \A t \in S : order[s] <= order[t]}

(* _first_step and _next_step.  Steps of equal order come in any order.    *)
FirstSteps   == Earliest(Present)
NextSteps(s) == Earliest({t \in Present : order[t] > order[s]})

(* _next_step_order: the maximum plus one. *)
NextStepOrder == CHOOSE n \in {1} \union {order[s] + 1 : s \in Present} :
                   \A s \in Present : order[s] < n

(* No other session holds the row: an UPDATE of the run, or an INSERT that *)
(* refers to it, would wait.                                               *)
NoRowLocks(p, r) == TRUE                                    (* mutant *)
Free(p, r)       == \A q \in Agents \ {p} : r \notin held[q]

(* SELECT ... WHERE status FOR UPDATE SKIP LOCKED. *)
Select(p, st) == {r \in Runs : runStatus[r] = st /\ Free(p, r)}

(* The latest step run of a run's current step, 0 if there is none. *)
CurrentStepRun(r) ==
  LET Own == {k \in DOMAIN stepRuns :
                stepRuns[k].run = r /\ stepRuns[k].step = currentStep[r]}
  IN  IF Own = {} THEN 0 ELSE CHOOSE k \in Own : \A l \in Own : l <= k

TypeOK ==
  /\ order \in [Steps -> Nat] /\ newOrder \in [Steps -> Nat]
  /\ runStatus \in [Runs -> RunStatus]
  /\ currentStep \in [Runs -> Steps \union {NoStep}]
  /\ hasFailed \subseteq Runs
  /\ notices \in [Runs -> Nat]
  /\ stepRuns \in Seq(StepRunRow) /\ \A k \in DOMAIN stepRuns : stepRuns[k].job \in 0..Len(jobs)
  /\ jobs \in Seq(JobRow)
  /\ phase \in [Agents -> {"idle", "starting", "checking"}]
  /\ pc \in [Agents -> Pcs]
  /\ todo \in [Agents -> SUBSET Runs]
  /\ held \in [Agents -> SUBSET Runs]
  /\ at \in [Agents -> InHand]
  /\ aborts \in 0..MaxAborts /\ gitFailures \in 0..MaxGitFailures /\ edits \in 0..MaxEdits

Init ==
  /\ order = InitialOrder /\ newOrder = [s \in Steps |-> 0]
  /\ runStatus = [r \in Runs |-> "none"]
  /\ currentStep = [r \in Runs |-> NoStep]
  /\ hasFailed = {}
  /\ notices = [r \in Runs |-> 0]
  /\ stepRuns = <<>> /\ jobs = <<>>
  /\ phase = [p \in Agents |-> "idle"]
  /\ pc = [p \in Agents |-> "loop"]
  /\ todo = [p \in Agents |-> {}]
  /\ held = [p \in Agents |-> {}]
  /\ at = [p \in Agents |-> Idle]
  /\ aborts = 0 /\ gitFailures = 0 /\ edits = 0

-----------------------------------------------------------------------------
(* run_workflow, and the jobs' own queues. *)

EnqueueWorkflowRun(r) ==
  /\ runStatus[r] = "none"
  /\ Present # {}
  /\ runStatus' = [runStatus EXCEPT ![r] = "queued"]
  /\ UNCHANGED <<flowVars, currentStep, hasFailed, notices, stepRuns, jobs, agentVars, boundVars>>

(* The outcome of a batch is final where it is a job of JobBoard, and that *)
(* of a DeploymentRun never is: two processes may aggregate it at once.    *)
Revisable(j) == LateHeartbeats \/ Kind[jobs[j].step] = "deploy"

(* BuildQueue's batchStatus or DeployQueue's runStatus becomes terminal; a *)
(* revisable job may also change its outcome, have it overwritten by what  *)
(* an older update has read, or, as a DeploymentRun without executions,    *)
(* never have had anything to end it.                                      *)
JobEnds(j) ==
  /\ \/ jobs[j].status = "queued"
     \/ Revisable(j) /\ jobs[j].status \in Outcomes
  /\ \E outcome \in Outcomes \union (IF Revisable(j) THEN {"endless"} ELSE {}) :
       /\ outcome # jobs[j].status
       /\ jobs' = [jobs EXCEPT ![j].status = outcome]
  /\ UNCHANGED <<flowVars, runVars, stepRuns, agentVars, boundVars>>

-----------------------------------------------------------------------------
(* The routes that edit the steps. *)

Edit ==
  /\ edits < MaxEdits /\ (OneTrouble => gitFailures = 0)
  /\ edits' = edits + 1
  /\ UNCHANGED <<runVars, stepRuns, jobs, agentVars, aborts, gitFailures>>

(* add_build_step, add_deploy_step: read the next order, then insert. *)
ReadNextOrder(s) ==
  /\ Edit
  /\ order[s] = 0 /\ newOrder[s] = 0
  /\ newOrder' = [newOrder EXCEPT ![s] = NextStepOrder]
  /\ UNCHANGED order

AddStep(s) ==
  /\ newOrder[s] # 0
  /\ order' = [order EXCEPT ![s] = newOrder[s]]
  /\ newOrder' = [newOrder EXCEPT ![s] = 0]
  /\ UNCHANGED <<runVars, stepRuns, jobs, agentVars, boundVars>>

(* delete_step: not when a step run or (foreign key) a run refers to it. *)
DeleteStep(s) ==
  /\ Edit
  /\ order[s] # 0
  /\ \A k \in DOMAIN stepRuns : stepRuns[k].step # s
  /\ \A r \in Runs : currentStep[r] # s
  /\ order' = [order EXCEPT ![s] = 0]
  /\ UNCHANGED newOrder

(* reorder_steps: any permutation of the steps there are. *)
ReorderSteps ==
  /\ Edit
  /\ MayReorder
  /\ order' \in {o \in [Steps -> 0..Cardinality(Steps)] :
                   /\ \A s \in Steps : o[s] > 0 <=> s \in Present
                   /\ {o[s] : s \in Present} = 1..Cardinality(Present)}
  /\ UNCHANGED newOrder

-----------------------------------------------------------------------------
(* What an agent does with its locals. *)

(* The commit of a transaction releases the rows of the whole tick. *)
Commit(p) == held' = [held EXCEPT ![p] = {}]

(* Done with the run in hand: on with the loop, or back to the route. *)
Return(p) ==
  /\ pc' = [pc EXCEPT ![p] = "loop"]
  /\ todo' = [todo EXCEPT ![p] = @ \ {at[p].run}]
  /\ at' = [at EXCEPT ![p] = Idle]
  /\ UNCHANGED phase

Goto(p, where) ==
  /\ pc' = [pc EXCEPT ![p] = where]
  /\ UNCHANGED <<phase, todo>>

NewStepRun(p, st, j) ==
  Append(stepRuns, [run |-> at[p].run, step |-> at[p].step, status |-> st, job |-> j])

-----------------------------------------------------------------------------
(* _tick, first loop: the queued runs. *)

ListQueued(p) ==
  /\ phase[p] = "idle"
  /\ Select(p, "queued") # {}
  /\ todo' = [todo EXCEPT ![p] = Select(p, "queued")]
  /\ held' = [held EXCEPT ![p] = todo'[p]]
  /\ phase' = [phase EXCEPT ![p] = "starting"]
  /\ UNCHANGED <<flowVars, runVars, stepRuns, jobs, pc, at, boundVars>>

(* The status of a listed run is not looked at again. *)
TakeQueued(p, r) ==
  /\ phase[p] = "starting" /\ pc[p] = "loop" /\ r \in todo[p]
  /\ \E s \in FirstSteps : at' = [at EXCEPT ![p] = [Idle EXCEPT !.run = r, !.step = s]]
  /\ Goto(p, "start")
  /\ UNCHANGED <<flowVars, runVars, stepRuns, jobs, held, boundVars>>

(* Every step was deleted since the run was triggered. *)
FinishWithoutSteps(p, r) ==
  /\ phase[p] = "starting" /\ pc[p] = "loop" /\ r \in todo[p]
  /\ FirstSteps = {}
  /\ Free(p, r)
  /\ runStatus' = [runStatus EXCEPT ![r] = "success"]
  /\ notices' = [notices EXCEPT ![r] = @ + 1]
  /\ todo' = [todo EXCEPT ![p] = @ \ {r}]
  /\ Commit(p)
  /\ UNCHANGED <<flowVars, currentStep, hasFailed, stepRuns, jobs, phase, pc, at, boundVars>>

-----------------------------------------------------------------------------
(* _start_step, for a run and a step in hand. *)

(* The run's row as the first commit of _start_step writes it. *)
WriteRun(p) ==
  /\ Free(p, at[p].run)
  /\ runStatus' = [runStatus EXCEPT ![at[p].run] = "running"]
  /\ currentStep' = [currentStep EXCEPT ![at[p].run] = at[p].step]

(* Nothing resolved, several versions or a missing branch. *)
CannotStart(p) ==
  /\ pc[p] = "start" /\ at[p].step \in Present \intersect MayNotResolve
  /\ WriteRun(p)
  /\ Commit(p)
  /\ Goto(p, "failing")
  /\ UNCHANGED <<flowVars, hasFailed, notices, stepRuns, jobs, at, boundVars>>

(* compute_build_prefill commits after its first successful sync. *)
Prefill(p) ==
  /\ pc[p] = "start" /\ at[p].step \in Present
  /\ Kind[at[p].step] \in {"auto", "review"}
  /\ WriteRun(p)
  /\ Commit(p)
  /\ Goto(p, "prefilled")
  /\ UNCHANGED <<flowVars, hasFailed, notices, stepRuns, jobs, at, boundVars>>

(* The first repository cannot be read: compute_build_prefill rolls back,  *)
(* and the run's new status and step with it.                              *)
PrefillRollsBack(p) ==
  /\ gitFailures < MaxGitFailures /\ (OneTrouble => edits = 0)
  /\ gitFailures' = gitFailures + 1
  /\ pc[p] = "start" /\ at[p].step \in Present
  /\ Kind[at[p].step] \in {"auto", "review"}
  /\ Free(p, at[p].run)
  /\ Commit(p)
  /\ Goto(p, "prefilled")
  /\ UNCHANGED <<flowVars, runVars, stepRuns, jobs, at, aborts, edits>>

(* The review of the generated metadata is asked for. *)
AwaitReview(p) ==
  /\ pc[p] = "prefilled" /\ Kind[at[p].step] = "review" /\ at[p].step \in Present
  /\ Free(p, at[p].run)
  /\ stepRuns' = NewStepRun(p, "awaiting_review", 0)
  /\ Commit(p)
  /\ Return(p)
  /\ UNCHANGED <<flowVars, runVars, jobs, boundVars>>

(* enqueue_build_batch or enqueue_deployment_run, and its commit. *)
EnqueueJob(p) ==
  LET s == at[p].step
  IN  /\ s \in Present
      /\ \/ pc[p] = "start" /\ Kind[s] \in {"build", "deploy"} /\ WriteRun(p)
         \/ pc[p] = "prefilled" /\ Kind[s] = "auto" /\ UNCHANGED <<runStatus, currentStep>>
      /\ jobs' = Append(jobs, [run |-> at[p].run, step |-> s, status |-> "queued"])
      /\ at' = [at EXCEPT ![p].job = Len(jobs) + 1]
      /\ Commit(p)
      /\ Goto(p, "started")
      /\ UNCHANGED <<flowVars, hasFailed, notices, stepRuns, boundVars>>

InsertStepRun(p) ==
  /\ pc[p] = "started" /\ at[p].step \in Present
  /\ Free(p, at[p].run)
  /\ stepRuns' = NewStepRun(p, "running", at[p].job)
  /\ Commit(p)
  /\ Return(p)
  /\ UNCHANGED <<flowVars, runVars, jobs, boundVars>>

(* The step was deleted meanwhile: an exception ends the tick or request. *)
StepVanished(p) ==
  /\ pc[p] \in {"start", "prefilled", "started", "failing"}
  /\ at[p].step \notin Present
  /\ pc' = [pc EXCEPT ![p] = "loop"]
  /\ phase' = [phase EXCEPT ![p] = "idle"]
  /\ todo' = [todo EXCEPT ![p] = {}]
  /\ at' = [at EXCEPT ![p] = Idle]
  /\ Commit(p)
  /\ UNCHANGED <<flowVars, runVars, stepRuns, jobs, boundVars>>

-----------------------------------------------------------------------------
(* _tick, second loop: the running runs. *)

ListRunning(p) ==
  /\ pc[p] = "loop" /\ todo[p] = {}
  /\ phase[p] = "starting" \/ (phase[p] = "idle" /\ Select(p, "queued") = {})
  /\ todo' = [todo EXCEPT ![p] = Select(p, "running")]
  /\ held' = [held EXCEPT ![p] = todo'[p]]
  /\ phase' = [phase EXCEPT ![p] = "checking"]
  /\ UNCHANGED <<flowVars, runVars, stepRuns, jobs, pc, at, boundVars>>

(* _check_current_step has something to decide on run r. *)
DecidesAgain(r) ==                                           (* mutant *)
  LET k == CurrentStepRun(r)
  IN  k # 0 /\ stepRuns[k].job # 0 /\ jobs[stepRuns[k].job].status \in JobTerminal
Decidable(r) ==
  LET k == CurrentStepRun(r)
  IN  k # 0 /\ stepRuns[k].status = "running" /\ jobs[stepRuns[k].job].status \in JobTerminal

NothingToDecide(p, r) ==
  /\ phase[p] = "checking" /\ pc[p] = "loop" /\ r \in todo[p]
  /\ ~Decidable(r)
  /\ todo' = [todo EXCEPT ![p] = @ \ {r}]
  /\ UNCHANGED <<flowVars, runVars, stepRuns, jobs, phase, pc, held, at, boundVars>>

ReadOutcome(p, r) ==
  LET k == CurrentStepRun(r)
  IN  /\ phase[p] = "checking" /\ pc[p] = "loop" /\ r \in todo[p]
      /\ Decidable(r)
      /\ at' = [at EXCEPT ![p] = [run |-> r, step |-> stepRuns[k].step, entry |-> k, job |-> 0,
                                  ok |-> jobs[stepRuns[k].job].status = "success"]]
      /\ Goto(p, "checked")
      /\ UNCHANGED <<flowVars, runVars, stepRuns, jobs, held, boundVars>>

Outcome(ok)    == IF ok THEN "success" ELSE "failed"

(* The step run's outcome is committed on its own. *)
CommitOutcome(p) ==
  /\ pc[p] = "checked"
  /\ stepRuns' = [stepRuns EXCEPT ![at[p].entry].status = Outcome(at[p].ok)]
  /\ Commit(p)
  /\ Goto(p, "finish")
  /\ UNCHANGED <<flowVars, runVars, jobs, at, boundVars>>

EndTick(p) ==
  /\ phase[p] = "checking" /\ pc[p] = "loop" /\ todo[p] = {}
  /\ phase' = [phase EXCEPT ![p] = "idle"]
  /\ Commit(p)
  /\ UNCHANGED <<flowVars, runVars, stepRuns, jobs, pc, todo, at, boundVars>>

-----------------------------------------------------------------------------
(* finish_step, for a step that ended well or not. *)

NeverStops(s, ok) == FALSE                                   (* mutant *)
Stops(s, ok)      == ~ok /\ OnFailure[s] = "stop"

AlwaysSuccess(failed) == "success"                           (* mutant *)
FinalStatus(failed) == IF failed THEN "completed_with_failures" ELSE "success"

(* The run stops here, is complete, or goes on with _start_step. *)
FinishStep(p, ok) ==
  LET r == at[p].run
      s == at[p].step
      failed == ~ok \/ r \in hasFailed
  IN  /\ hasFailed' = IF ok THEN hasFailed ELSE hasFailed \union {r}
      /\ UNCHANGED currentStep
      /\ Commit(p)
      /\ \/ /\ Stops(s, ok) \/ NextSteps(s) = {}
            /\ Free(p, r)
            /\ runStatus' = [runStatus EXCEPT ![r] = IF Stops(s, ok) THEN "failed"
                                                     ELSE FinalStatus(failed)]
            /\ notices' = [notices EXCEPT ![r] = @ + 1]
            /\ Return(p)
         \/ /\ ~Stops(s, ok)
            /\ ok \/ Free(p, r)
            /\ \E t \in NextSteps(s) : at' = [at EXCEPT ![p] = [Idle EXCEPT !.run = r, !.step = t]]
            /\ Goto(p, "start")
            /\ UNCHANGED <<runStatus, notices>>

FinishCurrentStep(p) ==
  /\ pc[p] = "finish"
  /\ FinishStep(p, at[p].ok)
  /\ UNCHANGED <<flowVars, stepRuns, jobs, boundVars>>

(* _fail_step: the step run is committed with the run. *)
FailStep(p) ==
  /\ pc[p] = "failing" /\ at[p].step \in Present
  /\ Free(p, at[p].run)
  /\ stepRuns' = NewStepRun(p, "failed", 0)
  /\ FinishStep(p, FALSE)
  /\ UNCHANGED <<flowVars, jobs, boundVars>>

-----------------------------------------------------------------------------
(* approve_awaiting_step and reject_awaiting_step, and their routes. *)

AwaitsNothing(k) == stepRuns[k].status \in {"awaiting_review", "running"}    (* mutant *)
AwaitsReview(k)  == stepRuns[k].status = "awaiting_review"

OpenReview(v, k) ==
  /\ pc[v] = "loop"
  /\ AwaitsReview(k)
  /\ at' = [at EXCEPT ![v] = [Idle EXCEPT !.run = stepRuns[k].run, !.step = stepRuns[k].step,
                                          !.entry = k]]
  /\ Goto(v, "reviewing")
  /\ UNCHANGED <<flowVars, runVars, stepRuns, jobs, held, boundVars>>

(* The builders no longer resolve. *)
CannotApprove(v) ==
  /\ pc[v] = "reviewing"
  /\ Return(v)
  /\ UNCHANGED <<flowVars, runVars, stepRuns, jobs, held, boundVars>>

Approve(v) ==
  /\ pc[v] = "reviewing"
  /\ jobs' = Append(jobs, [run |-> at[v].run, step |-> at[v].step, status |-> "queued"])
  /\ at' = [at EXCEPT ![v].job = Len(jobs) + 1]
  /\ Goto(v, "approved")
  /\ UNCHANGED <<flowVars, runVars, stepRuns, held, boundVars>>

BindBatch(v) ==
  /\ pc[v] = "approved"
  /\ stepRuns' = [stepRuns EXCEPT ![at[v].entry].status = "running",
                                  ![at[v].entry].job = at[v].job]
  /\ Return(v)
  /\ UNCHANGED <<flowVars, runVars, jobs, held, boundVars>>

Reject(v) ==
  /\ pc[v] = "reviewing"
  /\ stepRuns' = [stepRuns EXCEPT ![at[v].entry].status = "failed"]
  /\ at' = [at EXCEPT ![v].ok = FALSE]
  /\ Goto(v, "finish")
  /\ UNCHANGED <<flowVars, runVars, jobs, held, boundVars>>

-----------------------------------------------------------------------------
(* A process crash, or an exception that ends the tick or the request: the *)
(* transaction is rolled back.                                             *)
Abort(p) ==
  /\ aborts < MaxAborts
  /\ aborts' = aborts + 1
  /\ pc' = [pc EXCEPT ![p] = "loop"]
  /\ phase' = [phase EXCEPT ![p] = "idle"]
  /\ todo' = [todo EXCEPT ![p] = {}]
  /\ at' = [at EXCEPT ![p] = Idle]
  /\ Commit(p)
  /\ UNCHANGED <<flowVars, runVars, stepRuns, jobs, gitFailures, edits>>

-----------------------------------------------------------------------------
Tick(p) ==
  \/ ListQueued(p)
  \/ \E r \in Runs : TakeQueued(p, r) \/ FinishWithoutSteps(p, r)
  \/ ListRunning(p)
  \/ \E r \in Runs : NothingToDecide(p, r) \/ ReadOutcome(p, r)
  \/ CommitOutcome(p)
  \/ EndTick(p)

Review(v) ==
  \/ \E k \in DOMAIN stepRuns : OpenReview(v, k)
  \/ CannotApprove(v)
  \/ Approve(v)
  \/ BindBatch(v)
  \/ Reject(v)

(* The part of the code that ticks and reviews share. *)
Advance(p) ==
  \/ CannotStart(p)
  \/ Prefill(p)
  \/ AwaitReview(p)
  \/ EnqueueJob(p)
  \/ InsertStepRun(p)
  \/ StepVanished(p)
  \/ FinishCurrentStep(p)
  \/ FailStep(p)

Next ==
  \/ \E r \in Runs : EnqueueWorkflowRun(r)
  \/ \E j \in DOMAIN jobs : JobEnds(j)
  \/ \E s \in Steps : ReadNextOrder(s) \/ AddStep(s) \/ DeleteStep(s)
  \/ ReorderSteps
  \/ \E p \in Procs : Tick(p)
  \/ \E v \in Reviewers : Review(v)
  \/ \E p \in Agents : Advance(p) \/ PrefillRollsBack(p) \/ Abort(p)

Spec == Init /\ [][Next]_vars

(* Orchestrators poll for ever; a writer that waits for a row gets it when *)
(* the holder's transaction ends, before the next tick asks for it; and a  *)
(* job is ended or left endless, as EveryImageEnds and EveryExecutionEnds  *)
(* have it, and the updates after them.  Nobody has to review.             *)
Fairness ==
  /\ \A p \in Procs : WF_vars(Tick(p))
  /\ \A p \in Agents : SF_vars(Advance(p))
  /\ \A v \in Reviewers : WF_vars(BindBatch(v))
  /\ WF_vars(\E j \in DOMAIN jobs : jobs[j].status = "queued" /\ JobEnds(j))

FairSpec == Spec /\ Fairness
-----------------------------------------------------------------------------
(* Properties. *)

StepRunsOf(r, s) == {k \in DOMAIN stepRuns : stepRuns[k].run = r /\ stepRuns[k].step = s}
JobsOf(r, s)     == {j \in DOMAIN jobs : jobs[j].run = r /\ jobs[j].step = s}

(* The docstring of _tick: a process that loses the race for a run skips   *)
(* it "rather than blocking or double-acting on it", so a step that the    *)
(* orchestrator starts is built or deployed once, whatever crashes.        *)
OneJobPerStep ==
  \A r \in Runs, s \in Steps :
    Kind[s] # "review" => \A i, j \in JobsOf(r, s) : i = j

(* The docstring of _awaiting_review_step_run_for_user in the bots: an     *)
(* approval "tapped twice, or tapped after someone else already acted on   *)
(* it, is a no-op".  Nobody approves a step run twice: it gets one build   *)
(* per reviewer at most (those who saw it waiting at one time), and one    *)
(* more per approval cut off before it bound its batch to the step run.    *)
ApprovedOnce ==
  \A r \in Runs, s \in Steps :
    Kind[s] = "review" =>
      Cardinality(JobsOf(r, s)) <= Cardinality(Reviewers) * Cardinality(StepRunsOf(r, s)) + aborts

(* A job of a step exists only after every earlier step of the run         *)
(* succeeded, or failed with on_failure "continue".                        *)
StartedAfterPredecessors ==
  \A j \in DOMAIN jobs : \A s \in Present :
    order[s] < order[jobs[j].step] =>
      \E k \in StepRunsOf(jobs[j].run, s) :
        \/ stepRuns[k].status = "success"
        \/ stepRuns[k].status = "failed" /\ OnFailure[s] = "continue"

(* The history of a run's steps agrees with the run: what it reports, told *)
(* to its requester once, and has_failed_step, kept apart from the step    *)
(* runs.                                                                   *)
ReportsItsHistory(r) ==
  LET Own     == {k \in DOMAIN stepRuns : stepRuns[k].run = r}
      Failed  == {k \in Own : stepRuns[k].status = "failed"}
      Stopped == {k \in Failed : OnFailure[stepRuns[k].step] = "stop"}
  IN  /\ runStatus[r] \in Ended => /\ \A k \in Own : stepRuns[k].status \in {"success", "failed"}
                                   /\ notices[r] = 1
      /\ runStatus[r] = "success" => Failed = {}
      /\ runStatus[r] = "completed_with_failures" => Failed # {} /\ Stopped = {}
      /\ runStatus[r] = "failed" => Stopped # {}

(* A run reports what its steps did, also under edits of the workflow, and *)
(* without them starts no step before its predecessors are over.  A        *)
(* repository that cannot be read rolls a start back (PrefillRollsBack):   *)
(* the step may then run twice, and what is reported is left out, but not  *)
(* the order.                                                              *)
EndsHonestly ==
  /\ gitFailures = 0 => \A r \in Runs : ReportsItsHistory(r)
  /\ edits = 0 => StartedAfterPredecessors

(* A run that has ended is never reopened and enqueues nothing more. *)
EndedRunsRest ==
  [][\A r \in Runs :
       runStatus[r] \in Ended =>
         /\ runStatus'[r] = runStatus[r]
         /\ \A j \in DOMAIN jobs' \ DOMAIN jobs : jobs'[j].run # r]_vars

(* The comment in _start_step: a run whose step awaits a review "just      *)
(* waits safely until" it is approved or rejected, at that step.           *)
AwaitingRunsWait ==
  \A k \in DOMAIN stepRuns :
    stepRuns[k].status = "awaiting_review" =>
      runStatus[stepRuns[k].run] = "running" /\ currentStep[stepRuns[k].run] = stepRuns[k].step

(* A run that waits for a reviewer, or for a job that never ends.          *)
Waiting(r) ==
  LET k == CurrentStepRun(r)
  IN  /\ k # 0
      /\ \/ stepRuns[k].status = "awaiting_review"
         \/ stepRuns[k].status = "running" /\ jobs[stepRuns[k].job].status = "endless"

(* Without crashes, every run ends or waits for one of these two, however  *)
(* many orchestrators compete for it and even if they start a step twice.  *)
EveryRunEnds ==
  \A r \in Runs :
    runStatus[r] \in {"queued", "running"} /\ ~Waiting(r) ~>
      runStatus[r] \in Ended \/ Waiting(r) \/ aborts > 0
-----------------------------------------------------------------------------
StageOf == [none |-> "absent", queued |-> "waiting", running |-> "going", success |-> "success",
            failed |-> "failed", completed_with_failures |-> "completed_with_failures"]

(* How far run r is with step s, from its latest step run. *)
ProgressOf(r, s) ==
  LET Own == StepRunsOf(r, s)
      last == CHOOSE k \in Own : \A l \in Own : l <= k
  IN  IF Own = {} THEN IF currentStep[r] = s THEN "doing" ELSE "todo"
      ELSE IF stepRuns[last].status \in {"success", "failed"} THEN stepRuns[last].status
      ELSE "doing"

Line == INSTANCE Pipeline WITH
          Position <- InitialOrder,
          stage    <- [r \in Runs |-> StageOf[runStatus[r]]],
          progress <- [r \in Runs |-> [s \in Steps |-> ProgressOf(r, s)]]

(* A run whose workflow is not edited, and whose rows are taken by one     *)
(* transaction at a time, is a pipeline: each step once, in order, up to   *)
(* the first failure that stops it.                                        *)
ImplementsPipeline == Line!Spec
=============================================================================
