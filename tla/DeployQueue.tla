----------------------------- MODULE DeployQueue -----------------------------
(***************************************************************************)
(* The deployment queue of app/services/deployment/worker.py: a poll       *)
(* thread and a heartbeat thread per gunicorn worker process, sharing the  *)
(* deployment_runs and deployment_executions tables, and the clusters the  *)
(* executions act on.  The queue repeats the one of BuildQueue (its own    *)
(* index, heartbeat and reaper) but a run stops at its first failure.      *)
(***************************************************************************)
EXTENDS Naturals, FiniteSets

CONSTANTS
  Procs,             (* worker processes (gunicorn --workers)               *)
  Executions,        (* DeploymentExecution rows that may be enqueued       *)
  Runs,              (* DeploymentRun rows that may be enqueued             *)
  Targets,           (* (manifest, server) pairs                            *)
  RunOf,             (* DeploymentExecution.run_id                          *)
  TargetOf,          (* its manifest_id and server_id                       *)
  ActionOf,          (* DeploymentRun.action                                *)
  CreatedAt,         (* DeploymentExecution.created_at                      *)
  NoExecution,       (* no job, no source, nothing on the cluster           *)
  MaxCrashes,        (* bound: process crashes (each followed by a restart) *)
  MaxDbErrors,       (* bound: database errors raised into a poll thread    *)
  LateHeartbeats,    (* may a live owner's heartbeat be late?               *)
  SlowTransactions   (* may a kubectl call fit inside another process's     *)
                     (* short transaction?                                  *)

ASSUME DeployAssumption ==
  /\ RunOf \in [Executions -> Runs]
  /\ TargetOf \in [Executions -> Targets]
  /\ ActionOf \in [Runs -> {"deploy", "stop", "restart"}]
  /\ CreatedAt \in [Executions -> Nat]
  /\ \A e, f \in Executions : RunOf[e] = RunOf[f] /\ TargetOf[e] = TargetOf[f] => e = f
  /\ NoExecution \notin Executions /\ IsFiniteSet(Executions)
  /\ MaxCrashes \in Nat /\ MaxDbErrors \in Nat
  /\ LateHeartbeats \in BOOLEAN /\ SlowTransactions \in BOOLEAN

VARIABLES
  (* the database *)
  status,      (* DeploymentExecution.status; "none" before the row exists  *)
  stale,       (* running rows whose heartbeat_at is past the threshold     *)
  source,      (* DeploymentExecution.source_execution_id                   *)
  runStatus,   (* DeploymentRun.status                                      *)
  (* the outside world *)
  live,        (* per target, the execution whose manifest is applied there *)
  started,     (* notify_deploy_started calls per run                       *)
  finished,    (* notify_deploy_finished calls per run                      *)
  touched,     (* executions whose kubectl call changed a cluster (history) *)
  last,        (* per target, the one of them that did so last (history)    *)
  (* each process *)
  pc,          (* where its poll thread is                                  *)
  job,         (* the execution its poll thread is working on               *)
  current,     (* _current_execution_id                                     *)
  pend,        (* what the update in progress has read                      *)
  (* bounds *)
  crashes, dbErrors

dbVars    == <<status, stale, source, runStatus>>
worldVars == <<live, started, finished, touched, last>>
procVars  == <<pc, job, current, pend>>
boundVars == <<crashes, dbErrors>>
vars      == <<dbVars, worldVars, procVars, boundVars>>

-----------------------------------------------------------------------------
ExecutionStatus == {"none", "queued", "running", "success", "failed", "skipped"}
Done            == {"success", "failed", "skipped"}
Terminal        == {"success", "failed", "partial_failure"}
RunStatus       == {"none", "queued", "running"} \union Terminal

OwnerPcs == {"announce", "resolving", "applying", "reapplying", "applied"}
ShortPcs == {"claiming", "claimed", "reaped", "finishing", "updating"}
Pcs      == {"poll", "claim", "dead"} \union OwnerPcs \union ShortPcs

Maybe  == Executions \union {NoExecution}
Pend   == [wasTerminal: BOOLEAN, dirty: BOOLEAN, now: RunStatus, skips: SUBSET Executions]
NoPend == [wasTerminal |-> FALSE, dirty |-> FALSE, now |-> "none", skips |-> {}]

Action(e)       == ActionOf[RunOf[e]]
ExecutionsOf(r) == {e \in Executions : RunOf[e] = r /\ status[e] # "none"}
Running         == {e \in Executions : status[e] = "running"}

(* ix_deployment_executions_single_running. *)
NoIndex   == TRUE                                            (* mutant *)
IndexFree == Running = {}

(* What the reaper's WHERE clause matches. *)
NeverMatches == {}                                           (* mutant *)
Reapable     == Running \intersect stale

(* Rows held by SELECT ... FOR UPDATE in another claim. *)
NoLocks == {}                                                (* mutant *)
Locked  == {job[q] : q \in {r \in Procs : pc[r] = "claiming"}}

(* ORDER BY created_at: the earliest of a set of rows. *)
NoOrder(S) == S                                              (* mutant *)
Oldest(S)  == {e \in S : \A f \in S : CreatedAt[e] <= CreatedAt[f]}

(* An owner is between its claim's commit and publishing the outcome. *)
Owns(p) == pc[p] \in OwnerPcs \union {"claimed"}

(* Every kubectl call, and every heartbeat timeout, outlasts the short     *)
(* transactions of the other processes unless SlowTransactions.            *)
Quick == SlowTransactions \/ \A q \in Procs : pc[q] \notin ShortPcs

(* get_current_deployment: the latest successful execution of a target. *)
OldestSuccess(t) ==                                          (* mutant *)
  LET S == {e \in Executions : TargetOf[e] = t /\ status[e] = "success"}
  IN  IF S = {} THEN NoExecution
      ELSE CHOOSE e \in S : \A f \in S : CreatedAt[e] <= CreatedAt[f]
CurrentDeployment(t) ==
  LET S == {e \in Executions : TargetOf[e] = t /\ status[e] = "success"}
  IN  IF S = {} THEN NoExecution
      ELSE CHOOSE e \in S : \A f \in S : CreatedAt[f] <= CreatedAt[e]

(* is_currently_deployed *)
CurrentlyDeployed(t) ==
  LET e == CurrentDeployment(t) IN e # NoExecution /\ Action(e) # "stop"

(* The status _update_run_status derives from the statuses S it has after  *)
(* skipping.                                                               *)
FailsEarly(S) ==                                             (* mutant *)
  IF "failed" \in S THEN "failed" ELSE IF S = {"success"} THEN "success" ELSE "queued"
Misspelled(S) == IF "failed" \in S THEN "partial" ELSE "running"         (* mutant *)
Aggregate(S) ==
  IF "running" \in S THEN "running"
  ELSE IF "failed" \in S THEN IF "success" \in S THEN "partial_failure" ELSE "failed"
  ELSE IF S = {"success"} THEN "success"
  ELSE "queued"

TypeOK ==
  /\ status \in [Executions -> ExecutionStatus]
  /\ stale \subseteq Executions
  /\ source \in [Executions -> Maybe]
  /\ runStatus \in [Runs -> RunStatus]
  /\ live \in [Targets -> Maybe]
  /\ started \in [Runs -> Nat]
  /\ finished \in [Runs -> Nat]
  /\ touched \subseteq Executions
  /\ last \in [Targets -> Maybe]
  /\ pc \in [Procs -> Pcs]
  /\ job \in [Procs -> Maybe]
  /\ current \in [Procs -> Maybe]
  /\ pend \in [Procs -> Pend]
  /\ crashes \in 0..MaxCrashes /\ dbErrors \in 0..MaxDbErrors

Init ==
  /\ status = [e \in Executions |-> "none"]
  /\ stale = {}
  /\ source = [e \in Executions |-> NoExecution]
  /\ runStatus = [r \in Runs |-> "none"]
  /\ live = [t \in Targets |-> NoExecution]
  /\ started = [r \in Runs |-> 0]
  /\ finished = [r \in Runs |-> 0]
  /\ touched = {}
  /\ last = [t \in Targets |-> NoExecution]
  /\ pc = [p \in Procs |-> "poll"]
  /\ job = [p \in Procs |-> NoExecution]
  /\ current = [p \in Procs |-> NoExecution]
  /\ pend = [p \in Procs |-> NoPend]
  /\ crashes = 0 /\ dbErrors = 0

-----------------------------------------------------------------------------
(* enqueue_deployment_run: a stop or restart takes only the targets that   *)
(* are currently deployed, and may end up with no execution at all.  The   *)
(* new rows carry the present time.                                        *)
EnqueueDeploymentRun(r) ==
  LET Mine  == {e \in Executions : RunOf[e] = r}
      Taken == IF ActionOf[r] = "deploy" THEN Mine
               ELSE {e \in Mine : CurrentlyDeployed(TargetOf[e])}
  IN  /\ runStatus[r] = "none"
      /\ \A f \in Executions, e \in Mine : status[f] # "none" => CreatedAt[f] < CreatedAt[e]
      /\ runStatus' = [runStatus EXCEPT ![r] = "queued"]
      /\ status' = [e \in Executions |-> IF e \in Taken THEN "queued" ELSE status[e]]
      /\ source' = IF ActionOf[r] = "deploy" THEN source
                   ELSE [e \in Executions |->
                           IF e \in Taken THEN CurrentDeployment(TargetOf[e]) ELSE source[e]]
      /\ UNCHANGED <<stale, worldVars, procVars, boundVars>>

-----------------------------------------------------------------------------
(* The reaper, first half of a poll iteration. *)

ReapStaleRunningJob(p, e) ==
  /\ pc[p] = "poll"
  /\ e \in Reapable
  /\ status' = [status EXCEPT ![e] = "failed"]
  /\ stale' = stale \ {e}
  /\ pc' = [pc EXCEPT ![p] = "reaped"]
  /\ job' = [job EXCEPT ![p] = e]
  /\ UNCHANGED <<source, runStatus, worldVars, current, pend, boundVars>>

NothingToReap(p) ==
  /\ pc[p] = "poll"
  /\ Reapable = {}
  /\ pc' = [pc EXCEPT ![p] = "claim"]
  /\ UNCHANGED <<dbVars, worldVars, job, current, pend, boundVars>>

-----------------------------------------------------------------------------
(* _claim_next_job, second half of a poll iteration. *)

NothingToClaim(p) ==
  /\ pc[p] = "claim"
  /\ \A e \in Executions : status[e] = "queued" => e \in Locked
  /\ pc' = [pc EXCEPT ![p] = "poll"]
  /\ UNCHANGED <<dbVars, worldVars, job, current, pend, boundVars>>

(* SELECT the oldest queued row FOR UPDATE SKIP LOCKED. *)
SelectQueued(p, e) ==
  LET Claimable == {f \in Executions : status[f] = "queued"} \ Locked
  IN  /\ pc[p] = "claim"
      /\ e \in Oldest(Claimable)
      /\ pc' = [pc EXCEPT ![p] = "claiming"]
      /\ job' = [job EXCEPT ![p] = e]
      /\ UNCHANGED <<dbVars, worldVars, current, pend, boundVars>>

(* The commit violates the index and is rolled back. *)
LoseClaim(p) ==
  /\ pc[p] = "claiming"
  /\ ~IndexFree
  /\ pc' = [pc EXCEPT ![p] = "poll"]
  /\ job' = [job EXCEPT ![p] = NoExecution]
  /\ UNCHANGED <<dbVars, worldVars, current, pend, boundVars>>

WinClaim(p) ==
  /\ pc[p] = "claiming"
  /\ IndexFree
  /\ status' = [status EXCEPT ![job[p]] = "running"]
  /\ pc' = [pc EXCEPT ![p] = "claimed"]
  /\ UNCHANGED <<stale, source, runStatus, worldVars, job, current, pend, boundVars>>

(* Rows of the run that are no longer queued, counted after the commit. *)
FirstOfRun(r)  == Cardinality({e \in ExecutionsOf(r) : status[e] # "queued"}) = 1

CountStarted(p) ==
  LET r == RunOf[job[p]]
  IN  /\ pc[p] = "claimed"
      /\ started' = IF FirstOfRun(r) THEN [started EXCEPT ![r] = @ + 1] ELSE started
      /\ pc' = [pc EXCEPT ![p] = "announce"]
      /\ UNCHANGED <<dbVars, live, finished, touched, last, job, current, pend, boundVars>>

(* _poll_loop stores the id the heartbeat thread reads.                    *)
StartRun(p) ==
  /\ pc[p] = "announce"
  /\ current' = [current EXCEPT ![p] = job[p]]
  /\ pc' = [pc EXCEPT ![p] = IF Action(job[p]) = "stop" THEN "applying" ELSE "resolving"]
  /\ UNCHANGED <<dbVars, worldVars, job, pend, boundVars>>

-----------------------------------------------------------------------------
(* _run_deployment. *)

(* resolve_manifest found an image for every placeholder. *)
ResolveManifest(p) ==
  /\ pc[p] = "resolving"
  /\ pc' = [pc EXCEPT ![p] = "applying"]
  /\ UNCHANGED <<dbVars, worldVars, job, current, pend, boundVars>>

(* kubectl delete, of a stop or as the first half of a restart.  A stop    *)
(* deletes what its source applied: if something newer is applied by then, *)
(* the objects it renamed or added may stay.                               *)
DeleteManifest(p) ==
  LET e == job[p]
      t == TargetOf[e]
      mayStay == Action(e) = "stop" /\ live[t] # source[e]
  IN  /\ pc[p] = "applying"
      /\ Action(e) \in {"stop", "restart"}
      /\ Quick
      /\ \E left \in {NoExecution} \union (IF mayStay THEN {live[t]} ELSE {}) :
           live' = [live EXCEPT ![t] = left]
      /\ touched' = touched \union {e} /\ last' = [last EXCEPT ![t] = e]
      /\ pc' = [pc EXCEPT ![p] = IF Action(e) = "stop" THEN "applied" ELSE "reapplying"]
      /\ UNCHANGED <<dbVars, started, finished, job, current, pend, boundVars>>

(* kubectl apply, of a deploy or as the second half of a restart. *)
ApplyManifest(p) ==
  LET e == job[p]
  IN  /\ \/ pc[p] = "applying" /\ Action(e) = "deploy"
         \/ pc[p] = "reapplying"
      /\ Quick
      /\ live' = [live EXCEPT ![TargetOf[e]] = e]
      /\ touched' = touched \union {e} /\ last' = [last EXCEPT ![TargetOf[e]] = e]
      /\ pc' = [pc EXCEPT ![p] = "applied"]
      /\ UNCHANGED <<dbVars, started, finished, job, current, pend, boundVars>>

(* An unguarded ORM UPDATE by primary key publishes the outcome. *)
PublishStatus(p, outcome) ==
  /\ status' = [status EXCEPT ![job[p]] = outcome]
  /\ stale' = stale \ {job[p]}
  /\ pc' = [pc EXCEPT ![p] = "finishing"]
  /\ UNCHANGED <<source, runStatus, worldVars, job, current, pend, boundVars>>

PublishSuccess(p) ==
  /\ pc[p] = "applied"
  /\ PublishStatus(p, "success")

(* An unresolved placeholder, a rejected or half applied manifest, or a    *)
(* rollout that is not ready in time, after the manifest was applied.      *)
PublishFailure(p) ==
  /\ pc[p] \in {"resolving", "applying", "reapplying", "applied"}
  /\ PublishStatus(p, "failed")

-----------------------------------------------------------------------------
(* _update_run_status, from _run_deployment's finally block or the reaper. *)

(* The queued rows a failure calls off, and what is left. *)
NobodyCalledOff(r) == {}                                     (* mutant *)
CalledOff(r) ==
  IF \E e \in ExecutionsOf(r) : status[e] = "failed"
  THEN {e \in ExecutionsOf(r) : status[e] = "queued"} ELSE {}
StatusesAfter(r) ==
  {IF e \in CalledOff(r) THEN "skipped" ELSE status[e] : e \in ExecutionsOf(r)}

ReadRun(p) ==
  LET r == RunOf[job[p]]
      now == Aggregate(StatusesAfter(r))
  IN  /\ pc[p] \in {"reaped", "finishing"}
      /\ pend' = [pend EXCEPT ![p] = [wasTerminal |-> runStatus[r] \in Terminal,
                                      dirty       |-> runStatus[r] # now,
                                      now         |-> now,
                                      skips       |-> CalledOff(r)]]
      /\ pc' = [pc EXCEPT ![p] = "updating"]
      /\ UNCHANGED <<dbVars, worldVars, job, current, boundVars>>

(* The thread is done with its job: back to _poll_loop. *)
Release(p, where) ==
  /\ pc' = [pc EXCEPT ![p] = where]
  /\ job' = [job EXCEPT ![p] = NoExecution]
  /\ current' = [current EXCEPT ![p] = NoExecution]
  /\ pend' = [pend EXCEPT ![p] = NoPend]

(* _current_execution_id tells a run from the reaper, which goes on to     *)
(* claim; and decides whether _poll_loop catches an exception.             *)
AfterUpdate(p)    == IF current[p] = NoExecution THEN "claim" ELSE "poll"
AfterException(p) == IF current[p] = NoExecution THEN "poll" ELSE "dead"

(* The rows to skip that are not locked by a claim in progress: the UPDATE *)
(* waits for the claim, then writes over its 'running'.                    *)
SkipsWait(p) == pend[p].skips \intersect Locked # {}

(* The run was not terminal when loaded and is now. *)
Announces(p) == ~pend[p].wasTerminal /\ pend[p].now \in Terminal

CommitRun(p) ==
  LET r == RunOf[job[p]]
  IN  /\ pc[p] = "updating"
      /\ ~SkipsWait(p)
      /\ status' = [e \in Executions |-> IF e \in pend[p].skips THEN "skipped" ELSE status[e]]
      /\ stale' = stale \ pend[p].skips
      /\ runStatus' = IF pend[p].dirty THEN [runStatus EXCEPT ![r] = pend[p].now] ELSE runStatus
      /\ finished' = IF Announces(p)
                     THEN [finished EXCEPT ![r] = @ + 1] ELSE finished
      /\ Release(p, AfterUpdate(p))
      /\ UNCHANGED <<source, live, started, touched, last, boundVars>>

-----------------------------------------------------------------------------
(* Heartbeats, time and failures, as in BuildQueue. *)

HeartbeatExpires(e) ==
  /\ e \in Running \ stale
  /\ LateHeartbeats \/ \A p \in Procs : current[p] # e /\ ~(Owns(p) /\ job[p] = e)
  /\ Quick
  /\ stale' = stale \union {e}
  /\ UNCHANGED <<status, source, runStatus, worldVars, procVars, boundVars>>

HeartbeatTick(p) ==
  /\ current[p] \in stale
  /\ stale' = stale \ {current[p]}
  /\ UNCHANGED <<status, source, runStatus, worldVars, procVars, boundVars>>

Crash(p) ==
  /\ crashes < MaxCrashes
  /\ crashes' = crashes + 1
  /\ Release(p, "poll")
  /\ UNCHANGED <<dbVars, worldVars, dbErrors>>

(* log_error rolls the pending 'failed' back and commits only its entry. *)
LoseFailure(p) ==
  /\ dbErrors < MaxDbErrors
  /\ dbErrors' = dbErrors + 1
  /\ pc[p] \in {"resolving", "applying", "reapplying", "applied"}
  /\ pc' = [pc EXCEPT ![p] = "finishing"]
  /\ UNCHANGED <<dbVars, worldVars, job, current, pend, crashes>>

(* A database error in the poll tick or in _run_deployment's finally block. *)
DbError(p) ==
  /\ dbErrors < MaxDbErrors
  /\ pc[p] # "dead"
  /\ dbErrors' = dbErrors + 1
  /\ Release(p, AfterException(p))
  /\ UNCHANGED <<dbVars, worldVars, crashes>>

-----------------------------------------------------------------------------
PollThread(p) ==
  \/ \E e \in Executions : ReapStaleRunningJob(p, e)
  \/ NothingToReap(p)
  \/ NothingToClaim(p)
  \/ \E e \in Executions : SelectQueued(p, e)
  \/ LoseClaim(p)
  \/ WinClaim(p)
  \/ CountStarted(p)
  \/ StartRun(p)
  \/ ResolveManifest(p)
  \/ DeleteManifest(p)
  \/ ApplyManifest(p)
  \/ PublishSuccess(p)
  \/ PublishFailure(p)
  \/ ReadRun(p)
  \/ CommitRun(p)

Next ==
  \/ \E r \in Runs : EnqueueDeploymentRun(r)
  \/ \E p \in Procs : PollThread(p)
  \/ \E e \in Executions : HeartbeatExpires(e)
  \/ \E p \in Procs : HeartbeatTick(p)
  \/ \E p \in Procs : Crash(p)
  \/ \E p \in Procs : LoseFailure(p) \/ DbError(p)

Spec == Init /\ [][Next]_vars

(* As in BuildQueue: poll threads go on, time passes, and the moments      *)
(* without short transactions that kubectl calls and timeouts wait for     *)
(* recur without lasting.                                                  *)
Fairness ==
  /\ \A p \in Procs : /\ WF_vars(PollThread(p))
                      /\ SF_vars(DeleteManifest(p)) /\ SF_vars(ApplyManifest(p))
                      /\ SF_vars(CommitRun(p))
  /\ \A e \in Executions : SF_vars(HeartbeatExpires(e))

FairSpec == Spec /\ Fairness
-----------------------------------------------------------------------------
(* Properties. *)

(* One row is 'running' at most, and no execution is ever worked on by two *)
(* processes, whatever is skipped, reaped or delayed.                      *)
OneOwnerPerExecution ==
  /\ \A e, f \in Running : e = f
  /\ \A p, q \in Procs : Owns(p) /\ Owns(q) /\ job[p] = job[q] => p = q

(* An execution that was claimed, skipped or finished never returns to the *)
(* queue and is never claimed again: a manifest is not applied twice for   *)
(* one request, although outcomes may be overwritten.                      *)
NothingRunsTwice ==
  [][\A e \in Executions :
       status[e] \in {"running"} \union Done =>
         /\ status'[e] \in {"running"} \union Done
         /\ status'[e] = "running" => status[e] = "running"]_vars

(* While heartbeats are on time, two processes deploy at once only when    *)
(* _update_run_status wrote 'skipped' over the row of one of them.         *)
OverlapOnlyBySkip ==
  \A p, q \in Procs :
    Owns(p) /\ Owns(q) /\ p # q => "skipped" \in {status[job[p]], status[job[q]]}

(* A run with a terminal status has no execution left to run, also when it *)
(* is aggregated by two processes or by the reaper.  Its start has been    *)
(* announced once at most: the count of the started executions is taken    *)
(* after the claim's commit, not with it.                                  *)
TerminalRunsAreDone ==
  \A r \in Runs :
    /\ runStatus[r] \in Terminal => \A e \in ExecutionsOf(r) : status[e] \in Done
    /\ started[r] <= 1

(* The docstring of _update_run_status: once any execution of a run has    *)
(* failed, every execution still queued is marked 'skipped' "instead of    *)
(* ever being claimed".  While nothing crashes and the database answers,   *)
(* the only window is the one between the commit of the failure and the    *)
(* update of the run: past it, no execution of a failed run is claimed.    *)
ClaimedOnlyBeforeSkip ==
  [][\A e, f \in Executions :
       /\ RunOf[e] = RunOf[f]
       /\ status[f] = "failed" /\ status[e] = "queued" /\ status'[e] = "running"
       => (\E p \in Procs : job[p] = f) \/ crashes + dbErrors > 0]_vars

(* The docstring of enqueue_deployment_run: "the worker claims queued      *)
(* executions oldest-created-first".  Who changed a target last is then    *)
(* the youngest of those that did.                                         *)
ActedInTurn(t) ==
  \A e \in touched : TargetOf[e] = t => CreatedAt[e] <= CreatedAt[last[t]]
ActsInTurn == \A t \in Targets : ActedInTurn(t)

(* What get_current_deployment calls current is what is on the cluster,    *)
(* unless an older execution acted on it after a younger one, a younger    *)
(* one changed it without succeeding, or the current one is a stop that    *)
(* was enqueued while a deployment of its target was waiting: it deletes   *)
(* the manifest that was applied when it was enqueued, not the one the     *)
(* deployment has applied since.                                           *)
CurrentMatchesCluster ==
  \A t \in Targets :
    LET e == CurrentDeployment(t)
        Unfinished == {f \in touched : TargetOf[f] = t /\ status[f] # "success"}
    IN  \/ ~ActedInTurn(t)
        \/ \E f \in Unfinished : e = NoExecution \/ CreatedAt[e] < CreatedAt[f]
        \/ live[t] = (IF CurrentlyDeployed(t) THEN e ELSE NoExecution)
        \/ e # NoExecution /\ Action(e) = "stop" /\ live[t] # source[e]

(* The docstring of _update_run_status: the outcome of an execution "still *)
(* feeds into this same aggregation once it completes".  While nothing     *)
(* crashes and the database answers, a run whose executions are all done   *)
(* and that no process works on has their outcome and was announced once.  *)
RunsSettle ==
  \A r \in Runs :
    /\ crashes + dbErrors = 0 /\ ExecutionsOf(r) # {}
    /\ \A e \in ExecutionsOf(r) : status[e] \in Done
    /\ \A p \in Procs : job[p] \notin ExecutionsOf(r)
    => /\ runStatus[r] = Aggregate({status[e] : e \in ExecutionsOf(r)})
       /\ finished[r] = 1

(* The module docstring: "only one deployment execution runs at a time     *)
(* system-wide".                                                           *)
OneDeployer == \A p, q \in Procs : Owns(p) /\ Owns(q) => p = q

(* Every queued execution is carried out, failed or skipped, whatever      *)
(* crashes, as long as one poll thread survives.                           *)
EveryExecutionEnds ==
  \A e \in Executions : status[e] = "queued" ~> status[e] \in Done
-----------------------------------------------------------------------------
(* The abstract jobs the runs of this module are to the orchestrator.      *)

OutcomeOf ==
  [none |-> "absent", queued |-> "open", running |-> "open", success |-> "success",
   failed |-> "failed", partial_failure |-> "partial_failure"]

Board == INSTANCE JobBoard WITH
           Jobs    <- Runs,
           outcome <- [r \in Runs |-> OutcomeOf[runStatus[r]]]

(* A run that has ended keeps its outcome: no update of it starts before   *)
(* another has committed and is written over it, and the reaper aggregates *)
(* no run again.  The orchestrator reads it once and goes on.              *)
RunsAreJobs == Board!Spec
=============================================================================
