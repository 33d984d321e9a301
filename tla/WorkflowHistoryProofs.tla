------------------------- MODULE WorkflowHistoryProofs -------------------------
(* Theorems about what a run reports: its status, its flag, its notices    *)
(* and its step runs tell one story; steps start in their order, and once.  *)
EXTENDS WorkflowProofs

USE WorkflowAssumption

-----------------------------------------------------------------------------
(* The flag of a run and its failed step runs.                             *)

Failed(k)  == stepRuns[k].status = "failed"
Stopped(k) == Failed(k) /\ OnFailure[stepRuns[k].step] = "stop"

(* has_failed_step counts the failed step runs but e (0: all of them), and *)
(* none of these stops the run.                                            *)
FlagOf(r, e) ==
  /\ r \in hasFailed <=> \E k \in RowsOf(r) \ {e} : Failed(k)
  /\ \A k \in RowsOf(r) \ {e} : ~Stopped(k)

(* The step run whose failure finish_step has yet to count.                *)
Uncounted(p) == IF pc[p] = "finish" /\ ~at[p].ok THEN at[p].entry ELSE 0

WorkOf(p) == Busy(p) => FlagOf(at[p].run, Uncounted(p))

HistOf(r) ==
  /\ (\E k \in RowsOf(r) : ~Over(k)) => FlagOf(r, 0)
  /\ runStatus[r] = "success" => \A k \in RowsOf(r) : ~Failed(k)
  /\ runStatus[r] = "completed_with_failures" => FlagOf(r, 0) /\ r \in hasFailed
  /\ runStatus[r] = "failed" => \E k \in RowsOf(r) : Stopped(k)

HistoryInv ==
  /\ \A r \in Runs : HistOf(r)
  /\ \A p \in Agents : WorkOf(p)

(* What leaves a run's step runs and flag alone leaves its history alone.  *)
LEMMA SameHistory ==
  ASSUME NEW r \in Runs, r \in hasFailed' <=> r \in hasFailed, RowsOf(r)' = RowsOf(r),
         \A k \in RowsOf(r) : stepRuns'[k] = stepRuns[k]
  PROVE  /\ \A e : FlagOf(r, e) => FlagOf(r, e)'
         /\ HistOf(r) /\ (runStatus'[r] = runStatus[r] \/ runStatus'[r] \notin Ended) => HistOf(r)'
<1>1. \A k \in RowsOf(r) : (Failed(k)' <=> Failed(k)) /\ (Stopped(k)' <=> Stopped(k)) /\ (Over(k)' <=> Over(k))
  BY DEF Failed, Stopped, Over
<1>2. ASSUME NEW e, FlagOf(r, e) PROVE FlagOf(r, e)'
  BY <1>1, <1>2 DEF FlagOf
<1>3. ASSUME HistOf(r), runStatus'[r] = runStatus[r] \/ runStatus'[r] \notin Ended PROVE HistOf(r)'
  <2>1. FlagOf(r, 0) => FlagOf(r, 0)'
    BY <1>2
  <2>2. ((\E k \in RowsOf(r) : ~Over(k)) => FlagOf(r, 0))'
    BY <1>1, <1>3, <2>1 DEF HistOf
  <2>3. (runStatus[r] = "success" => \A k \in RowsOf(r) : ~Failed(k))'
    BY <1>1, <1>3 DEF HistOf, Ended
  <2>4. (runStatus[r] = "completed_with_failures" => FlagOf(r, 0) /\ r \in hasFailed)'
    BY <1>3, <2>1 DEF HistOf, Ended
  <2>5. (runStatus[r] = "failed" => \E k \in RowsOf(r) : Stopped(k))'
    BY <1>1, <1>3 DEF HistOf, Ended
  <2>6. QED
    BY <2>2, <2>3, <2>4, <2>5 DEF HistOf
<1>4. QED
  BY <1>2, <1>3

(* The other agents, and the runs nobody acts on. *)
LEMMA OthersHistory ==
  ASSUME FlowInv, HistoryInv, RowsKept, gitFailures' = 0, NEW p \in Agents, Acts(p)
  PROVE  /\ \A q \in Agents \ {p} : WorkOf(q)'
         /\ \A x \in Runs : \/ HistOf(x)'
                            \/ Busy(p) /\ x = at[p].run
                            \/ /\ pc[p] = "loop" /\ phase[p] = "starting" /\ x \in Listed(p)
                               /\ runStatus[x] = "queued" /\ RowsOf(x) = {} /\ x \notin hasFailed
<1>1. PICK r \in Runs \union {NoRun} :
        /\ Touches(r)
        /\ \/ r = NoRun
           \/ Busy(p) /\ at[p].run = r
           \/ pc[p] = "loop" /\ phase[p] = "starting" /\ r \in Listed(p)
  BY ActsTouches DEF FlowInv
<1>2. ASSUME NEW x \in Runs, x # r
      PROVE  HistOf(x)' /\ \A e : FlagOf(x, e) => FlagOf(x, e)'
  <2>1. /\ RowsOf(x)' = RowsOf(x) /\ \A k \in RowsOf(x) : stepRuns'[k] = stepRuns[k]
    BY <1>1, <1>2, UntouchedRuns DEF FlowInv
  <2>2. runStatus'[x] = runStatus[x] /\ (x \in hasFailed' <=> x \in hasFailed) /\ HistOf(x)
    BY <1>1, <1>2 DEF Touches, HistoryInv
  <2>3. QED
    BY <2>1, <2>2, SameHistory
<1>3. ASSUME NEW q \in Agents \ {p} PROVE WorkOf(q)'
  <2>1. pc'[q] = pc[q] /\ at'[q] = at[q]
    BY OneAgent DEF OthersRest, FlowInv
  <2>2. CASE ~Busy(q)
    BY <2>1, <2>2 DEF WorkOf, Busy
  <2>3. CASE Busy(q)
    <3>1. PICK x \in Runs : x = at[q].run
      BY <2>3 DEF Busy, FlowInv, HandInv, HandOf
    <3>2. x # r
      BY <1>1, <2>3, <3>1 DEF FlowInv, AloneInv, WorkflowAssumption
    <3>3. PICK e : e = Uncounted(q)
      OBVIOUS
    <3>4. FlagOf(x, e)
      BY <2>3, <3>1, <3>3 DEF HistoryInv, WorkOf
    <3>5. FlagOf(x, e)'
      BY <1>2, <3>2, <3>4
    <3>6. at'[q].run = x /\ Uncounted(q)' = e
      BY <2>1, <3>1, <3>3 DEF Uncounted
    <3>7. QED
      BY <3>5, <3>6 DEF WorkOf
  <2>4. QED
    BY <2>2, <2>3
<1>4. ASSUME phase[p] = "starting", NEW x \in Listed(p)
      PROVE  runStatus[x] = "queued" /\ RowsOf(x) = {} /\ x \notin hasFailed
  BY <1>4 DEF FlowInv, OwnInv, OwnOf, RunInv, RunOf, Listed, TypeOK, Pending
<1>5. QED
  BY <1>1, <1>2, <1>3, <1>4

(* Where an agent takes up a run, its flag has counted every step run.     *)
LEMMA TakenUp ==
  ASSUME FlowInv, HistoryInv, RowsKept, gitFailures' = 0, NEW p \in Agents, Acts(p), ~Busy(p)
  PROVE  HistoryInv'
<1>0. TypeOK /\ HandInv /\ (\A r \in Runs : RunOf(r) /\ HistOf(r))
  BY DEF FlowInv, RunInv, HistoryInv
<1>1. ASSUME NEW r \in Runs, FinishWithoutSteps(p, r) PROVE HistOf(r)'
  <2>1. UNCHANGED <<stepRuns, hasFailed>> /\ runStatus'[r] = "success"
    BY <1>0, <1>1 DEF FinishWithoutSteps, TypeOK
  <2>2. r \in Listed(p) /\ phase[p] = "starting"
    BY <1>0, <1>1, IdleType DEF FinishWithoutSteps, Listed, HandInv, HandOf, WorkflowAssumption
  <2>3. RowsOf(r) = {}
    BY <1>0, <2>2 DEF FlowInv, OwnInv, OwnOf, RunOf, Pending
  <2>4. RowsOf(r)' = {}
    BY <2>1, <2>3 DEF RowsOf
  <2>5. QED
    BY <2>1, <2>4 DEF HistOf
<1>2. ASSUME NEW x \in Runs PROVE HistOf(x)'
  <2>1. CASE UNCHANGED <<runVars, stepRuns, jobs>>
    <3>1. RowsOf(x)' = RowsOf(x) /\ runStatus'[x] = runStatus[x]
      BY <2>1 DEF RowsOf, runVars
    <3>2. QED
      BY <1>0, <2>1, <3>1, SameHistory DEF runVars
  <2>2. CASE \E r \in Runs : FinishWithoutSteps(p, r)
    <3>1. PICK r \in Runs : FinishWithoutSteps(p, r)
      BY <2>2
    <3>2. CASE x = r
      BY <1>1, <3>1, <3>2
    <3>3. CASE x # r
      <4>1. RowsOf(x)' = RowsOf(x) /\ runStatus'[x] = runStatus[x] /\ UNCHANGED <<stepRuns, hasFailed>>
        BY <1>0, <3>1, <3>3 DEF RowsOf, FinishWithoutSteps, TypeOK
      <4>2. QED
        BY <1>0, <4>1, SameHistory
    <3>4. QED
      BY <3>2, <3>3
  <2>3. (\E r \in Runs : FinishWithoutSteps(p, r)) \/ UNCHANGED <<runVars, stepRuns, jobs>>
    BY <1>0 DEF Acts, Busy, Tick, Review, Advance, ListQueued, TakeQueued, ListRunning, NothingToDecide,
           ReadOutcome, CommitOutcome, EndTick, OpenReview, CannotApprove, Approve, BindBatch, Reject,
           CannotStart, Prefill, AwaitReview, EnqueueJob, InsertStepRun, StepVanished,
           FinishCurrentStep, FailStep, PrefillRollsBack, Abort, runVars, TypeOK
  <2>4. QED
    BY <2>1, <2>2, <2>3
<1>3. ASSUME Busy(p)' PROVE FlagOf(at[p].run, Uncounted(p))'
  <2>0. /\ pc'[p] # "finish"
        /\ UNCHANGED <<runVars, stepRuns>>
        /\ \/ p \in Procs /\ \E r \in Runs : TakeQueued(p, r) \/ ReadOutcome(p, r)
           \/ p \in Reviewers /\ \E k \in DOMAIN stepRuns : OpenReview(p, k)
    <3>1. ~Stays(p) /\ pc'[p] # "loop"
      BY <1>3 DEF Stays, Busy
    <3>2. CASE p \in Procs /\ \E r \in Runs : TakeQueued(p, r) \/ ReadOutcome(p, r)
      BY <1>0, <3>2 DEF TakeQueued, ReadOutcome, Goto, TypeOK
    <3>3. CASE p \in Reviewers /\ \E k \in DOMAIN stepRuns : OpenReview(p, k)
      BY <1>0, <3>3 DEF OpenReview, Goto, TypeOK
    <3>4. ~FinishCurrentStep(p) /\ ~FailStep(p) /\ ~Prefill(p) /\ ~PrefillRollsBack(p) /\ ~CannotStart(p)
          /\ ~EnqueueJob(p) /\ ~CommitOutcome(p) /\ ~Reject(p) /\ ~Approve(p)
      BY DEF Busy, FinishCurrentStep, FailStep, Prefill, PrefillRollsBack, CannotStart, EnqueueJob,
             CommitOutcome, Reject, Approve
    <3>5. (\E r \in Runs : TakeQueued(p, r)) => p \in Procs
      BY <1>0, DisjointAgents DEF TakeQueued, HandInv, HandOf, Agents
    <3>6. QED
      BY <1>0, <3>1, <3>2, <3>3, <3>4, <3>5, PlaceChanges
  <2>1. PICK x \in Runs : x = at'[p].run /\ FlagOf(x, 0)
    <3>1. ASSUME NEW r \in Runs, TakeQueued(p, r), p \in Procs PROVE at'[p].run = r /\ FlagOf(r, 0)
      <4>1. r \in Listed(p) /\ phase[p] = "starting"
        BY <1>0, <3>1, IdleType DEF TakeQueued, Listed, HandInv, HandOf, WorkflowAssumption
      <4>2. RowsOf(r) = {} /\ r \notin hasFailed
        BY <1>0, <4>1 DEF FlowInv, OwnInv, OwnOf, RunOf, Pending
      <4>3. at'[p].run = r
        BY <1>0, <3>1, TakeQueuedDoes DEF Hands, TypeOK
      <4>4. QED
        BY <4>2, <4>3 DEF FlagOf
    <3>2. ASSUME NEW r \in Runs, ReadOutcome(p, r), p \in Procs PROVE at'[p].run = r /\ FlagOf(r, 0)
      <4>1. PICK k \in DOMAIN stepRuns : stepRuns[k].run = r /\ stepRuns[k].status = "running"
        BY <1>0, <3>2, ReadOutcomeDoes
      <4>2. k \in RowsOf(r) /\ ~Over(k)
        BY <4>1 DEF RowsOf, Over
      <4>3. at'[p].run = r
        BY <1>0, <3>2, ReadOutcomeDoes DEF Hands, TypeOK
      <4>4. QED
        BY <1>0, <4>2, <4>3 DEF HistOf
    <3>3. ASSUME NEW k \in DOMAIN stepRuns, OpenReview(p, k), p \in Reviewers
          PROVE  at'[p].run = stepRuns[k].run /\ stepRuns[k].run \in Runs /\ FlagOf(stepRuns[k].run, 0)
      <4>1. at'[p].run = stepRuns[k].run /\ stepRuns[k].run \in Runs
        BY <1>0, <3>3, OpenReviewDoes DEF Hands, TypeOK
      <4>2. k \in RowsOf(stepRuns[k].run) /\ ~Over(k)
        BY <3>3 DEF RowsOf, Over, OpenReview, AwaitsReview
      <4>3. QED
        BY <1>0, <4>1, <4>2 DEF HistOf
    <3>4. QED
      BY <2>0, <3>1, <3>2, <3>3
  <2>2. FlagOf(x, 0)'
    <3>1. RowsOf(x)' = RowsOf(x) /\ UNCHANGED <<stepRuns, hasFailed>>
      BY <2>0 DEF RowsOf, runVars
    <3>2. QED
      BY <2>1, <3>1, SameHistory
  <2>3. Uncounted(p)' = 0 /\ at'[p].run = x
    BY <2>0, <2>1 DEF Uncounted
  <2>4. QED
    BY <2>2, <2>3
<1>4. QED
  BY <1>2, <1>3, OthersHistory DEF HistoryInv, WorkOf

(* finish_step, once the step run of a step that failed is written: e is   *)
(* that step run, or 0 when the step ended well.                           *)
LEMMA FinishTells ==
  ASSUME TypeOK, TypeOK', NEW p \in Agents, NEW r \in Runs, r = at[p].run, at[p].step \in Steps,
         NEW ok \in BOOLEAN, FinishStep(p, ok), runStatus[r] = "running",
         \A k \in RowsOf(r)' : Over(k)',
         NEW e,
         r \in hasFailed <=> \E k \in RowsOf(r)' \ {e} : Failed(k)',
         \A k \in RowsOf(r)' \ {e} : ~Stopped(k)',
         ok => e = 0,
         ~ok => e \in RowsOf(r)' /\ Failed(e)' /\ stepRuns'[e].step = at[p].step
  PROVE  HistOf(r)' /\ WorkOf(p)'
<1>1. /\ hasFailed' = IF ok THEN hasFailed ELSE hasFailed \union {r}
      /\ \/ Stops(at[p].step, ok) /\ EndsRun(p, "failed")
         \/ ~Stops(at[p].step, ok) /\ EndsRun(p, FinalStatus(~ok \/ r \in hasFailed))
         \/ ~Stops(at[p].step, ok) /\ \E t \in Steps : GoesOn(p, t)
  BY FinishDoes
<1>2. 0 \notin RowsOf(r)'
  <2>1. 0 \notin DOMAIN stepRuns'
    BY DEF TypeOK
  <2>2. QED
    BY <2>1 DEF RowsOf
<1>3. r \in hasFailed' <=> (~ok \/ r \in hasFailed)
  BY <1>1
<1>4. r \in hasFailed' <=> \E k \in RowsOf(r)' : Failed(k)'
  <2>1. CASE ok
    BY <1>2, <1>3, <2>1
  <2>2. CASE ~ok
    BY <1>3, <2>2
  <2>3. QED
    BY <2>1, <2>2
<1>5. ASSUME ~Stops(at[p].step, ok) PROVE FlagOf(r, 0)'
  <2>1. \A k \in RowsOf(r)' : ~Stopped(k)'
    <3>1. CASE ok
      BY <1>2, <3>1
    <3>2. CASE ~ok
      <4>1. ~Stopped(e)'
        BY <1>5, <3>2 DEF Stops, Stopped
      <4>2. QED
        BY <4>1
    <3>3. QED
      BY <3>1, <3>2
  <2>2. QED
    BY <1>2, <1>4, <2>1 DEF FlagOf
<1>6. ASSUME NEW st, EndsRun(p, st) PROVE pc'[p] = "loop" /\ runStatus'[r] = st
  BY <1>6 DEF EndsRun, Return, TypeOK
<1>7. CASE Stops(at[p].step, ok) /\ EndsRun(p, "failed")
  <2>1. pc'[p] = "loop" /\ runStatus'[r] = "failed"
    BY <1>6, <1>7
  <2>2. Stopped(e)' /\ e \in RowsOf(r)'
    BY <1>7 DEF Stops, Stopped
  <2>3. QED
    BY <2>1, <2>2 DEF HistOf, WorkOf, Busy
<1>8. CASE ~Stops(at[p].step, ok) /\ EndsRun(p, FinalStatus(~ok \/ r \in hasFailed))
  <2>1. pc'[p] = "loop" /\ runStatus'[r] = FinalStatus(~ok \/ r \in hasFailed)
    BY <1>6, <1>8
  <2>2. /\ runStatus'[r] = "success" => r \notin hasFailed'
        /\ runStatus'[r] = "completed_with_failures" => r \in hasFailed'
        /\ runStatus'[r] # "failed"
    BY <1>3, <2>1 DEF FinalStatus
  <2>3. FlagOf(r, 0)'
    BY <1>5, <1>8
  <2>4. QED
    BY <1>4, <2>1, <2>2, <2>3 DEF HistOf, WorkOf, Busy
<1>9. CASE ~Stops(at[p].step, ok) /\ \E t \in Steps : GoesOn(p, t)
  <2>1. /\ pc'[p] = "start" /\ runStatus'[r] = "running" /\ at'[p].run = r
    <3>1. PICK t \in Steps : GoesOn(p, t)
      BY <1>9
    <3>2. QED
      BY <3>1 DEF GoesOn, Goto, Hands, TypeOK
  <2>2. FlagOf(r, 0)' /\ Uncounted(p)' = 0
    BY <1>5, <1>9, <2>1 DEF Uncounted
  <2>3. QED
    BY <2>1, <2>2 DEF HistOf, WorkOf
<1>10. QED
  BY <1>1, <1>7, <1>8, <1>9

(* An agent at work on its run. *)
LEMMA WorkedOn ==
  ASSUME FlowInv, FlowInv', HistoryInv, RowsKept, gitFailures' = 0, NEW p \in Agents, Acts(p), Busy(p)
  PROVE  HistoryInv'
<1>0. /\ TypeOK /\ TypeOK' /\ HandInv /\ HandOf(p) /\ OwnOf(p) /\ WatchOf(p) /\ WorkOf(p)
      /\ at[p].step \in Steps
  BY Hand DEF FlowInv, HandInv, OwnInv, WatchInv, HistoryInv, Busy
<1>1. PICK r \in Runs : r = at[p].run
  BY Hand DEF FlowInv, Busy
<1>2. PICK e : e = Uncounted(p)
  OBVIOUS
<1>3. HistOf(r) /\ RunOf(r) /\ FlagOf(r, e)
  BY <1>0, <1>1, <1>2 DEF HistoryInv, FlowInv, RunInv, WorkOf
<1>4. 0 \notin DOMAIN stepRuns
  BY <1>0 DEF TypeOK
<1> DEFINE Goal == HistOf(r)' /\ WorkOf(p)'
<1>a. ASSUME UNCHANGED <<stepRuns, hasFailed>>, runStatus'[r] = runStatus[r] \/ runStatus'[r] \notin Ended,
             \/ pc'[p] = "loop"
             \/ pc[p] # "finish" /\ pc'[p] # "finish" /\ at'[p].run = r
      PROVE  Goal
  <2>1. RowsOf(r)' = RowsOf(r)
    BY <1>a DEF RowsOf
  <2>2. HistOf(r)' /\ FlagOf(r, e)'
    BY <1>3, <1>a, <2>1, SameHistory
  <2>3. WorkOf(p)'
    <3>1. CASE pc'[p] = "loop"
      BY <3>1 DEF WorkOf, Busy
    <3>2. CASE pc[p] # "finish" /\ pc'[p] # "finish" /\ at'[p].run = r
      <4>1. e = 0 /\ Uncounted(p)' = 0
        BY <1>2, <3>2 DEF Uncounted
      <4>2. QED
        BY <2>2, <3>2, <4>1 DEF WorkOf
    <3>3. QED
      BY <1>a, <3>1, <3>2
  <2>4. QED
    BY <2>2, <2>3
<1>b. "running" \notin Ended
  BY DEF Ended
<1> HIDE DEF Goal
<1>5. ASSUME CannotStart(p) \/ Prefill(p) PROVE Goal
  <2>1. /\ UNCHANGED <<stepRuns, hasFailed, at>> /\ runStatus'[r] = "running"
        /\ pc[p] = "start" /\ pc'[p] # "finish"
    BY <1>0, <1>1, <1>5 DEF CannotStart, Prefill, WriteRun, Goto, TypeOK
  <2>2. QED
    BY <1>1, <1>a, <1>b, <2>1
<1>6. ASSUME EnqueueJob(p) PROVE Goal
  <2>2. at'[p].run = r
    BY <1>0, <1>1, <1>6, JobInHand DEF EnqueueJob, Hands, TypeOK
  <2>3. UNCHANGED <<stepRuns, hasFailed>>
    BY <1>6 DEF EnqueueJob
  <2>4. runStatus'[r] = runStatus[r] \/ runStatus'[r] \notin Ended
    <3>1. UNCHANGED runStatus \/ WriteRun(p)
      BY <1>6 DEF EnqueueJob
    <3>2. QED
      BY <1>0, <1>1, <1>b, <3>1 DEF WriteRun, TypeOK
  <2>5. pc[p] # "finish" /\ pc'[p] # "finish"
    BY <1>0, <1>6 DEF EnqueueJob, Goto, TypeOK
  <2>6. QED
    BY <1>a, <2>2, <2>3, <2>4, <2>5
<1>7. ASSUME Approve(p), p \in Reviewers PROVE Goal
  <2>1. UNCHANGED <<stepRuns, hasFailed, runStatus>> /\ pc[p] # "finish" /\ pc'[p] # "finish"
    BY <1>0, <1>7 DEF Approve, Goto, TypeOK, runVars
  <2>2. at'[p].run = r
    BY <1>0, <1>1, <1>7, JobInHand DEF Approve, Hands, TypeOK
  <2>3. QED
    BY <1>a, <2>1, <2>2
<1>8. ASSUME CannotApprove(p) \/ StepVanished(p) \/ Abort(p) PROVE Goal
  <2>1. UNCHANGED <<stepRuns, hasFailed, runStatus>> /\ pc'[p] = "loop"
    BY <1>0, <1>8 DEF CannotApprove, StepVanished, Abort, Return, TypeOK, runVars
  <2>2. QED
    BY <1>a, <2>1
(* The rows one row of this run apart. *)
<1>c. ASSUME NEW i, NEW st, NEW j, SetsRow(i, st, j), i \in RowsOf(r), ~Over(i)
      PROVE  /\ RowsOf(r)' = RowsOf(r) /\ 0 \notin RowsOf(r)
             /\ \A k \in RowsOf(r) : k # i => /\ Failed(k)' <=> Failed(k)
                                             /\ Stopped(k)' <=> Stopped(k)
             /\ Failed(i)' <=> st = "failed"
             /\ Stopped(i)' => st = "failed"
             /\ FlagOf(r, 0) /\ hasFailed' = hasFailed =>
                  FlagOf(r, i)' /\ (st # "failed" => FlagOf(r, 0)')
  <2>1. RowsOf(r)' = RowsOf(r) /\ 0 \notin RowsOf(r)
    BY <1>4, <1>c DEF SetsRow, RowsOf
  <2>2. \A k \in RowsOf(r) : k # i => (Failed(k)' <=> Failed(k)) /\ (Stopped(k)' <=> Stopped(k))
    BY <1>c DEF SetsRow, RowsOf, Failed, Stopped
  <2>3. /\ Failed(i)' <=> st = "failed"
        /\ Stopped(i)' => st = "failed"
        /\ ~Failed(i) /\ ~Stopped(i)
    BY <1>c DEF SetsRow, Over, Failed, Stopped
  <2>4. ASSUME FlagOf(r, 0), hasFailed' = hasFailed
        PROVE  FlagOf(r, i)' /\ (st # "failed" => FlagOf(r, 0)')
    <3>1. /\ r \in hasFailed <=> \E k \in RowsOf(r) : k # i /\ Failed(k)
          /\ \A k \in RowsOf(r) : ~Stopped(k)
      BY <2>1, <2>3, <2>4 DEF FlagOf
    <3>2. /\ r \in hasFailed' <=> \E k \in RowsOf(r)' : k # i /\ Failed(k)'
          /\ \A k \in RowsOf(r)' : k # i => ~Stopped(k)'
      BY <2>1, <2>2, <2>4, <3>1
    <3>3. FlagOf(r, i)'
      BY <3>2 DEF FlagOf
    <3>4. st # "failed" => FlagOf(r, 0)'
      BY <2>1, <2>3, <3>2 DEF FlagOf
    <3>5. QED
      BY <3>3, <3>4
  <2>5. QED
    BY <2>1, <2>2, <2>3, <2>4
<1>d. ASSUME NEW st, NEW j, AddsRow(r, at[p].step, st, j), NEW i, i = Len(stepRuns) + 1
      PROVE  /\ RowsOf(r)' = RowsOf(r) \union {i} /\ i \notin RowsOf(r) /\ 0 \notin RowsOf(r)
             /\ \A k \in RowsOf(r) : /\ Failed(k)' <=> Failed(k)
                                     /\ Stopped(k)' <=> Stopped(k)
                                     /\ Over(k)' <=> Over(k)
             /\ Failed(i)' <=> st = "failed"
             /\ Stopped(i)' => st = "failed"
             /\ stepRuns'[i].step = at[p].step /\ stepRuns'[i].status = st
  BY <1>4, <1>d DEF AddsRow, RowsOf, Failed, Stopped, Over
<1>e. pc[p] # "finish" => FlagOf(r, 0)
  BY <1>2, <1>3 DEF Uncounted
<1>f. runStatus'[r] = "running" /\ FlagOf(r, 0)' => HistOf(r)'
  BY DEF HistOf
<1>9. ASSUME CommitOutcome(p), p \in Procs PROVE Goal
  <2>1. PICK i \in DOMAIN stepRuns : i = at[p].entry
    BY <1>0, <1>9 DEF CommitOutcome, HandOf
  <2>2. SetsRow(i, Outcome(at[p].ok), stepRuns[i].job)
    BY <1>0, <1>9, <2>1, CommitOutcomeDoes
  <2>3. i \in RowsOf(r) /\ ~Over(i)
    BY <1>0, <1>1, <1>9, <2>1 DEF CommitOutcome, HandOf, WatchOf, RowsOf, Over
  <2>4. /\ UNCHANGED <<hasFailed, runStatus, at>> /\ pc[p] = "checked" /\ pc'[p] = "finish"
        /\ runStatus[r] = "running"
    BY <1>0, <1>1, <1>9 DEF CommitOutcome, runVars, Goto, TypeOK, OwnOf, Busy
  <2>ok. at[p].ok \in BOOLEAN
    BY <1>0, Hand
  <2>6. FlagOf(r, 0)
    BY <1>e, <2>4
  <2>7. CASE at[p].ok
    <3>2. FlagOf(r, 0)'
      BY <1>c, <2>2, <2>3, <2>4, <2>6, <2>7 DEF Outcome
    <3>3. Uncounted(p)' = 0 /\ at'[p].run = r
      BY <1>1, <2>4, <2>7 DEF Uncounted
    <3>4. QED
      BY <1>f, <2>4, <3>2, <3>3 DEF Goal, WorkOf
  <2>8. CASE ~at[p].ok
    <3>1. FlagOf(r, i)'
      BY <1>c, <2>2, <2>3, <2>4, <2>6
    <3>2. Uncounted(p)' = i /\ at'[p].run = r
      BY <1>1, <2>1, <2>4, <2>8 DEF Uncounted
    <3>3. WorkOf(p)'
      BY <3>1, <3>2 DEF WorkOf
    <3>4. HistOf(r)'
      <4>1. \A k \in RowsOf(r)' : Over(k)'
        BY <1>1, <2>4 DEF FlowInv, OwnInv, OwnOf
      <4>2. QED
        BY <2>4, <4>1 DEF HistOf
    <3>5. QED
      BY <3>3, <3>4 DEF Goal
  <2>9. QED
    BY <2>ok, <2>7, <2>8
<1>10. ASSUME Reject(p), p \in Reviewers PROVE Goal
  <2>1. PICK i \in DOMAIN stepRuns : i = at[p].entry
    BY <1>0, <1>10 DEF Reject, HandOf
  <2>2. SetsRow(i, "failed", stepRuns[i].job)
    BY <1>0, <1>10, <2>1, RejectDoes
  <2>3. i \in RowsOf(r) /\ ~Over(i)
    BY <1>0, <1>1, <1>10, <2>1 DEF Reject, HandOf, WatchOf, RowsOf, Over
  <2>4. /\ UNCHANGED <<hasFailed, runStatus>> /\ pc[p] = "reviewing" /\ pc'[p] = "finish"
        /\ runStatus[r] = "running"
    BY <1>0, <1>1, <1>10 DEF Reject, runVars, Goto, TypeOK, OwnOf, Busy
  <2>6. FlagOf(r, 0)
    BY <1>e, <2>4
  <2>7. at'[p].ok = FALSE /\ at'[p].run = r /\ at'[p].entry = i
    BY ZenonT(30), <1>0, <1>1, <1>10, <2>1, RejectInHand DEF Hands, TypeOK
  <2>8. FlagOf(r, i)'
    BY <1>c, <2>2, <2>3, <2>4, <2>6
  <2>9. WorkOf(p)'
    <3>1. Uncounted(p)' = i
      BY <2>4, <2>7 DEF Uncounted
    <3>2. QED
      BY <2>7, <2>8, <3>1 DEF WorkOf
  <2>10. HistOf(r)'
    <3>1. \A k \in RowsOf(r)' : Over(k)'
      BY <2>4, <2>7 DEF FlowInv, OwnInv, OwnOf
    <3>2. QED
      BY <2>4, <3>1 DEF HistOf
  <2>11. QED
    BY <2>9, <2>10 DEF Goal
<1>11. ASSUME BindBatch(p), p \in Reviewers PROVE Goal
  <2>1. PICK i \in DOMAIN stepRuns : i = at[p].entry
    BY <1>0, <1>11 DEF BindBatch, HandOf
  <2>2. SetsRow(i, "running", at[p].job)
    BY <1>0, <1>11, <2>1, BindBatchDoes
  <2>3. i \in RowsOf(r) /\ ~Over(i)
    BY <1>0, <1>1, <1>11, <2>1 DEF BindBatch, HandOf, WatchOf, RowsOf, Over
  <2>4. /\ UNCHANGED <<hasFailed, runStatus>> /\ pc[p] = "approved" /\ pc'[p] = "loop"
        /\ runStatus[r] = "running"
    BY <1>0, <1>1, <1>11 DEF BindBatch, runVars, Return, TypeOK, OwnOf, Busy
  <2>6. FlagOf(r, 0)
    BY <1>e, <2>4
  <2>7. FlagOf(r, 0)'
    BY <1>c, <2>2, <2>3, <2>4, <2>6
  <2>8. QED
    BY <1>f, <2>4, <2>7 DEF Goal, WorkOf, Busy
<1>12. ASSUME AwaitReview(p) \/ InsertStepRun(p) PROVE Goal
  <2>1. PICK st, j : AddsRow(r, at[p].step, st, j) /\ st # "failed"
    <3>1. CASE AwaitReview(p)
      <4>1. AddsRow(r, at[p].step, "awaiting_review", 0)
        BY <1>0, <1>1, <3>1, AwaitReviewDoes
      <4>2. QED
        BY <4>1
    <3>2. CASE InsertStepRun(p)
      <4>1. AddsRow(r, at[p].step, "running", at[p].job)
        BY <1>0, <1>1, <3>2, InsertStepRunDoes
      <4>2. QED
        BY <4>1
    <3>3. QED
      BY <1>12, <3>1, <3>2
  <2>2. /\ UNCHANGED <<hasFailed, runStatus>> /\ pc[p] \notin {"start", "finish"} /\ pc'[p] = "loop"
        /\ runStatus[r] = "running"
    BY SMTT(30), <1>0, <1>1, <1>12 DEF AwaitReview, InsertStepRun, runVars, Return, TypeOK, OwnOf, Busy
  <2>3. PICK i : i = Len(stepRuns) + 1
    OBVIOUS
  <2>4. FlagOf(r, 0)
    BY <1>e, <2>2
  <2>5. FlagOf(r, 0)'
    BY <1>d, <2>1, <2>2, <2>3, <2>4 DEF FlagOf
  <2>6. QED
    BY <1>f, <2>2, <2>5 DEF Goal, WorkOf, Busy
<1>13. ASSUME FinishCurrentStep(p) PROVE Goal
  <2>1. /\ FinishStep(p, at[p].ok) /\ UNCHANGED stepRuns /\ pc[p] = "finish"
        /\ at[p].ok \in BOOLEAN /\ runStatus[r] = "running"
    BY <1>0, <1>1, <1>13, Hand DEF FinishCurrentStep, OwnOf, Busy
  <2>2. /\ RowsOf(r)' = RowsOf(r)
        /\ \A k \in RowsOf(r) : /\ Failed(k)' <=> Failed(k)
                                /\ Stopped(k)' <=> Stopped(k)
                                /\ Over(k)'
    BY <1>0, <1>1, <2>1 DEF RowsOf, Failed, Stopped, Over, OwnOf
  <2>3. PICK ok \in BOOLEAN : ok = at[p].ok
    BY <2>1
  <2>4. ok => e = 0
    BY <1>2, <2>3 DEF Uncounted
  <2>5. ~ok => e \in RowsOf(r)' /\ Failed(e)' /\ stepRuns'[e].step = at[p].step
    <3>1. SUFFICES ASSUME ~ok PROVE e \in RowsOf(r)' /\ Failed(e)' /\ stepRuns'[e].step = at[p].step
      OBVIOUS
    <3>2. e = at[p].entry
      BY <1>2, <2>1, <2>3, <3>1 DEF Uncounted
    <3>3. stepRuns[e].status = Outcome(at[p].ok)
      BY <1>0, <2>1, <3>2 DEF WatchOf
    <3>4. stepRuns[e].status = "failed"
      BY <2>3, <3>1, <3>3 DEF Outcome
    <3>5. QED
      BY <1>0, <1>1, <2>1, <3>2, <3>4 DEF HandOf, RowsOf, Failed
  <2>6. r \in hasFailed <=> \E k \in RowsOf(r)' \ {e} : Failed(k)'
    BY <1>3, <2>2 DEF FlagOf
  <2>7. \A k \in RowsOf(r)' \ {e} : ~Stopped(k)'
    BY <1>3, <2>2 DEF FlagOf
  <2>8. QED
    BY <1>0, <1>1, <2>1, <2>2, <2>3, <2>4, <2>5, <2>6, <2>7, FinishTells DEF Goal
<1>14. ASSUME FailStep(p) PROVE Goal
  <2>1. /\ FinishStep(p, FALSE) /\ pc[p] = "failing" /\ runStatus[r] = "running"
    BY <1>0, <1>1, <1>14 DEF FailStep, OwnOf, Busy
  <2>2. AddsRow(r, at[p].step, "failed", 0)
    BY <1>0, <1>1, <1>14, FailStepDoes
  <2>3. PICK i : i = Len(stepRuns) + 1
    OBVIOUS
  <2>4. FlagOf(r, 0)
    BY <1>e, <2>1
  <2>5. \A k \in RowsOf(r)' : Over(k)'
    <3>1. \A k \in RowsOf(r) : Over(k)
      BY <1>0, <1>1, <2>1 DEF OwnOf
    <3>2. Over(i)'
      BY <1>d, <2>2, <2>3 DEF Over
    <3>3. QED
      BY <1>d, <2>2, <2>3, <3>1, <3>2
  <2>6. r \in hasFailed <=> \E k \in RowsOf(r)' \ {i} : Failed(k)'
    BY <1>d, <2>2, <2>3, <2>4 DEF FlagOf
  <2>7. \A k \in RowsOf(r)' \ {i} : ~Stopped(k)'
    BY <1>d, <2>2, <2>3, <2>4 DEF FlagOf
  <2>8. i \in RowsOf(r)' /\ Failed(i)' /\ stepRuns'[i].step = at[p].step
    BY <1>d, <2>2, <2>3
  <2>9. QED
    BY <1>0, <1>1, <2>1, <2>5, <2>6, <2>7, <2>8, FinishTells DEF Goal
<1>15. Goal
  <2>1. ~PrefillRollsBack(p)
    BY <1>0 DEF PrefillRollsBack, TypeOK
  <2>2. p \in Procs /\ Tick(p) => CommitOutcome(p)
    BY <1>0, DisjointAgents
       DEF Tick, Busy, HandOf, ListQueued, TakeQueued, FinishWithoutSteps, ListRunning,
           NothingToDecide, ReadOutcome, EndTick
  <2>3. QED
    BY <2>1, <2>2, <1>5, <1>6, <1>7, <1>8, <1>9, <1>10, <1>11, <1>12, <1>13, <1>14 DEF Acts, Review, Advance, OpenReview, Busy
<1>16. QED
  BY <1>1, <1>15, OthersHistory DEF HistoryInv, Goal, Busy

LEMMA StepHistory ==
  ASSUME FlowInv, HistoryInv, Exclusive, OneReviewer, gitFailures' = 0, [Next]_vars
  PROVE  HistoryInv'
<1>1. FlowInv' /\ RowsKept
  BY StepFlow, RowsAreKept DEF FlowInv
<1>2. CASE System
  <2>1. UNCHANGED <<stepRuns, hasFailed, notices, agentVars>>
    BY <1>2, SystemFlow, SystemRests
  <2>2. ASSUME NEW r \in Runs
        PROVE  HistOf(r)' /\ \A e : FlagOf(r, e) => FlagOf(r, e)'
    <3>1. RowsOf(r)' = RowsOf(r)
      BY <2>1 DEF RowsOf
    <3>2. runStatus'[r] = runStatus[r] \/ runStatus[r] = "none"
      BY <1>2, SystemFlow
    <3>3. runStatus'[r] = runStatus[r] \/ runStatus'[r] \notin Ended
      BY <1>1, <2>1, <3>2 DEF FlowInv, RunInv, RunOf, Ended
    <3>4. QED
      BY <2>1, <3>1, <3>3, SameHistory DEF HistoryInv
  <2>3. ASSUME NEW p \in Agents PROVE WorkOf(p)'
    <3>1. CASE Busy(p)
      <4>1. PICK r \in Runs : r = at[p].run
        BY <3>1 DEF Busy, FlowInv, HandInv, HandOf
      <4>2. PICK e : e = Uncounted(p)
        OBVIOUS
      <4>3. FlagOf(r, e)'
        BY <2>2, <3>1, <4>1, <4>2 DEF HistoryInv, WorkOf
      <4>4. at'[p].run = r /\ Uncounted(p)' = e
        BY <2>1, <4>1, <4>2 DEF agentVars, Uncounted
      <4>5. QED
        BY <4>3, <4>4 DEF WorkOf
    <3>2. CASE ~Busy(p)
      BY <2>1, <3>2 DEF WorkOf, Busy, agentVars
    <3>3. QED
      BY <3>1, <3>2
  <2>4. QED
    BY <2>2, <2>3 DEF HistoryInv
<1>3. ASSUME NEW p \in Agents, Acts(p) PROVE HistoryInv'
  BY <1>1, <1>3, TakenUp, WorkedOn
<1>4. QED
  BY <1>2, <1>3, StepCases

LEMMA InitHistory == Init => HistoryInv
  BY DEF Init, HistoryInv, HistOf, WorkOf, Busy, RowsOf

(* The flag and the status of a run agree with its step runs.              *)
THEOREM HistoryHolds ==
  ASSUME Exclusive, OneReviewer
  PROVE  Spec => [](gitFailures = 0 => FlowInv /\ HistoryInv)
<1> DEFINE IInv == TypeOK /\ HandInv /\ (gitFailures = 0 => FlowInv /\ HistoryInv)
<1>1. ASSUME IInv, [Next]_vars PROVE IInv'
  <2>1. TypeOK' /\ HandInv'
    BY <1>1, StepHands
  <2>2. gitFailures' = 0 => FlowInv' /\ HistoryInv'
    BY <1>1, FailuresGrow, StepFlow, StepHistory
  <2>3. QED
    BY <2>1, <2>2
<1>2. QED
  BY <1>1, InitFlow, InitHistory, InitHands, PTL DEF Spec

LEMMA HistoryIsReported ==
  ASSUME FlowInv, HistoryInv, NEW r \in Runs
  PROVE  ReportsItsHistory(r)
<1>1. RunOf(r) /\ HistOf(r)
  BY DEF FlowInv, RunInv, HistoryInv
<1>2. RowsOf(r) = {k \in DOMAIN stepRuns : stepRuns[k].run = r}
  BY DEF RowsOf
<1>3. runStatus[r] \in Ended => (\A k \in RowsOf(r) : stepRuns[k].status \in {"success", "failed"}) /\ notices[r] = 1
  BY <1>1 DEF RunOf, Ended, Over
<1>4. runStatus[r] = "success" => {k \in RowsOf(r) : stepRuns[k].status = "failed"} = {}
  BY <1>1 DEF HistOf, Failed
<1>5. runStatus[r] = "completed_with_failures" =>
        /\ {k \in RowsOf(r) : stepRuns[k].status = "failed"} # {}
        /\ \A k \in RowsOf(r) : stepRuns[k].status = "failed" => OnFailure[stepRuns[k].step] # "stop"
  <2> SUFFICES ASSUME runStatus[r] = "completed_with_failures"
               PROVE  /\ {k \in RowsOf(r) : stepRuns[k].status = "failed"} # {}
                      /\ \A k \in RowsOf(r) : stepRuns[k].status = "failed" => OnFailure[stepRuns[k].step] # "stop"
    OBVIOUS
  <2>1. FlagOf(r, 0) /\ r \in hasFailed
    BY <1>1 DEF HistOf
  <2>2. 0 \notin RowsOf(r)
    BY DEF FlowInv, TypeOK, RowsOf
  <2>3. QED
    BY <2>1, <2>2 DEF FlagOf, Failed, Stopped
<1>6. runStatus[r] = "failed" =>
        \E k \in RowsOf(r) : stepRuns[k].status = "failed" /\ OnFailure[stepRuns[k].step] = "stop"
  BY <1>1 DEF HistOf, Failed, Stopped
<1>7. QED
  BY <1>2, <1>3, <1>4, <1>5, <1>6 DEF ReportsItsHistory

-----------------------------------------------------------------------------
(* Steps start in their order.                                             *)

(* The steps of a workflow have different orders: each is added after the  *)
(* last, and a reordering numbers them all.                                *)
DistinctOrders ==
  \A s, t \in Steps : InitialOrder[s] > 0 /\ InitialOrder[s] = InitialOrder[t] => s = t

(* Step s of run r is over and the run goes on after it.                   *)
Settles(k, r, s) ==
  /\ stepRuns[k].run = r /\ stepRuns[k].step = s
  /\ \/ stepRuns[k].status = "success"
     \/ stepRuns[k].status = "failed" /\ OnFailure[s] = "continue"
Settled(r, s) == \E k \in DOMAIN stepRuns : Settles(k, r, s)
After(r, t)   == \A s \in Present : order[s] < order[t] => Settled(r, s)

OrderInv ==
  /\ order = InitialOrder /\ \A s \in Steps : newOrder[s] = 0
  /\ \A k \in DOMAIN stepRuns : After(stepRuns[k].run, stepRuns[k].step)
  /\ \A j \in DOMAIN jobs : After(jobs[j].run, jobs[j].step)
  /\ \A p \in Agents : Busy(p) => After(at[p].run, at[p].step)

(* The steps stay as they are until the first edit. *)
LEMMA EditsGrow ==
  ASSUME TypeOK, [Next]_vars, edits' = 0
  PROVE  edits = 0 /\ ((\A s \in Steps : newOrder[s] = 0) => UNCHANGED <<order, newOrder>>)
<1> DEFINE Kept == UNCHANGED <<edits, order, newOrder>>
           Edited == edits' = edits + 1 \/ (UNCHANGED edits /\ \E s \in Steps : newOrder[s] # 0)
<1> USE DEF flowVars, boundVars
<1>1. ASSUME NEW s \in Steps, ReadNextOrder(s) \/ AddStep(s) \/ DeleteStep(s) PROVE Edited
  BY <1>1 DEF ReadNextOrder, AddStep, DeleteStep, Edit
<1>2. ASSUME ReorderSteps PROVE Edited
  BY <1>2 DEF ReorderSteps, Edit
<1>3. ASSUME NEW r \in Runs, EnqueueWorkflowRun(r) PROVE Kept
  BY <1>3 DEF EnqueueWorkflowRun
<1>4. ASSUME NEW j \in DOMAIN jobs, JobEnds(j) PROVE Kept
  BY <1>4 DEF JobEnds
<1>5. ASSUME NEW p \in Procs, Tick(p) PROVE Kept
  BY <1>5 DEF Tick, ListQueued, TakeQueued, FinishWithoutSteps, ListRunning, NothingToDecide,
               ReadOutcome, CommitOutcome, EndTick
<1>6. ASSUME NEW v \in Reviewers, Review(v) PROVE Kept
  BY <1>6 DEF Review, OpenReview, CannotApprove, Approve, BindBatch, Reject
<1>7. ASSUME NEW p \in Agents, Advance(p) PROVE Kept
  BY <1>7 DEF Advance, CannotStart, Prefill, AwaitReview, EnqueueJob, InsertStepRun, StepVanished,
               FinishCurrentStep, FailStep
<1>8. ASSUME NEW p \in Agents, PrefillRollsBack(p) \/ Abort(p) PROVE Kept
  BY <1>8 DEF PrefillRollsBack, Abort
<1>9. Kept \/ Edited
  BY <1>1, <1>2, <1>3, <1>4, <1>5, <1>6, <1>7, <1>8 DEF Next, vars
<1>10. edits \in Nat
  BY DEF TypeOK, WorkflowAssumption
<1>11. QED
  BY <1>9, <1>10

LEMMA StepOrder ==
  ASSUME TypeOK, HandInv, LockInv, WatchInv, OrderInv, Exclusive, OneReviewer, DistinctOrders,
         edits' = 0, [Next]_vars
  PROVE  OrderInv'
<1>1. UNCHANGED <<order, newOrder>> /\ TypeOK' /\ HandInv' /\ RowsKept
  BY EditsGrow, StepHands, RowsAreKept DEF OrderInv
<1>2. Present' = Present /\ order = InitialOrder /\ order \in [Steps -> Nat]
  BY <1>1 DEF Present, OrderInv, TypeOK
<1>3. ASSUME NEW k \in DOMAIN stepRuns, NEW r, NEW s, Settles(k, r, s)
      PROVE  Settles(k, r, s)' /\ k \in DOMAIN stepRuns'
  <2>1. Over(k)
    BY <1>3 DEF Settles, Over
  <2>2. QED
    BY <1>1, <1>3, <2>1, StepWatch DEF Settles, RowsKept
<1>4. ASSUME NEW r, NEW t, After(r, t) PROVE After(r, t)'
  <2>1. \A s : Settled(r, s) => Settled(r, s)'
    BY <1>3 DEF Settled
  <2>2. QED
    BY <1>1, <1>2, <1>4, <2>1 DEF After
<1>5. ASSUME NEW k \in DOMAIN stepRuns' PROVE After(stepRuns[k].run, stepRuns[k].step)'
  <2>1. CASE k \in DOMAIN stepRuns
    <3>1. PICK r, t : r = stepRuns[k].run /\ t = stepRuns[k].step
      OBVIOUS
    <3>2. After(r, t)'
      BY <1>4, <2>1, <3>1 DEF OrderInv
    <3>3. QED
      BY <1>1, <2>1, <3>1, <3>2 DEF RowsKept
  <2>2. CASE k \notin DOMAIN stepRuns
    <3>1. PICK p \in Agents : /\ stepRuns'[k].run = at[p].run /\ stepRuns'[k].step = at[p].step
                              /\ AwaitReview(p) \/ InsertStepRun(p) \/ FailStep(p)
      BY <2>2, NewRows
    <3>2. PICK r, t : r = at[p].run /\ t = at[p].step
      OBVIOUS
    <3>3. After(r, t)
      BY <3>1, <3>2 DEF OrderInv, Busy, AwaitReview, InsertStepRun, FailStep
    <3>4. QED
      BY <1>4, <3>1, <3>2, <3>3
  <2>3. QED
    BY <2>1, <2>2
<1>6. ASSUME NEW j \in DOMAIN jobs' PROVE After(jobs[j].run, jobs[j].step)'
  <2>1. CASE j \in DOMAIN jobs
    <3>1. PICK r, t : r = jobs[j].run /\ t = jobs[j].step
      OBVIOUS
    <3>2. After(r, t)'
      BY <1>4, <2>1, <3>1 DEF OrderInv
    <3>3. QED
      BY <2>1, <3>1, <3>2, JobChanges
  <2>2. CASE j \notin DOMAIN jobs
    <3>1. PICK p \in Agents : /\ EnqueueJob(p) \/ (p \in Reviewers /\ Approve(p))
                              /\ AddsJob(at[p].run, at[p].step)
      BY <2>2, JobChanges
    <3>2. PICK r, t : r = at[p].run /\ t = at[p].step
      OBVIOUS
    <3>3. After(r, t)
      <4>1. Busy(p)
        BY <3>1 DEF Busy, EnqueueJob, Approve
      <4>2. QED
        BY <3>2, <4>1 DEF OrderInv
    <3>4. jobs'[j].run = r /\ jobs'[j].step = t
      BY <2>2, <3>1, <3>2 DEF AddsJob
    <3>5. QED
      BY <1>4, <3>3, <3>4
  <2>3. QED
    BY <2>1, <2>2
(* finish_step goes on with the step after the one that is over.           *)
<1>7. ASSUME NEW p \in Agents, NEW r, NEW s \in Steps, NEW t \in NextSteps(s),
             After(r, s), Settled(r, s)'
      PROVE  After(r, t)'
  <2>1. t \in Present /\ order[t] > order[s] /\ \A u \in Present : order[u] > order[s] => order[t] <= order[u]
    BY <1>2 DEF NextSteps, Earliest, Present
  <2>2. ASSUME NEW u \in Present, order[u] < order[t] PROVE Settled(r, u)'
    <3>1. u \in Steps /\ t \in Steps /\ InitialOrder[u] > 0 /\ order[u] \in Nat /\ order[s] \in Nat /\ order[t] \in Nat
      BY <1>2, <2>1 DEF Present
    <3>2. order[u] < order[s] \/ order[u] = order[s]
      BY <2>1, <2>2, <3>1
    <3>3. CASE order[u] < order[s]
      <4>1. After(r, s)' /\ u \in Present'
        BY <1>2, <1>4, <1>7
      <4>2. QED
        BY <1>1, <3>3, <4>1 DEF After
    <3>4. CASE order[u] = order[s]
      BY <1>2, <1>7, <3>1, <3>4 DEF DistinctOrders
    <3>5. QED
      BY <3>2, <3>3, <3>4
  <2>3. QED
    BY <1>1, <1>2, <2>2 DEF After
<1>8. ASSUME NEW p \in Agents, FinishCurrentStep(p) \/ FailStep(p), pc'[p] = "start"
      PROVE  After(at[p].run, at[p].step)'
  <2>0. TypeOK /\ HandOf(p) /\ WatchOf(p) /\ at[p].run \in Runs /\ at[p].step \in Steps /\ at[p].ok \in BOOLEAN
    <3>1. pc[p] # "loop"
      BY <1>8 DEF FinishCurrentStep, FailStep
    <3>2. QED
      BY <3>1, Hand DEF HandInv, WatchInv
  <2>1. PICK ok \in BOOLEAN : /\ FinishStep(p, ok)
                              /\ \/ FinishCurrentStep(p) /\ ok = at[p].ok
                                 \/ FailStep(p) /\ ok = FALSE
    BY <1>8, <2>0 DEF FinishCurrentStep, FailStep
  <2>2. PICK r \in Runs, s \in Steps : r = at[p].run /\ s = at[p].step
    BY <2>0
  <2>3. ~Stops(s, ok) /\ \E t \in NextSteps(s) : t \in Steps /\ GoesOn(p, t)
    <3>1. \A st : ~EndsRun(p, st)
      BY <1>8, <2>0 DEF EndsRun, Return, TypeOK
    <3>2. QED
      BY <2>0, <2>1, <2>2, <3>1, FinishDoes
  <2>4. PICK t \in NextSteps(s) : GoesOn(p, t)
    BY <2>3
  <2>5. Settled(r, s)'
    <3>1. CASE FinishCurrentStep(p) /\ ok = at[p].ok
      <4>1. PICK k \in DOMAIN stepRuns : k = at[p].entry
        BY <2>0, <3>1 DEF FinishCurrentStep, HandOf
      <4>2. /\ UNCHANGED stepRuns /\ stepRuns[k].status = Outcome(ok)
            /\ stepRuns[k].run = r /\ stepRuns[k].step = s
        BY <2>0, <2>2, <3>1, <4>1 DEF FinishCurrentStep, HandOf, WatchOf
      <4>3. Settles(k, r, s)
        BY <2>3, <4>2 DEF Settles, Outcome, Stops, WorkflowAssumption
      <4>4. QED
        BY <4>1, <4>2, <4>3 DEF Settles, Settled
    <3>2. CASE FailStep(p) /\ ok = FALSE
      <4>1. AddsRow(r, s, "failed", 0)
        BY <2>2, <3>2, FailStepDoes
      <4>2. PICK k : k = Len(stepRuns) + 1
        OBVIOUS
      <4>3. OnFailure[s] = "continue"
        BY <2>3, <3>2 DEF Stops, WorkflowAssumption
      <4>4. Settles(k, r, s)' /\ k \in DOMAIN stepRuns'
        BY <4>1, <4>2, <4>3 DEF AddsRow, Settles
      <4>5. QED
        BY <4>4 DEF Settled
    <3>3. QED
      BY <2>1, <3>1, <3>2
  <2>6. After(r, s)
    <3>1. Busy(p)
      BY <1>8 DEF Busy, FinishCurrentStep, FailStep
    <3>2. QED
      BY <2>2, <3>1 DEF OrderInv
  <2>7. After(r, t)'
    BY <1>7, <2>5, <2>6
  <2>8. at'[p].run = r /\ at'[p].step = t
    BY <2>0, <2>2, <2>4 DEF GoesOn, Hands, TypeOK
  <2>9. QED
    BY <2>7, <2>8
<1>9. ASSUME NEW p \in Agents, Busy(p)' PROVE After(at[p].run, at[p].step)'
  <2>1. CASE Busy(p) /\ at'[p].run = at[p].run /\ at'[p].step = at[p].step
    <3>1. PICK r, t : r = at[p].run /\ t = at[p].step
      OBVIOUS
    <3>2. After(r, t)
      BY <2>1, <3>1 DEF OrderInv
    <3>3. After(r, t)'
      BY <1>4, <3>2
    <3>4. QED
      BY <2>1, <3>1, <3>3
  <2>2. ASSUME NEW x \in Runs, TakeQueued(p, x), p \in Procs PROVE After(at[p].run, at[p].step)'
    <3>0. PICK t \in FirstSteps, a \in InHand : Hands(p, a) /\ a.run = x /\ a.step = t /\ t \in Steps
      BY <2>2, TakeQueuedDoes
    <3>1. at'[p].run = x /\ at'[p].step = t
      BY <3>0 DEF Hands, TypeOK
    <3>2. After(x, t)'
      <4>1. \A u \in Present : order[t] <= order[u] /\ u \in Steps /\ t \in Steps
        BY <3>0 DEF FirstSteps, Earliest, Present
      <4>2. \A u \in Present : ~(order[u] < order[t])
        BY <1>2, <4>1
      <4>3. QED
        BY <1>1, <1>2, <4>2 DEF After
    <3>3. QED
      BY <3>1, <3>2
  <2>3. ASSUME NEW x \in Runs, ReadOutcome(p, x), p \in Procs PROVE After(at[p].run, at[p].step)'
    <3>1. PICK k \in DOMAIN stepRuns : k = CurrentStepRun(x) /\ stepRuns[k].run = x
      BY <2>3, ReadOutcomeDoes
    <3>2. at'[p].run = x /\ at'[p].step = stepRuns[k].step
      BY <2>3, <3>1, ReadOutcomeDoes DEF Hands, TypeOK
    <3>3. PICK t : t = stepRuns[k].step
      OBVIOUS
    <3>4. After(x, t)
      BY <3>1, <3>3 DEF OrderInv
    <3>5. QED
      BY <1>4, <3>2, <3>3, <3>4
  <2>4. ASSUME NEW k \in DOMAIN stepRuns, OpenReview(p, k), p \in Reviewers PROVE After(at[p].run, at[p].step)'
    <3>1. PICK x, t : x = stepRuns[k].run /\ t = stepRuns[k].step
      OBVIOUS
    <3>2. at'[p].run = x /\ at'[p].step = t
      BY <2>4, <3>1, OpenReviewDoes DEF Hands, TypeOK
    <3>3. After(x, t)
      BY <3>1 DEF OrderInv
    <3>4. QED
      BY <1>4, <3>2, <3>3
  <2>5. ASSUME \/ Prefill(p) \/ PrefillRollsBack(p) \/ CannotStart(p) \/ EnqueueJob(p)
               \/ CommitOutcome(p) /\ p \in Procs
               \/ Reject(p) /\ p \in Reviewers
               \/ Approve(p) /\ p \in Reviewers
        PROVE  Busy(p) /\ at'[p].run = at[p].run /\ at'[p].step = at[p].step
    <3>1. Busy(p)
      BY <2>5 DEF Busy, Prefill, PrefillRollsBack, CannotStart, EnqueueJob, CommitOutcome, Reject, Approve
    <3>2. CASE Prefill(p) \/ PrefillRollsBack(p) \/ CannotStart(p) \/ CommitOutcome(p)
      BY <3>1, <3>2 DEF Prefill, PrefillRollsBack, CannotStart, CommitOutcome
    <3>3. CASE EnqueueJob(p) \/ Approve(p)
      BY ZenonT(30), <3>1, <3>3, JobInHand DEF EnqueueJob, Approve, Hands, TypeOK
    <3>4. CASE Reject(p) /\ p \in Reviewers
      BY <3>1, <3>4, RejectInHand DEF Hands, TypeOK
    <3>5. QED
      BY <2>5, <3>2, <3>3, <3>4
  <2>6. pc'[p] # "loop"
    BY <1>9 DEF Busy
  <2>7. CASE Stays(p)
    BY <2>1, <2>6, <2>7 DEF Stays, Busy
  <2>8. ASSUME NEW x \in Runs, TakeQueued(p, x) PROVE p \in Procs
    BY <2>8, DisjointAgents DEF TakeQueued, HandInv, HandOf, Agents
  <2>9. CASE pc'[p] = "start" /\ (FinishCurrentStep(p) \/ FailStep(p))
    BY <1>8, <2>9
  <2>10. QED
    BY <2>1, <2>2, <2>3, <2>4, <2>5, <2>6, <2>7, <2>8, <2>9, StaysOrActs, PlaceChanges
<1>10. QED
  BY <1>1, <1>2, <1>5, <1>6, <1>9 DEF OrderInv

(* A run reports what its steps did, unless a start was rolled back; and   *)
(* unless the workflow was edited, no job is enqueued for a step before    *)
(* every earlier step of its run is over.                                  *)
THEOREM RunsEndHonestly ==
  ASSUME Exclusive, OneReviewer, DistinctOrders
  PROVE  Spec => []EndsHonestly
<1> DEFINE IInv == /\ TypeOK /\ HandInv /\ LockInv /\ WatchInv
                   /\ gitFailures = 0 => FlowInv /\ HistoryInv
                   /\ edits = 0 => OrderInv
<1>1. ASSUME Init PROVE IInv
  <2>1. TypeOK /\ HandInv /\ FlowInv /\ HistoryInv
    BY <1>1, InitHands, InitFlow, InitHistory
  <2>2. OrderInv
    BY <1>1 DEF Init, OrderInv, Busy
  <2>3. QED
    BY <2>1, <2>2 DEF FlowInv
<1>2. ASSUME IInv, [Next]_vars PROVE IInv'
  <2>1. TypeOK' /\ HandInv' /\ LockInv' /\ WatchInv'
    BY <1>2, StepHands, StepLock, StepWatch
  <2>2. gitFailures' = 0 => FlowInv' /\ HistoryInv'
    BY <1>2, FailuresGrow, StepFlow, StepHistory
  <2>3. edits' = 0 => OrderInv'
    BY <1>2, EditsGrow, StepOrder
  <2>4. QED
    BY <2>1, <2>2, <2>3
<1>3. ASSUME IInv PROVE EndsHonestly
  <2>1. gitFailures = 0 => \A r \in Runs : ReportsItsHistory(r)
    BY <1>3, HistoryIsReported
  <2>2. edits = 0 => StartedAfterPredecessors
    BY <1>3 DEF OrderInv, After, Settled, Settles, StartedAfterPredecessors, StepRunsOf
  <2>3. QED
    BY <2>1, <2>2 DEF EndsHonestly
<1>4. QED
  BY <1>1, <1>2, <1>3, PTL DEF Spec

-----------------------------------------------------------------------------
(* A step is carried out once.                                             *)

(* A step that is moved behind the current one would be carried out again. *)
NoReordering == ~MayReorder \/ MaxEdits = 0

(* A run is at a step of the workflow, its jobs are those of this step and *)
(* of earlier ones, and the earlier ones have a step run, which keeps them *)
(* from being deleted.                                                     *)
OnceOf(r) ==
  /\ currentStep[r] # NoStep => currentStep[r] \in Present
  /\ \A j \in DOMAIN jobs :
       jobs[j].run = r =>
         /\ currentStep[r] # NoStep /\ jobs[j].step \in Present
         /\ order[jobs[j].step] <= order[currentStep[r]]
         /\ jobs[j].step = currentStep[r] \/ StepRunsOf(r, jobs[j].step) # {}

(* The step to be started next is after the current one, even if it is     *)
(* deleted and added again meanwhile; and a step that was prefilled has no *)
(* job yet.                                                                *)
StartOf(p) ==
  /\ pc[p] = "start" /\ runStatus[at[p].run] = "running" =>
       LET c == currentStep[at[p].run]
       IN  /\ StepRunsOf(at[p].run, c) # {}
           /\ at[p].step \in Present => order[c] < order[at[p].step]
           /\ newOrder[at[p].step] # 0 => order[c] < newOrder[at[p].step]
  /\ pc[p] = "prefilled" => JobsOf(at[p].run, at[p].step) = {}

OnceInv ==
  /\ \A s \in Steps : newOrder[s] # 0 => order[s] = 0
  /\ \A r \in Runs : OnceOf(r)
  /\ \A p \in Agents : StartOf(p)
  /\ \A k \in DOMAIN stepRuns : stepRuns[k].status = "awaiting_review" => Kind[stepRuns[k].step] = "review"

(* What the edits other than a reordering do to the order. *)
LEMMA EditsKeepOrder ==
  ASSUME TypeOK, [Next]_vars, NoReordering, \A s \in Steps : newOrder[s] # 0 => order[s] = 0
  PROVE  /\ \A s \in Steps : newOrder'[s] # 0 => order'[s] = 0
         /\ \A s \in Present :
              (\E k \in DOMAIN stepRuns : stepRuns[k].step = s) \/ (\E r \in Runs : currentStep[r] = s) =>
                order'[s] = order[s]
         /\ \A s \in Steps : \/ order'[s] = order[s]
                             \/ order'[s] = 0
                             \/ newOrder[s] # 0 /\ order'[s] = newOrder[s]
         /\ \A s \in Steps : \/ newOrder'[s] = newOrder[s]
                             \/ newOrder'[s] = 0
                             \/ \A t \in Present : order[t] < newOrder'[s]
<1>1. CASE UNCHANGED <<order, newOrder>>
  BY <1>1
<1>2. ASSUME NEW s \in Steps, ReadNextOrder(s)
      PROVE  /\ order[s] = 0 /\ newOrder' = [newOrder EXCEPT ![s] = NextStepOrder] /\ UNCHANGED order
             /\ \A t \in Present : order[t] < NextStepOrder
  BY <1>2, NextOrderType DEF ReadNextOrder, TypeOK
<1>3. CASE \E s \in Steps : ReadNextOrder(s)
  <2>1. PICK s \in Steps : ReadNextOrder(s)
    BY <1>3
  <2>2. PICK n : n = NextStepOrder
    OBVIOUS
  <2>3. /\ order[s] = 0 /\ newOrder' = [newOrder EXCEPT ![s] = n] /\ UNCHANGED order
        /\ \A t \in Present : order[t] < n
    BY <1>2, <2>1, <2>2
  <2>4. \A t \in Steps : newOrder'[t] = newOrder[t] \/ (t = s /\ newOrder'[t] = n)
    BY <2>3 DEF TypeOK
  <2>5. QED
    BY <2>3, <2>4
<1>4. CASE \E s \in Steps : AddStep(s)
  <2>1. PICK s \in Steps : AddStep(s)
    BY <1>4
  <2>2. newOrder[s] # 0 /\ order[s] = 0
    BY <2>1 DEF AddStep
  <2>3. \A t \in Steps : \/ t # s /\ order'[t] = order[t] /\ newOrder'[t] = newOrder[t]
                         \/ t = s /\ order'[t] = newOrder[t] /\ newOrder'[t] = 0
    BY <2>1 DEF AddStep, TypeOK
  <2>4. s \notin Present
    BY <2>2 DEF Present
  <2>5. QED
    BY <2>2, <2>3, <2>4 DEF Present
<1>5. CASE \E s \in Steps : DeleteStep(s)
  <2>1. PICK s \in Steps : DeleteStep(s)
    BY <1>5
  <2>2. /\ UNCHANGED newOrder
        /\ \A k \in DOMAIN stepRuns : stepRuns[k].step # s
        /\ \A r \in Runs : currentStep[r] # s
    BY <2>1 DEF DeleteStep
  <2>3. \A t \in Steps : \/ t # s /\ order'[t] = order[t]
                         \/ t = s /\ order'[t] = 0
    BY <2>1 DEF DeleteStep, TypeOK
  <2>4. QED
    BY <2>2, <2>3 DEF Present
<1>6. ~ReorderSteps
  BY DEF ReorderSteps, Edit, NoReordering, TypeOK
<1>7. ASSUME NEW p \in Agents, Acts(p) PROVE UNCHANGED <<order, newOrder>>
  BY <1>7 DEF Acts, flowVars, Tick, ListQueued, TakeQueued, FinishWithoutSteps,
         ListRunning, NothingToDecide, ReadOutcome, CommitOutcome, EndTick, Review, OpenReview,
         CannotApprove, Approve, BindBatch, Reject, Advance, CannotStart, Prefill, AwaitReview,
         EnqueueJob, InsertStepRun, StepVanished, FinishCurrentStep, FailStep, Abort, PrefillRollsBack
<1>8. System => \/ UNCHANGED <<order, newOrder>>
                \/ \E s \in Steps : ReadNextOrder(s) \/ AddStep(s) \/ DeleteStep(s)
  BY <1>6 DEF System, EnqueueWorkflowRun, JobEnds, flowVars, vars
<1>9. QED
  BY <1>1, <1>3, <1>4, <1>5, <1>7, <1>8, StepCases

(* A run whose current step and jobs stay. *)
LEMMA SameOnce ==
  ASSUME FlowInv, OnceInv, RowsKept, TypeOK', NoReordering, [Next]_vars, NEW r \in Runs,
         currentStep'[r] = currentStep[r],
         \A j \in DOMAIN jobs' :
           jobs'[j].run = r => j \in DOMAIN jobs /\ jobs[j].run = r /\ jobs'[j].step = jobs[j].step
  PROVE  OnceOf(r)'
<1>0. OnceOf(r) /\ TypeOK /\ (\A s \in Steps : newOrder[s] # 0 => order[s] = 0)
  BY DEF FlowInv, OnceInv
<1>1. \A s \in Present :
        (\E k \in DOMAIN stepRuns : stepRuns[k].step = s) \/ (\E x \in Runs : currentStep[x] = s) =>
          order'[s] = order[s] /\ s \in Present'
  <2>1. \A s \in Present :
          (\E k \in DOMAIN stepRuns : stepRuns[k].step = s) \/ (\E x \in Runs : currentStep[x] = s) =>
            order'[s] = order[s]
    BY <1>0, EditsKeepOrder
  <2>2. QED
    BY <2>1 DEF Present
<1>2. \A s : StepRunsOf(r, s) \subseteq StepRunsOf(r, s)'
  BY DEF RowsKept, StepRunsOf
<1>3. (currentStep[r] # NoStep => currentStep[r] \in Present)'
  BY <1>0, <1>1 DEF OnceOf
<1>4. ASSUME NEW j \in DOMAIN jobs', jobs'[j].run = r
      PROVE  (/\ currentStep[r] # NoStep /\ jobs[j].step \in Present
              /\ order[jobs[j].step] <= order[currentStep[r]]
              /\ jobs[j].step = currentStep[r] \/ StepRunsOf(r, jobs[j].step) # {})'
  <2>1. PICK s, c : s = jobs[j].step /\ c = currentStep[r]
    OBVIOUS
  <2>2. /\ c # NoStep /\ s \in Present /\ c \in Present /\ order[s] <= order[c]
        /\ s = c \/ StepRunsOf(r, s) # {}
    BY <1>0, <1>4, <2>1 DEF OnceOf
  <2>3. order'[s] = order[s] /\ s \in Present' /\ order'[c] = order[c]
    BY <1>1, <2>1, <2>2 DEF StepRunsOf
  <2>4. StepRunsOf(r, s) # {} => StepRunsOf(r, s)' # {}
    BY <1>2
  <2>5. jobs'[j].step = s /\ currentStep'[r] = c
    BY <1>4, <2>1
  <2>6. QED
    BY <2>2, <2>3, <2>4, <2>5
<1>5. QED
  BY <1>3, <1>4 DEF OnceOf

(* An agent that stays where it is, at a run nobody else acts on. *)
LEMMA SameStart ==
  ASSUME FlowInv, OnceInv, RowsKept, TypeOK', NoReordering, [Next]_vars, NEW q \in Agents, Stays(q),
         Busy(q) => /\ currentStep'[at[q].run] = currentStep[at[q].run]
                    /\ runStatus'[at[q].run] = runStatus[at[q].run]
                    /\ \A s : JobsOf(at[q].run, s)' = JobsOf(at[q].run, s)
  PROVE  StartOf(q)'
<1>0. /\ StartOf(q) /\ TypeOK /\ HandOf(q) /\ (\A s \in Steps : newOrder[s] # 0 => order[s] = 0)
      /\ \A r \in Runs : OnceOf(r)
  BY DEF FlowInv, HandInv, OnceInv
<1>1. CASE pc[q] = "start" /\ runStatus[at[q].run] = "running"
  <2>1. PICK r \in Runs, t \in Steps : r = at[q].run /\ t = at[q].step
    BY <1>0, <1>1 DEF HandOf
  <2>2. PICK c : c = currentStep[r]
    OBVIOUS
  <2>3. /\ StepRunsOf(r, c) # {}
        /\ t \in Present => order[c] < order[t]
        /\ newOrder[t] # 0 => order[c] < newOrder[t]
    BY <1>0, <1>1, <2>1, <2>2 DEF StartOf
  <2>4. c \in Present
    <3>1. c # NoStep
      <4>1. PICK k \in DOMAIN stepRuns : stepRuns[k].step = c
        BY <2>3 DEF StepRunsOf
      <4>2. stepRuns[k] \in StepRunRow
        BY SMTT(30), <1>0 DEF TypeOK
      <4>3. QED
        BY <4>1, <4>2 DEF StepRunRow, WorkflowAssumption
    <3>2. QED
      BY <1>0, <2>1, <2>2, <3>1 DEF OnceOf
  <2>5. order'[c] = order[c]
    BY <1>0, <2>2, <2>4, EditsKeepOrder
  <2>6. StepRunsOf(r, c)' # {}
    BY <2>3 DEF RowsKept, StepRunsOf
  <2>7. t \in Present' => order'[c] < order'[t]
    <3>1. \/ order'[t] = order[t]
          \/ order'[t] = 0
          \/ newOrder[t] # 0 /\ order'[t] = newOrder[t]
      BY <1>0, EditsKeepOrder
    <3>2. QED
      BY <2>3, <2>5, <3>1 DEF Present
  <2>8. newOrder'[t] # 0 => order'[c] < newOrder'[t]
    <3>1. \/ newOrder'[t] = newOrder[t]
          \/ newOrder'[t] = 0
          \/ \A u \in Present : order[u] < newOrder'[t]
      BY <1>0, EditsKeepOrder
    <3>2. QED
      BY <2>3, <2>4, <2>5, <3>1
  <2>9. pc'[q] = "start" /\ at'[q].run = r /\ at'[q].step = t /\ currentStep'[r] = c
    BY <1>1, <2>1, <2>2 DEF Stays, Busy
  <2>10. QED
    BY <2>6, <2>7, <2>8, <2>9 DEF StartOf
<1>2. CASE pc[q] = "start" /\ runStatus[at[q].run] # "running"
  BY <1>2 DEF Stays, Busy, StartOf
<1>3. CASE pc[q] = "prefilled"
  BY <1>0, <1>3 DEF Stays, Busy, StartOf
<1>4. CASE pc[q] \notin {"start", "prefilled"}
  BY <1>4 DEF Stays, StartOf
<1>5. QED
  BY <1>1, <1>2, <1>3, <1>4

(* A step about to be started has no job. *)
LEMMA NoJobYet ==
  ASSUME FlowInv, OnceInv, NEW p \in Agents, pc[p] \in {"start", "prefilled"}, at[p].step \in Present
  PROVE  JobsOf(at[p].run, at[p].step) = {}
<1>0. StartOf(p) /\ TypeOK /\ HandOf(p) /\ OwnOf(p) /\ \A r \in Runs : OnceOf(r) /\ RunOf(r)
  BY DEF FlowInv, HandInv, OwnInv, RunInv, OnceInv
<1>1. PICK r \in Runs : r = at[p].run
  BY <1>0 DEF HandOf
<1>2. CASE pc[p] = "prefilled"
  BY <1>0, <1>2 DEF StartOf
<1>3. CASE pc[p] = "start" /\ runStatus[r] = "queued"
  BY <1>0, <1>1, <1>3 DEF RunOf, Pending, JobsOf
<1>4. CASE pc[p] = "start" /\ runStatus[r] = "running"
  <2>1. SUFFICES ASSUME NEW j \in DOMAIN jobs, jobs[j].run = r, jobs[j].step = at[p].step PROVE FALSE
    BY <1>1 DEF JobsOf
  <2>2. /\ currentStep[r] \in Present /\ order[at[p].step] <= order[currentStep[r]]
        /\ order[currentStep[r]] < order[at[p].step]
    BY <1>0, <1>1, <1>4, <2>1 DEF OnceOf, StartOf
  <2>3. order[at[p].step] \in Nat /\ order[currentStep[r]] \in Nat
    BY <1>0, <2>2 DEF Present, TypeOK
  <2>4. QED
    BY <2>2, <2>3
<1>5. QED
  BY <1>0, <1>1, <1>2, <1>3, <1>4 DEF OwnOf, Busy

(* The run an agent acts on. *)
LEMMA ActsOnce ==
  ASSUME FlowInv, OnceInv, RowsKept, TypeOK', NoReordering, [Next]_vars,
         gitFailures' = 0, NEW p \in Agents, Acts(p), NEW r \in Runs
  PROVE  OnceOf(r)'
<1>0. /\ TypeOK /\ HandInv /\ HandOf(p) /\ OwnOf(p) /\ StartOf(p) /\ OnceOf(r) /\ RunOf(r)
      /\ order \in [Steps -> Nat]
  BY DEF FlowInv, HandInv, OwnInv, RunInv, OnceInv, TypeOK
<1>1. PICK x \in Runs \union {NoRun} :
        /\ Touches(x)
        /\ \/ x = NoRun
           \/ Busy(p) /\ at[p].run = x
           \/ pc[p] = "loop" /\ phase[p] = "starting" /\ x \in Listed(p)
  BY <1>0, ActsTouches
<1>2. CASE r # x
  <2>1. currentStep'[r] = currentStep[r]
    BY <1>1, <1>2 DEF Touches
  <2>2. \A j \in DOMAIN jobs' :
          jobs'[j].run = r => j \in DOMAIN jobs /\ jobs[j].run = r /\ jobs'[j].step = jobs[j].step
    BY <1>1, <1>2 DEF Touches
  <2>3. QED
    BY <2>1, <2>2, SameOnce
<1>a. ASSUME currentStep'[r] = currentStep[r], UNCHANGED jobs PROVE OnceOf(r)'
  BY <1>a, SameOnce
<1>3. CASE r = x /\ ~Busy(p)
  <2>1. UNCHANGED <<currentStep, jobs>>
    BY <1>0, <1>3 DEF Acts, Busy, Tick, Review, Advance, ListQueued, TakeQueued, FinishWithoutSteps, ListRunning,
           NothingToDecide, ReadOutcome, CommitOutcome, EndTick, OpenReview, CannotApprove, Approve, BindBatch,
           Reject, CannotStart, Prefill, AwaitReview, EnqueueJob, InsertStepRun, StepVanished,
           FinishCurrentStep, FailStep, PrefillRollsBack, Abort, runVars, TypeOK
  <2>2. QED
    BY <1>a, <2>1
<1>4. CASE r = x /\ Busy(p) /\ at[p].run = r
  <2>1. PICK t \in Steps : t = at[p].step
    BY <1>0, <1>4 DEF HandOf, Busy
  <2>2. \A y : StepRunsOf(r, y) \subseteq StepRunsOf(r, y)'
    BY DEF RowsKept, StepRunsOf
  (* the first commit of a start, and the job it may have enqueued *)
  <2>3. ASSUME WriteRun(p), pc[p] = "start", t \in Present, UNCHANGED order,
               \A j \in DOMAIN jobs' :
                 jobs'[j].run = r =>
                   \/ jobs'[j].step = t
                   \/ j \in DOMAIN jobs /\ jobs[j].run = r /\ jobs'[j].step = jobs[j].step
        PROVE  OnceOf(r)'
    <3>1. currentStep'[r] = t /\ Present' = Present
      BY <1>0, <1>4, <2>1, <2>3 DEF WriteRun, TypeOK, Present
    <3>2. ASSUME NEW j \in DOMAIN jobs, jobs[j].run = r
          PROVE  \E s \in Present : /\ jobs[j].step = s /\ order[s] <= order[t]
                                   /\ StepRunsOf(r, s)' # {}
      <4>1. runStatus[r] = "running"
        BY <1>0, <1>4, <2>3, <3>2 DEF OwnOf, RunOf, Pending, Busy
      <4>2. PICK c, s : c = currentStep[r] /\ s = jobs[j].step
        OBVIOUS
      <4>3. StepRunsOf(r, c) # {} /\ order[c] < order[t]
        BY <1>0, <1>4, <2>1, <2>3, <4>1, <4>2 DEF StartOf
      <4>4. c \in Present /\ s \in Present /\ order[s] <= order[c] /\ StepRunsOf(r, s) # {}
        BY <1>0, <3>2, <4>2, <4>3 DEF OnceOf
      <4>5. order[s] <= order[t]
        BY <1>0, <4>3, <4>4 DEF Present
      <4>6. QED
        BY <2>2, <4>2, <4>4, <4>5
    <3>3. ASSUME NEW j \in DOMAIN jobs', jobs'[j].run = r
          PROVE  (/\ currentStep[r] # NoStep /\ jobs[j].step \in Present
                  /\ order[jobs[j].step] <= order[currentStep[r]]
                  /\ jobs[j].step = currentStep[r] \/ StepRunsOf(r, jobs[j].step) # {})'
      <4>1. t # NoStep
        BY DEF WorkflowAssumption
      <4>2. CASE jobs'[j].step = t
        BY <1>0, <2>3, <3>1, <4>1, <4>2
      <4>3. CASE j \in DOMAIN jobs /\ jobs[j].run = r /\ jobs'[j].step = jobs[j].step
        <5>1. PICK s \in Present : jobs'[j].step = s /\ order[s] <= order[t] /\ StepRunsOf(r, s)' # {}
          BY <3>2, <4>3
        <5>2. QED
          BY <2>3, <3>1, <4>1, <5>1
      <4>4. QED
        BY <2>3, <3>3, <4>2, <4>3
    <3>4. QED
      BY <2>3, <3>1, <3>3 DEF OnceOf
  (* a job for the current step *)
  <2>4. ASSUME UNCHANGED <<order, currentStep>>, currentStep[r] = t, AddsJob(r, t) PROVE OnceOf(r)'
    <3>1. Present' = Present /\ t \in Present /\ t # NoStep
      <4>1. t # NoStep
        BY DEF WorkflowAssumption
      <4>2. QED
        BY <1>0, <2>4, <4>1 DEF OnceOf, Present
    <3>2. ASSUME NEW j \in DOMAIN jobs', jobs'[j].run = r
          PROVE  (/\ currentStep[r] # NoStep /\ jobs[j].step \in Present
                  /\ order[jobs[j].step] <= order[currentStep[r]]
                  /\ jobs[j].step = currentStep[r] \/ StepRunsOf(r, jobs[j].step) # {})'
      <4>1. CASE j \in DOMAIN jobs
        <5>1. jobs'[j] = jobs[j] /\ jobs[j].run = r
          BY <2>4, <3>2, <4>1 DEF AddsJob
        <5>2. PICK s : s = jobs[j].step
          OBVIOUS
        <5>3. s \in Present /\ order[s] <= order[t] /\ (s = t \/ StepRunsOf(r, s) # {})
          BY <1>0, <2>4, <4>1, <5>1, <5>2 DEF OnceOf
        <5>4. s = t \/ StepRunsOf(r, s)' # {}
          BY <2>2, <5>3
        <5>5. QED
          BY <2>4, <3>1, <5>1, <5>2, <5>3, <5>4
      <4>2. CASE j \notin DOMAIN jobs
        <5>1. jobs'[j].step = t
          BY <2>4, <3>2, <4>2 DEF AddsJob
        <5>2. QED
          BY <1>0, <2>4, <3>1, <5>1
      <4>3. QED
        BY <4>1, <4>2
    <3>3. QED
      BY <2>4, <3>1, <3>2 DEF OnceOf
  <2>5. CASE CannotStart(p) \/ Prefill(p)
    BY <2>1, <2>3, <2>5 DEF CannotStart, Prefill, flowVars
  <2>6. CASE EnqueueJob(p)
    <3>1. AddsJob(r, t) /\ t \in Present /\ UNCHANGED order
      BY <1>0, <1>4, <2>1, <2>6, EnqueueJobDoes DEF EnqueueJob, flowVars
    <3>2. CASE pc[p] = "start" /\ WriteRun(p)
      <4>1. \A j \in DOMAIN jobs' :
              jobs'[j].run = r =>
                \/ jobs'[j].step = t
                \/ j \in DOMAIN jobs /\ jobs[j].run = r /\ jobs'[j].step = jobs[j].step
        BY <3>1 DEF AddsJob
      <4>2. QED
        BY <2>3, <3>1, <3>2, <4>1
    <3>3. CASE pc[p] = "prefilled" /\ UNCHANGED currentStep
      <4>1. currentStep[r] = t
        BY <1>0, <1>4, <2>1, <3>3 DEF OwnOf
      <4>2. QED
        BY <2>4, <3>1, <3>3, <4>1
    <3>4. QED
      BY <2>6, <3>2, <3>3 DEF EnqueueJob
  <2>7. CASE p \in Reviewers /\ Approve(p)
    <3>1. AddsJob(r, t)
      BY <1>0, <1>4, <2>1, <2>7, ApproveDoes
    <3>2. UNCHANGED <<order, currentStep>>
      BY <2>7 DEF Approve, flowVars, runVars
    <3>3. currentStep[r] = t
      BY <1>0, <1>4, <2>1, <2>7 DEF OwnOf, Approve
    <3>4. QED
      BY <2>4, <3>1, <3>2, <3>3
  <2>8. CASE UNCHANGED <<currentStep, jobs>>
    BY <1>a, <2>8
  <2>9. \/ CannotStart(p) \/ Prefill(p) \/ EnqueueJob(p) \/ (p \in Reviewers /\ Approve(p))
        \/ UNCHANGED <<currentStep, jobs>>
    <3>1. ~PrefillRollsBack(p)
      BY <1>0 DEF PrefillRollsBack, TypeOK
    <3>2. FailStep(p) \/ FinishCurrentStep(p) => UNCHANGED <<currentStep, jobs>>
      BY DEF FailStep, FinishCurrentStep, FinishStep
    <3>3. QED
      BY <3>1, <3>2 DEF Acts, Tick, Review, Advance, ListQueued, TakeQueued, FinishWithoutSteps, ListRunning,
           NothingToDecide, ReadOutcome, CommitOutcome, EndTick, OpenReview, CannotApprove, BindBatch,
           Reject, AwaitReview, InsertStepRun, StepVanished, Abort, runVars
  <2>10. QED
    BY <2>5, <2>6, <2>7, <2>8, <2>9
<1>5. QED
  BY <1>1, <1>2, <1>3, <1>4 DEF WorkflowAssumption, Busy

(* What an agent starts next. *)
LEMMA ActsStart ==
  ASSUME FlowInv, OnceInv, RowsKept, TypeOK', gitFailures' = 0, NEW p \in Agents, Acts(p)
  PROVE  StartOf(p)'
<1>0. /\ TypeOK /\ HandInv /\ HandOf(p) /\ OwnOf(p) /\ StartOf(p) /\ order \in [Steps -> Nat]
      /\ \A s \in Steps : newOrder[s] # 0 => order[s] = 0
  BY DEF FlowInv, HandInv, OwnInv, OnceInv, TypeOK
<1>1. CASE pc'[p] \notin {"start", "prefilled"}
  BY <1>1 DEF StartOf
<1>2. ASSUME pc'[p] \in {"start", "prefilled"} PROVE ~Stays(p)
  <2>1. ~PrefillRollsBack(p)
    BY <1>0 DEF PrefillRollsBack, TypeOK
  <2>2. pc[p] \in {"start", "prefilled"} => pc'[p] # pc[p]
    BY ZenonT(30), <1>0, <2>1, DisjointAgents
       DEF Acts, Tick, Review, Advance, ListQueued, TakeQueued, FinishWithoutSteps, ListRunning,
           NothingToDecide, ReadOutcome, CommitOutcome, EndTick, OpenReview, CannotApprove, Approve,
           BindBatch, Reject, CannotStart, Prefill, AwaitReview, EnqueueJob, InsertStepRun,
           StepVanished, FinishCurrentStep, FailStep, Abort, Goto, Return, HandOf, TypeOK
  <2>3. QED
    BY <1>2, <2>2 DEF Stays
<1>3. ASSUME Prefill(p) PROVE StartOf(p)'
  <2>1. pc'[p] = "prefilled" /\ UNCHANGED <<at, jobs>>
    BY <1>0, <1>3 DEF Prefill, Goto, TypeOK
  <2>2. JobsOf(at[p].run, at[p].step) = {}
    BY <1>3, NoJobYet DEF Prefill
  <2>3. QED
    BY <2>1, <2>2 DEF StartOf, JobsOf
<1>4. ASSUME NEW r \in Runs, TakeQueued(p, r) PROVE StartOf(p)'
  <2>1. p \in Procs
    BY <1>0, <1>4, DisjointAgents DEF TakeQueued, HandOf, Agents
  <2>2. r \in Listed(p) /\ phase[p] = "starting" /\ UNCHANGED runStatus
    BY <1>0, <1>4, IdleType DEF TakeQueued, Listed, HandOf, WorkflowAssumption, runVars
  <2>3. runStatus'[r] = "queued"
    BY <1>0, <2>2 DEF OwnOf
  <2>4. at'[p].run = r /\ pc'[p] = "start"
    <3>1. PICK a \in InHand : Hands(p, a) /\ a.run = r
      BY <1>4, <2>1, TakeQueuedDoes
    <3>2. QED
      BY <1>0, <1>4, <3>1 DEF Hands, TakeQueued, Goto, TypeOK
  <2>5. QED
    BY <2>3, <2>4 DEF StartOf
<1>5. ASSUME FinishCurrentStep(p) \/ FailStep(p), pc'[p] = "start" PROVE StartOf(p)'
  <2>0. PICK r \in Runs, s \in Steps : r = at[p].run /\ s = at[p].step
    BY <1>0, <1>5 DEF HandOf, FinishCurrentStep, FailStep
  <2>ok. at[p].ok \in BOOLEAN
    BY <1>0, Hand
  <2>1. PICK ok \in BOOLEAN : FinishStep(p, ok)
    BY <1>5, <2>ok DEF FinishCurrentStep, FailStep
  <2>2. PICK t \in NextSteps(s) : t \in Steps /\ GoesOn(p, t)
    <3>1. \A st : ~EndsRun(p, st)
      BY <1>0, <1>5 DEF EndsRun, Return, TypeOK
    <3>2. QED
      BY <1>0, <2>0, <2>1, <3>1, FinishDoes
  <2>3. currentStep'[r] = s /\ UNCHANGED <<order, newOrder>>
    <3>1. currentStep[r] = s
      BY <1>0, <1>5, <2>0 DEF OwnOf, FinishCurrentStep, FailStep
    <3>2. QED
      BY <1>5, <2>1, <3>1 DEF FinishCurrentStep, FailStep, FinishStep, flowVars
  <2>4. order[s] < order[t] /\ t \in Present
    BY <1>0, <2>0, <2>2 DEF NextSteps, Earliest, Present
  <2>5. newOrder[t] = 0
    BY <1>0, <2>4 DEF Present
  <2>6. StepRunsOf(r, s)' # {}
    <3>1. CASE FinishCurrentStep(p)
      <4>1. at[p].entry \in StepRunsOf(r, s)
        BY <1>0, <2>0, <3>1 DEF FinishCurrentStep, HandOf, StepRunsOf
      <4>2. QED
        BY <4>1 DEF RowsKept, StepRunsOf
    <3>2. CASE FailStep(p)
      <4>1. AddsRow(r, s, "failed", 0)
        BY <1>0, <2>0, <3>2, FailStepDoes
      <4>2. QED
        BY <4>1 DEF AddsRow, StepRunsOf
    <3>3. QED
      BY <1>5, <3>1, <3>2
  <2>7. at'[p].run = r /\ at'[p].step = t
    BY <1>0, <2>0, <2>2 DEF GoesOn, Hands, TypeOK
  <2>8. QED
    BY <1>5, <2>3, <2>4, <2>5, <2>6, <2>7 DEF StartOf
<1>6. ~PrefillRollsBack(p)
  BY <1>0 DEF PrefillRollsBack, TypeOK
<1>7. QED
  BY <1>0, <1>1, <1>2, <1>3, <1>4, <1>5, <1>6, PlaceChanges

LEMMA StepOnce ==
  ASSUME FlowInv, OnceInv, Exclusive, OneReviewer, NoReordering, gitFailures' = 0, [Next]_vars
  PROVE  OnceInv'
<1>1. TypeOK /\ TypeOK' /\ HandInv /\ RowsKept /\ FlowInv'
  BY StepHands, RowsAreKept, StepFlow DEF FlowInv
<1>2. \A s \in Steps : newOrder'[s] # 0 => order'[s] = 0
  BY <1>1, EditsKeepOrder DEF OnceInv
<1>3. ASSUME NEW k \in DOMAIN stepRuns', stepRuns'[k].status = "awaiting_review"
      PROVE  Kind[stepRuns'[k].step] = "review"
  <2>1. CASE k \in DOMAIN stepRuns
    <3>1. \A ok : Outcome(ok) # "awaiting_review"
      BY DEF Outcome
    <3>2. QED
      BY <1>1, <1>3, <2>1, <3>1, RowChanges DEF SetsRow, OnceInv
  <2>2. CASE k \notin DOMAIN stepRuns
    BY <1>1, <1>3, <2>2, NewRows DEF AwaitReview
  <2>3. QED
    BY <2>1, <2>2
<1>4. CASE System
  <2>1. /\ UNCHANGED <<stepRuns, agentVars>>
        /\ \A r \in Runs : \/ runStatus'[r] = runStatus[r] /\ currentStep'[r] = currentStep[r]
                           \/ runStatus[r] = "none"
        /\ DOMAIN jobs' = DOMAIN jobs
        /\ \A j \in DOMAIN jobs : jobs'[j].run = jobs[j].run /\ jobs'[j].step = jobs[j].step
    BY <1>4, SystemFlow, SystemRests
  <2>2. UNCHANGED currentStep
    BY <1>4 DEF System, EnqueueWorkflowRun, JobEnds, ReadNextOrder, AddStep, DeleteStep, ReorderSteps,
                Edit, vars, runVars
  <2>3. ASSUME NEW r \in Runs PROVE OnceOf(r)'
    BY <1>1, <2>1, <2>2, SameOnce
  <2>4. ASSUME NEW q \in Agents PROVE StartOf(q)'
    <3>1. Stays(q)
      BY <2>1 DEF Stays, agentVars
    <3>2. ASSUME Busy(q) PROVE runStatus'[at[q].run] = runStatus[at[q].run]
      BY <2>1, <3>2 DEF FlowInv, OwnInv, OwnOf, HandInv, HandOf, Busy
    <3>3. \A s : JobsOf(at[q].run, s)' = JobsOf(at[q].run, s)
      BY <2>1, <3>1 DEF JobsOf, Stays
    <3>4. QED
      BY <1>1, <2>2, <3>1, <3>2, <3>3, SameStart
  <2>5. QED
    BY <1>2, <1>3, <2>3, <2>4 DEF OnceInv
<1>5. ASSUME NEW p \in Agents, Acts(p) PROVE OnceInv'
  <2>1. ASSUME NEW r \in Runs PROVE OnceOf(r)'
    BY <1>1, <1>5, ActsOnce
  <2>2. ASSUME NEW q \in Agents, q # p PROVE StartOf(q)'
    <3>1. Stays(q)
      BY <1>1, <1>5, <2>2, OneAgent DEF OthersRest, Stays
    <3>2. ASSUME Busy(q)
          PROVE  /\ currentStep'[at[q].run] = currentStep[at[q].run]
                 /\ runStatus'[at[q].run] = runStatus[at[q].run]
                 /\ \A s : JobsOf(at[q].run, s)' = JobsOf(at[q].run, s)
      <4>1. PICK x \in Runs \union {NoRun} :
              /\ Touches(x)
              /\ \/ x = NoRun
                 \/ Busy(p) /\ at[p].run = x
                 \/ pc[p] = "loop" /\ phase[p] = "starting" /\ x \in Listed(p)
        BY <1>1, <1>5, ActsTouches
      <4>2. at[q].run \in Runs
        BY <3>2 DEF Busy, FlowInv, HandInv, HandOf
      <4>3. at[q].run # x
        BY <2>2, <3>2, <4>1, <4>2 DEF FlowInv, AloneInv, WorkflowAssumption
      <4>4. QED
        BY <3>1, <4>1, <4>2, <4>3 DEF Touches, JobsOf, Stays
    <3>3. QED
      BY <1>1, <3>1, <3>2, SameStart
  <2>3. StartOf(p)'
    BY <1>1, <1>5, ActsStart
  <2>4. QED
    BY <1>2, <1>3, <2>1, <2>2, <2>3 DEF OnceInv
<1>6. QED
  BY <1>4, <1>5, StepCases

LEMMA StepJobs ==
  ASSUME FlowInv, OnceInv, OneJobPerStep, gitFailures' = 0, [Next]_vars
  PROVE  OneJobPerStep'
<1>0. TypeOK /\ HandInv
  BY DEF FlowInv
<1> SUFFICES ASSUME NEW r \in Runs, NEW s \in Steps, Kind[s] # "review",
                    NEW i \in JobsOf(r, s)', NEW j \in JobsOf(r, s)'
             PROVE  i = j
  BY DEF OneJobPerStep
<1>1. CASE JobsOf(r, s)' = JobsOf(r, s)
  BY <1>1 DEF OneJobPerStep
<1>2. ASSUME NEW p \in Agents, EnqueueJob(p) \/ (p \in Reviewers /\ Approve(p)),
             AddsJob(at[p].run, at[p].step)
      PROVE  JobsOf(r, s)' = JobsOf(r, s) \/ (JobsOf(r, s) = {} /\ JobsOf(r, s)' = {Len(jobs) + 1})
  <2>1. CASE at[p].run # r \/ at[p].step # s
    BY <1>2, <2>1 DEF AddsJob, JobsOf
  <2>2. CASE at[p].run = r /\ at[p].step = s /\ EnqueueJob(p)
    <3>1. JobsOf(r, s) = {}
      BY <2>2, NoJobYet DEF EnqueueJob
    <3>2. QED
      BY <1>2, <2>2, <3>1 DEF AddsJob, JobsOf
  <2>3. CASE at[p].run = r /\ at[p].step = s /\ p \in Reviewers /\ Approve(p)
    <3>1. PICK k \in DOMAIN stepRuns : k = at[p].entry /\ stepRuns[k].step = s
      BY <2>3 DEF FlowInv, HandInv, HandOf, Approve
    <3>2. stepRuns[k].status = "awaiting_review"
      BY <2>3, <3>1 DEF FlowInv, WatchInv, WatchOf, Approve
    <3>3. QED
      BY <3>1, <3>2 DEF OnceInv
  <2>4. QED
    BY <1>2, <2>1, <2>2, <2>3
<1>3. CASE DOMAIN jobs' = DOMAIN jobs
  BY <1>0, <1>1, <1>3, JobChanges DEF JobsOf
<1>4. QED
  BY <1>0, <1>1, <1>2, <1>3, JobChanges

(* A step that the orchestrator starts is built or deployed once, however  *)
(* many processes poll, whatever crashes, and while steps are added and    *)
(* deleted.                                                                *)
THEOREM StepsRunOnce ==
  ASSUME Exclusive, OneReviewer, NoRollbacks, NoReordering
  PROVE  Spec => []OneJobPerStep
<1> DEFINE IInv == FlowInv /\ OnceInv /\ OneJobPerStep
<1>1. ASSUME Init PROVE IInv
  <2>1. OnceInv
    BY <1>1 DEF Init, OnceInv, OnceOf, StartOf
  <2>2. OneJobPerStep
    BY <1>1 DEF Init, OneJobPerStep, JobsOf
  <2>3. QED
    BY <1>1, <2>1, <2>2, InitFlow
<1>2. ASSUME IInv, [Next]_vars PROVE IInv'
  <2>1. gitFailures' = 0
    <3>1. TypeOK'
      BY <1>2, StepHands DEF FlowInv
    <3>2. QED
      BY <3>1 DEF TypeOK, NoRollbacks
  <2>2. QED
    BY <1>2, <2>1, StepFlow, StepOnce, StepJobs
<1>3. QED
  BY <1>1, <1>2, PTL DEF Spec

-----------------------------------------------------------------------------
(* The orchestrator implements Pipeline: a run goes through the steps of   *)
(* its workflow in order, each once, up to the first that stops it.        *)

(* The workflow is complete before its runs start, and is not edited.      *)
FixedSteps ==
  MaxEdits = 0 /\ DistinctOrders /\ Steps # {} /\ \A s \in Steps : InitialOrder[s] > 0

(* A run has one step run per step, for its current step and earlier ones; *)
(* a step that is being started has none.                                  *)
PlaceInv ==
  /\ \A r \in Runs, s \in Steps : \A k, l \in StepRunsOf(r, s) : k = l
  /\ \A k \in DOMAIN stepRuns :
       /\ currentStep[stepRuns[k].run] \in Steps
       /\ order[stepRuns[k].step] <= order[currentStep[stepRuns[k].run]]
  /\ \A p \in Agents :
       pc[p] \in {"prefilled", "failing", "started"} => StepRunsOf(at[p].run, at[p].step) = {}

AllInv == FlowInv /\ HistoryInv /\ OrderInv /\ OnceInv /\ PlaceInv /\ gitFailures = 0 /\ edits = 0

(* Without edits every step is there, in its initial place. *)
LEMMA StepsAreThere ==
  ASSUME AllInv, FixedSteps
  PROVE  order = InitialOrder /\ Present = Steps /\ order \in [Steps -> Nat] /\ NoReordering
  BY DEF AllInv, OrderInv, FixedSteps, Present, WorkflowAssumption, NoReordering

LEMMA StageNames ==
  /\ StageOf["none"] = "absent" /\ StageOf["queued"] = "waiting" /\ StageOf["running"] = "going"
  /\ StageOf["success"] = "success" /\ StageOf["failed"] = "failed"
  /\ StageOf["completed_with_failures"] = "completed_with_failures"
  BY DEF StageOf

(* A step about to be started has no step run. *)
LEMMA NoRowYet ==
  ASSUME AllInv, FixedSteps, NEW p \in Agents, pc[p] \in {"start", "prefilled", "failing", "started"}
  PROVE  StepRunsOf(at[p].run, at[p].step) = {}
<1>0. StartOf(p) /\ TypeOK /\ HandOf(p) /\ OwnOf(p) /\ PlaceInv /\ \A r \in Runs : RunOf(r)
  BY DEF AllInv, FlowInv, HandInv, OwnInv, RunInv, OnceInv
<1>1. PICK r \in Runs, t \in Steps : r = at[p].run /\ t = at[p].step
  BY <1>0 DEF HandOf
<1>2. CASE pc[p] # "start"
  BY <1>0, <1>2 DEF PlaceInv
<1>3. CASE pc[p] = "start" /\ runStatus[r] = "queued"
  BY <1>0, <1>1, <1>3 DEF RunOf, Pending, StepRunsOf, RowsOf
<1>4. CASE pc[p] = "start" /\ runStatus[r] = "running"
  <2>1. SUFFICES ASSUME NEW k \in DOMAIN stepRuns, stepRuns[k].run = r, stepRuns[k].step = t PROVE FALSE
    BY <1>1 DEF StepRunsOf
  <2>2. currentStep[r] \in Steps /\ order[t] <= order[currentStep[r]]
    BY <1>0, <2>1 DEF PlaceInv
  <2>3. order[currentStep[r]] < order[t]
    BY <1>0, <1>1, <1>4, StepsAreThere DEF StartOf
  <2>4. QED
    BY <2>2, <2>3, StepsAreThere
<1>5. QED
  BY <1>0, <1>1, <1>2, <1>3, <1>4 DEF OwnOf, Busy

(* The current step changes when a start first commits. *)
LEMMA CurrentChanges ==
  ASSUME TypeOK, HandInv, [Next]_vars, NEW r \in Runs
  PROVE  \/ currentStep'[r] = currentStep[r]
         \/ \E p \in Agents : /\ CannotStart(p) \/ Prefill(p) \/ EnqueueJob(p)
                              /\ pc[p] = "start" /\ WriteRun(p) /\ at[p].run = r
                              /\ currentStep'[r] = at[p].step /\ runStatus'[r] = "running"
<1>1. ASSUME NEW p \in Agents, CannotStart(p) \/ Prefill(p) \/ EnqueueJob(p)
      PROVE  \/ currentStep'[r] = currentStep[r]
             \/ /\ pc[p] = "start" /\ WriteRun(p) /\ at[p].run = r
                /\ currentStep'[r] = at[p].step /\ runStatus'[r] = "running"
  <2>1. at[p].run \in Runs
    BY <1>1, Hand DEF CannotStart, Prefill, EnqueueJob
  <2>2. UNCHANGED currentStep \/ (pc[p] = "start" /\ WriteRun(p))
    BY <1>1 DEF CannotStart, Prefill, EnqueueJob
  <2>3. QED
    BY <2>1, <2>2 DEF WriteRun, TypeOK
<1>2. UNCHANGED currentStep \/ \E p \in Agents : CannotStart(p) \/ Prefill(p) \/ EnqueueJob(p)
  BY ZenonT(30) DEF Next, vars, runVars, EnqueueWorkflowRun, JobEnds, ReadNextOrder, AddStep, DeleteStep,
         ReorderSteps, Edit, Tick, ListQueued, TakeQueued, FinishWithoutSteps, ListRunning,
         NothingToDecide, ReadOutcome, CommitOutcome, EndTick, Review, OpenReview, CannotApprove,
         Approve, BindBatch, Reject, Advance, AwaitReview, FinishStep,
         InsertStepRun, StepVanished, FinishCurrentStep, FailStep, Abort, PrefillRollsBack
<1>3. QED
  BY <1>1, <1>2

LEMMA StepPlace ==
  ASSUME AllInv, FixedSteps, gitFailures' = 0, edits' = 0, [Next]_vars
  PROVE  PlaceInv'
<1>0. /\ TypeOK /\ HandInv /\ TypeOK' /\ HandInv' /\ RowsKept /\ PlaceInv
      /\ UNCHANGED order /\ order \in [Steps -> Nat] /\ Present = Steps
      /\ \A p \in Agents : HandOf(p) /\ OwnOf(p) /\ StartOf(p)
  BY StepHands, RowsAreKept, StepsAreThere, EditsGrow DEF AllInv, FlowInv, HandInv, OwnInv, OnceInv, OrderInv
(* the rows of the step an agent starts *)
<1>1. ASSUME NEW k \in DOMAIN stepRuns', k \notin DOMAIN stepRuns
      PROVE  \E p \in Agents : /\ AwaitReview(p) \/ InsertStepRun(p) \/ FailStep(p)
                               /\ k = Len(stepRuns) + 1
                               /\ stepRuns'[k].run = at[p].run /\ stepRuns'[k].step = at[p].step
                               /\ StepRunsOf(at[p].run, at[p].step) = {}
                               /\ at[p].run \in Runs /\ at[p].step \in Steps
                               /\ currentStep[at[p].run] = at[p].step
  <2>1. PICK p \in Agents : /\ AwaitReview(p) \/ InsertStepRun(p) \/ FailStep(p)
                            /\ stepRuns'[k].run = at[p].run /\ stepRuns'[k].step = at[p].step
    BY <1>0, <1>1, NewRows
  <2>2. pc[p] \in {"prefilled", "started", "failing"}
    BY <2>1 DEF AwaitReview, InsertStepRun, FailStep
  <2>3. DOMAIN stepRuns' = DOMAIN stepRuns \union {Len(stepRuns) + 1}
    BY <1>0, <2>1, AwaitReviewDoes, InsertStepRunDoes, FailStepDoes DEF AddsRow
  <2>4. QED
    BY <1>0, <1>1, <2>1, <2>2, <2>3, NoRowYet DEF HandOf, OwnOf
<1>2. ASSUME NEW r \in Runs, NEW s \in Steps, NEW k \in StepRunsOf(r, s)', NEW l \in StepRunsOf(r, s)'
      PROVE  k = l
  <2>1. \A i \in DOMAIN stepRuns : i \in StepRunsOf(r, s)' => i \in StepRunsOf(r, s)
    BY <1>0 DEF RowsKept, StepRunsOf
  <2>2. \A i \in StepRunsOf(r, s)' : i \notin DOMAIN stepRuns => i = Len(stepRuns) + 1 /\ StepRunsOf(r, s) = {}
    BY <1>1 DEF StepRunsOf
  <2>3. \A i, j \in StepRunsOf(r, s) : i = j
    BY <1>0 DEF PlaceInv
  <2>4. QED
    BY <2>1, <2>2, <2>3
<1>3. ASSUME NEW k \in DOMAIN stepRuns'
      PROVE  /\ currentStep'[stepRuns'[k].run] \in Steps
             /\ order'[stepRuns'[k].step] <= order'[currentStep'[stepRuns'[k].run]]
  <2>1. PICK r \in Runs, s \in Steps : r = stepRuns'[k].run /\ s = stepRuns'[k].step
    <3>1. stepRuns'[k] \in StepRunRow
      BY <1>0 DEF TypeOK
    <3>2. QED
      BY <3>1 DEF StepRunRow
  <2>2. currentStep[r] \in Steps /\ order[s] <= order[currentStep[r]]
    <3>1. CASE k \in DOMAIN stepRuns
      BY <1>0, <2>1, <3>1 DEF PlaceInv, RowsKept
    <3>2. CASE k \notin DOMAIN stepRuns
      <4>1. currentStep[r] = s
        BY <1>1, <2>1, <3>2
      <4>2. QED
        BY <1>0, <4>1
    <3>3. QED
      BY <3>1, <3>2
  <2>3. CASE currentStep'[r] = currentStep[r]
    BY <1>0, <2>1, <2>2, <2>3
  <2>4. ASSUME NEW p \in Agents, CannotStart(p) \/ Prefill(p) \/ EnqueueJob(p),
               pc[p] = "start", at[p].run = r, currentStep'[r] = at[p].step
        PROVE  /\ currentStep'[stepRuns'[k].run] \in Steps
               /\ order'[stepRuns'[k].step] <= order'[currentStep'[stepRuns'[k].run]]
    <3>1. at[p].step \in Steps
      BY <1>0, <2>4 DEF HandOf
    <3>2. k \in DOMAIN stepRuns
      <4>1. UNCHANGED stepRuns
        BY <2>4 DEF CannotStart, Prefill, EnqueueJob
      <4>2. QED
        BY <4>1
    <3>3. k \in RowsOf(r)
      BY <1>0, <2>1, <3>2 DEF RowsOf, RowsKept
    <3>4. runStatus[r] = "running"
      BY <1>0, <2>4, <3>3 DEF OwnOf, Busy, AllInv, FlowInv, RunInv, RunOf, Pending
    <3>5. order[currentStep[r]] < order[at[p].step]
      BY <1>0, <2>4, <3>1, <3>4 DEF StartOf
    <3>6. QED
      BY <1>0, <2>1, <2>2, <2>4, <3>1, <3>5
  <2>5. QED
    BY <1>0, <2>3, <2>4, CurrentChanges
<1>4. ASSUME NEW q \in Agents, pc'[q] \in {"prefilled", "failing", "started"}
      PROVE  StepRunsOf(at[q].run, at[q].step)' = {}
  <2>1. CASE Stays(q)
    <3>1. SUFFICES ASSUME NEW k \in StepRunsOf(at[q].run, at[q].step)' PROVE FALSE
      OBVIOUS
    <3>2. /\ StepRunsOf(at[q].run, at[q].step) = {} /\ at'[q] = at[q] /\ Busy(q)
          /\ pc[q] \in {"prefilled", "failing", "started"}
      BY <1>0, <1>4, <2>1 DEF PlaceInv, Stays, Busy
    <3>3. k \in DOMAIN stepRuns' /\ k \notin DOMAIN stepRuns /\ stepRuns'[k].run = at[q].run
      BY <1>0, <3>1, <3>2 DEF StepRunsOf, RowsKept
    <3>4. PICK p \in Agents : (AwaitReview(p) \/ InsertStepRun(p) \/ FailStep(p)) /\ at[p].run = at[q].run
      BY <1>1, <3>3
    <3>5. Busy(p)
      BY <3>4 DEF Busy, AwaitReview, InsertStepRun, FailStep
    <3>6. p = q
      BY <3>2, <3>4, <3>5 DEF AllInv, FlowInv, AloneInv
    <3>7. pc'[p] \in {"loop", "start"}
      BY <1>0, <3>4 DEF AwaitReview, InsertStepRun, FailStep, FinishStep, Return, Goto, TypeOK
    <3>8. QED
      BY <1>4, <3>6, <3>7
  <2>2. ASSUME CannotStart(q) \/ Prefill(q) \/ EnqueueJob(q) PROVE StepRunsOf(at[q].run, at[q].step)' = {}
    <3>1. UNCHANGED stepRuns /\ pc[q] \in {"start", "prefilled"}
      BY <2>2 DEF CannotStart, Prefill, EnqueueJob
    <3>2. at'[q].run = at[q].run /\ at'[q].step = at[q].step
      <4>1. CASE CannotStart(q) \/ Prefill(q)
        BY <4>1 DEF CannotStart, Prefill
      <4>2. CASE EnqueueJob(q)
        BY <1>0, <4>2, JobInHand DEF EnqueueJob, Hands, TypeOK
      <4>3. QED
        BY <2>2, <4>1, <4>2
    <3>3. QED
      BY <3>1, <3>2, NoRowYet DEF StepRunsOf
  <2>3. ~PrefillRollsBack(q)
    BY <1>0 DEF PrefillRollsBack, TypeOK, AllInv
  <2>4. QED
    BY <1>0, <1>4, <2>1, <2>2, <2>3, StaysOrActs, PlaceChanges
<1>5. QED
  BY <1>2, <1>3, <1>4 DEF PlaceInv

-----------------------------------------------------------------------------
(* How far a run is, as Pipeline sees it.                                  *)
Stage    == [r \in Runs |-> StageOf[runStatus[r]]]
Progress == [r \in Runs |-> [s \in Steps |-> ProgressOf(r, s)]]

Shown(k) == IF Over(k) THEN stepRuns[k].status ELSE "doing"

LEMMA LatestIsOnly ==
  ASSUME NEW S, NEW k \in S, k \in Nat, \A i, j \in S : i = j
  PROVE  (CHOOSE i \in S : \A l \in S : l <= i) = k
<1>1. \A l \in S : l <= k
  OBVIOUS
<1>2. QED
  BY <1>1

LEMMA ProgressIs ==
  ASSUME TypeOK, PlaceInv, NEW r \in Runs, NEW s \in Steps
  PROVE  /\ StepRunsOf(r, s) = {} => ProgressOf(r, s) = IF currentStep[r] = s THEN "doing" ELSE "todo"
         /\ \A k \in StepRunsOf(r, s) : ProgressOf(r, s) = Shown(k)
<1>1. ASSUME NEW k \in StepRunsOf(r, s) PROVE ProgressOf(r, s) = Shown(k)
  <2>1. k \in Nat
    BY DEF TypeOK, StepRunsOf
  <2>2. (CHOOSE i \in StepRunsOf(r, s) : \A l \in StepRunsOf(r, s) : l <= i) = k
    BY <2>1, LatestIsOnly DEF PlaceInv
  <2>3. QED
    BY <2>2 DEF ProgressOf, Shown, Over
<1>2. QED
  BY <1>1 DEF ProgressOf

LEMMA ProgressIsNext ==
  ASSUME TypeOK', PlaceInv', NEW r \in Runs, NEW s \in Steps
  PROVE  /\ StepRunsOf(r, s)' = {} => ProgressOf(r, s)' = IF currentStep'[r] = s THEN "doing" ELSE "todo"
         /\ \A k \in StepRunsOf(r, s)' : ProgressOf(r, s)' = Shown(k)'
<1>1. ASSUME NEW k \in StepRunsOf(r, s)' PROVE ProgressOf(r, s)' = Shown(k)'
  <2>1. k \in Nat
    BY DEF TypeOK, StepRunsOf
  <2>2. (CHOOSE i \in StepRunsOf(r, s) : \A l \in StepRunsOf(r, s) : l <= i)' = k
    BY <2>1, LatestIsOnly DEF PlaceInv
  <2>3. QED
    BY <2>2 DEF ProgressOf, Shown, Over
<1>2. QED
  BY <1>1 DEF ProgressOf

LEMMA SameProgress ==
  ASSUME TypeOK, PlaceInv, TypeOK', PlaceInv', NEW r \in Runs, NEW s \in Steps,
         StepRunsOf(r, s)' = StepRunsOf(r, s),
         \A k \in StepRunsOf(r, s) : Shown(k)' = Shown(k),
         StepRunsOf(r, s) = {} => (currentStep'[r] = s <=> currentStep[r] = s)
  PROVE  ProgressOf(r, s)' = ProgressOf(r, s)
<1>1. CASE StepRunsOf(r, s) = {}
  BY <1>1, ProgressIs, ProgressIsNext
<1>2. ASSUME NEW k \in StepRunsOf(r, s) PROVE ProgressOf(r, s)' = ProgressOf(r, s)
  <2>1. ProgressOf(r, s) = Shown(k)
    BY ProgressIs
  <2>2. ProgressOf(r, s)' = Shown(k)'
    BY ProgressIsNext
  <2>3. QED
    BY <2>1, <2>2
<1>3. QED
  BY <1>1, <1>2

(* The runs nobody acts on stay where they are. *)
LEMMA OtherProgress ==
  ASSUME TypeOK, PlaceInv, TypeOK', PlaceInv', RowsKept, NEW r, Touches(r), NEW x \in Runs, x # r
  PROVE  runStatus'[x] = runStatus[x] /\ \A s \in Steps : ProgressOf(x, s)' = ProgressOf(x, s)
<1>1. /\ RowsOf(x)' = RowsOf(x) /\ \A k \in RowsOf(x) : stepRuns'[k] = stepRuns[k]
  BY UntouchedRuns, StepHands DEF Touches, RowsOf, RowsKept
<1>2. runStatus'[x] = runStatus[x] /\ currentStep'[x] = currentStep[x]
  BY DEF Touches
<1>3. ASSUME NEW s \in Steps PROVE ProgressOf(x, s)' = ProgressOf(x, s)
  <2>1. StepRunsOf(x, s) = {k \in RowsOf(x) : stepRuns[k].step = s}
    BY DEF StepRunsOf, RowsOf
  <2>2. StepRunsOf(x, s)' = {k \in RowsOf(x)' : stepRuns'[k].step = s}
    BY DEF StepRunsOf, RowsOf
  <2>3. StepRunsOf(x, s)' = StepRunsOf(x, s)
    BY <1>1, <2>1, <2>2
  <2>4. \A k \in StepRunsOf(x, s) : Shown(k)' = Shown(k)
    BY <1>1, <2>1 DEF Shown, Over
  <2>5. QED
    BY <1>2, <2>3, <2>4, SameProgress
<1>4. QED
  BY <1>2, <1>3

(* What changes of one run changes the pipeline there. *)
LEMMA OneRunMoves ==
  ASSUME NEW r \in Runs,
         \A x \in Runs \ {r} : /\ runStatus'[x] = runStatus[x]
                               /\ \A s \in Steps : ProgressOf(x, s)' = ProgressOf(x, s)
  PROVE  /\ Stage' = [Stage EXCEPT ![r] = StageOf[runStatus'[r]]]
         /\ runStatus'[r] = runStatus[r] => Stage' = Stage
         /\ \A s \in Steps :
              (\A t \in Steps \ {s} : ProgressOf(r, t)' = ProgressOf(r, t)) =>
                Progress' = [Progress EXCEPT ![r][s] = ProgressOf(r, s)']
         /\ (\A t \in Steps : ProgressOf(r, t)' = ProgressOf(r, t)) => Progress' = Progress
<1>1. Stage' = [Stage EXCEPT ![r] = StageOf[runStatus'[r]]]
  BY DEF Stage
<1>2. runStatus'[r] = runStatus[r] => Stage' = Stage
  BY DEF Stage
<1>3. ASSUME NEW s \in Steps, \A t \in Steps \ {s} : ProgressOf(r, t)' = ProgressOf(r, t)
      PROVE  Progress' = [Progress EXCEPT ![r][s] = ProgressOf(r, s)']
  <2>1. [t \in Steps |-> ProgressOf(r, t)'] =
          [[t \in Steps |-> ProgressOf(r, t)] EXCEPT ![s] = ProgressOf(r, s)']
    BY <1>3
  <2>2. \A x \in Runs \ {r} : [t \in Steps |-> ProgressOf(x, t)'] = [t \in Steps |-> ProgressOf(x, t)]
    OBVIOUS
  <2>3. QED
    BY ZenonT(30), <2>1, <2>2 DEF Progress
<1>4. ASSUME \A t \in Steps : ProgressOf(r, t)' = ProgressOf(r, t) PROVE Progress' = Progress
  BY <1>4 DEF Progress
<1>5. QED
  BY <1>1, <1>2, <1>3, <1>4

LEMMA LineStutters ==
  ASSUME Stage' = Stage, Progress' = Progress
  PROVE  UNCHANGED Line!vars
BY DEF Line!vars, Stage, Progress

LEMMA LineSubmits ==
  ASSUME NEW r \in Runs, Stage[r] = "absent", Stage' = [Stage EXCEPT ![r] = "waiting"], Progress' = Progress
  PROVE  Line!Next
<1>1. Line!Submit(r)
  BY DEF Line!Submit, Stage, Progress
<1>2. QED
  BY <1>1 DEF Line!Next

LEMMA LineBegins ==
  ASSUME NEW r \in Runs, NEW s \in Steps, Stage[r] \in {"waiting", "going"}, Progress[r][s] = "todo",
         \A t \in Steps : /\ Progress[r][t] # "doing"
                          /\ InitialOrder[t] < InitialOrder[s] => Line!Over(Progress[r], t),
         Stage' = [Stage EXCEPT ![r] = "going"],
         Progress' = [Progress EXCEPT ![r][s] = "doing"]
  PROVE  Line!Next
<1>1. Line!BeginStep(r, s)
  BY DEF Line!BeginStep, Stage, Progress
<1>2. QED
  BY <1>1 DEF Line!Next

LEMMA LineEndsStep ==
  ASSUME NEW r \in Runs, NEW s \in Steps, Stage[r] = "going", Progress[r][s] = "doing",
         NEW o \in {"success", "failed"}, Progress' = [Progress EXCEPT ![r][s] = o],
         NEW st \in Line!Verdict(Progress'[r]), Stage' = [Stage EXCEPT ![r] = st]
  PROVE  Line!Next
<1>1. Line!EndStep(r, s)
  BY DEF Line!EndStep, Stage, Progress
<1>2. QED
  BY <1>1 DEF Line!Next

LEMMA LineEnds ==
  ASSUME NEW r \in Runs, Stage[r] = "going", Progress' = Progress,
         NEW st \in Line!Verdict(Progress[r]), Stage' = [Stage EXCEPT ![r] = st]
  PROVE  Line!Next
<1>1. Line!End(r)
  BY DEF Line!End, Stage, Progress
<1>2. QED
  BY <1>1 DEF Line!Next

-----------------------------------------------------------------------------
(* A step of an agent is a step of the pipeline, or none.                  *)

LEMMA EarliestIsThere ==
  ASSUME order \in [Steps -> Nat], NEW S \in SUBSET Steps, S # {}
  PROVE  Earliest(S) # {}
<1>1. IsFiniteSet(S)
  BY FS_Subset DEF WorkflowAssumption
<1>2. PICK f \in [S -> Int] : \A x \in S : f[x] = -order[x]
  <2>1. [x \in S |-> -order[x]] \in [S -> Int]
    OBVIOUS
  <2>2. QED
    BY <2>1
<1>3. PICK x \in S : \A y \in S : f[y] <= f[x]
  BY <1>1, FiniteMax
<1>4. ASSUME NEW y \in S PROVE order[x] <= order[y]
  <2>1. f[y] = -order[y] /\ f[x] = -order[x] /\ f[y] <= f[x] /\ order[x] \in Nat /\ order[y] \in Nat
    BY <1>2, <1>3
  <2>2. QED
    BY <2>1
<1>5. QED
  BY <1>4 DEF Earliest

LEMMA Unmoved ==
  ASSUME AllInv, AllInv', UNCHANGED <<runVars, stepRuns>>
  PROVE  UNCHANGED Line!vars
<1>1. TypeOK /\ TypeOK' /\ PlaceInv /\ PlaceInv'
  BY DEF AllInv, FlowInv
<1>2. UNCHANGED <<runStatus, currentStep>>
  BY DEF runVars
<1>3. ASSUME NEW r \in Runs, NEW s \in Steps PROVE ProgressOf(r, s)' = ProgressOf(r, s)
  BY <1>1, <1>2, SameProgress DEF StepRunsOf, Shown, Over
<1>4. Stage' = Stage /\ Progress' = Progress
  BY <1>2, <1>3 DEF Stage, Progress
<1>5. QED
  BY <1>4, LineStutters

LEMMA RunMoves ==
  ASSUME AllInv, AllInv', RowsKept, NEW p \in Agents, Acts(p), Busy(p)
  PROVE  /\ at[p].run \in Runs /\ at[p].step \in Steps
         /\ \A x \in Runs \ {at[p].run} : /\ runStatus'[x] = runStatus[x]
                                          /\ \A s \in Steps : ProgressOf(x, s)' = ProgressOf(x, s)
<1>1. TypeOK /\ TypeOK' /\ PlaceInv /\ PlaceInv' /\ HandInv /\ gitFailures' = 0
  BY DEF AllInv, FlowInv
<1>2. at[p].run \in Runs /\ at[p].step \in Steps
  BY <1>1, Hand DEF Busy
<1>3. PICK r \in Runs \union {NoRun} : Touches(r) /\ (r = NoRun \/ at[p].run = r)
  BY <1>1, ActsTouches DEF Busy
<1>4. \A x \in Runs \ {at[p].run} : x # r
  BY <1>3 DEF WorkflowAssumption
<1>5. QED
  BY <1>1, <1>2, <1>3, <1>4, OtherProgress

(* What a row of a run about to act says of the run's progress.            *)
LEMMA RowsShow ==
  ASSUME AllInv, NEW r \in Runs, NEW s \in Steps, NEW k \in DOMAIN stepRuns, stepRuns[k].run = r,
         stepRuns[k].step = s
  PROVE  Progress[r][s] = Shown(k)
<1>1. TypeOK /\ PlaceInv /\ k \in StepRunsOf(r, s)
  BY DEF AllInv, FlowInv, StepRunsOf
<1>2. QED
  BY <1>1, ProgressIs DEF Progress

LEMMA SettledIsOver ==
  ASSUME AllInv, NEW r \in Runs, NEW s \in Steps, Settled(r, s)
  PROVE  Line!Over(Progress[r], s) /\ Progress[r][s] \in {"success", "failed"}
         /\ ~(Progress[r][s] = "failed" /\ OnFailure[s] = "stop")
<1>1. PICK k \in DOMAIN stepRuns : Settles(k, r, s)
  BY DEF Settled
<1>2. Progress[r][s] = Shown(k)
  BY <1>1, RowsShow DEF Settles
<1>3. \/ Shown(k) = "success"
      \/ Shown(k) = "failed" /\ OnFailure[s] = "continue"
  BY <1>1 DEF Settles, Shown, Over
<1>4. QED
  BY <1>2, <1>3 DEF Line!Over

(* The first commit of _start_step begins the step. *)
LEMMA StartBegins ==
  ASSUME AllInv, AllInv', FixedSteps, RowsKept, NEW p \in Agents, Acts(p), pc[p] = "start",
         WriteRun(p), UNCHANGED stepRuns
  PROVE  Line!Next
<1>0. /\ TypeOK /\ TypeOK' /\ PlaceInv /\ PlaceInv' /\ HandOf(p) /\ OwnOf(p) /\ StartOf(p)
      /\ Busy(p) /\ After(at[p].run, at[p].step)
  BY DEF AllInv, FlowInv, HandInv, OwnInv, OnceInv, OrderInv, Busy
<1>1. PICK r \in Runs, s \in Steps : r = at[p].run /\ s = at[p].step
  BY <1>0, RunMoves
<1>2. /\ StepRunsOf(r, s) = {} /\ order = InitialOrder /\ Present = Steps /\ order \in [Steps -> Nat]
  BY <1>1, NoRowYet, StepsAreThere
<1>3. runStatus'[r] = "running" /\ currentStep'[r] = s
  BY <1>0, <1>1 DEF WriteRun, TypeOK
<1>4. /\ runStatus[r] \in {"queued", "running"}
      /\ currentStep[r] # s
      /\ currentStep[r] \in Steps => StepRunsOf(r, currentStep[r]) # {}
  <2>1. CASE runStatus[r] = "running"
    <3>1. StepRunsOf(r, currentStep[r]) # {} /\ order[currentStep[r]] < order[s]
      BY <1>0, <1>1, <1>2, <2>1 DEF StartOf
    <3>2. currentStep[r] # s
      BY <1>2, <3>1
    <3>3. QED
      BY <2>1, <3>1, <3>2
  <2>2. CASE runStatus[r] = "queued"
    BY <2>2 DEF AllInv, FlowInv, RunInv, RunOf, Pending, WorkflowAssumption
  <2>3. QED
    BY <1>0, <1>1, <2>1, <2>2 DEF OwnOf
<1>5. \A t \in Steps : StepRunsOf(r, t)' = StepRunsOf(r, t) /\ \A k \in StepRunsOf(r, t) : Shown(k)' = Shown(k)
  BY DEF StepRunsOf, Shown, Over
<1>6. ASSUME NEW t \in Steps \ {s} PROVE ProgressOf(r, t)' = ProgressOf(r, t)
  BY <1>0, <1>3, <1>4, <1>5, SameProgress
<1>7. ProgressOf(r, s)' = "doing"
  BY <1>0, <1>2, <1>3, <1>5, ProgressIsNext
<1>8. Progress[r][s] = "todo"
  BY <1>0, <1>2, <1>4, ProgressIs DEF Progress
<1>9. ASSUME NEW t \in Steps PROVE Progress[r][t] # "doing"
  <2>1. CASE StepRunsOf(r, t) = {}
    BY <1>0, <1>4, <2>1, ProgressIs DEF Progress
  <2>2. ASSUME NEW k \in StepRunsOf(r, t) PROVE Progress[r][t] # "doing"
    <3>1. Over(k)
      BY <1>0, <1>1 DEF OwnOf, StepRunsOf, RowsOf
    <3>2. Progress[r][t] = Shown(k)
      BY RowsShow DEF StepRunsOf
    <3>3. QED
      BY <3>1, <3>2 DEF Shown, Over
  <2>3. QED
    BY <2>1, <2>2
<1>10. ASSUME NEW t \in Steps, InitialOrder[t] < InitialOrder[s] PROVE Line!Over(Progress[r], t)
  <2>1. Settled(r, t)
    BY <1>0, <1>1, <1>2, <1>10 DEF After
  <2>2. QED
    BY <2>1, SettledIsOver
<1>11. /\ Stage' = [Stage EXCEPT ![r] = StageOf[runStatus'[r]]]
       /\ Progress' = [Progress EXCEPT ![r][s] = ProgressOf(r, s)']
  BY <1>0, <1>1, <1>6, RunMoves, OneRunMoves
<1>12. Stage[r] \in {"waiting", "going"} /\ StageOf[runStatus'[r]] = "going"
  BY <1>3, <1>4, StageNames DEF Stage
<1>13. Stage' = [Stage EXCEPT ![r] = "going"] /\ Progress' = [Progress EXCEPT ![r][s] = "doing"]
  BY <1>7, <1>11, <1>12
<1>14. QED
  BY <1>8, <1>9, <1>10, <1>12, <1>13, LineBegins

(* A new step run, or a new status of one, moves its step only. *)
LEMMA RowAdded ==
  ASSUME AllInv, AllInv', RowsKept, NEW r \in Runs, NEW s \in Steps, NEW st, NEW j, AddsRow(r, s, st, j),
         StepRunsOf(r, s) = {}, currentStep[r] = s, UNCHANGED currentStep
  PROVE  /\ \A t \in Steps \ {s} : ProgressOf(r, t)' = ProgressOf(r, t)
         /\ ProgressOf(r, s) = "doing"
         /\ ProgressOf(r, s)' = IF st \in {"success", "failed"} THEN st ELSE "doing"
<1>0. TypeOK /\ TypeOK' /\ PlaceInv /\ PlaceInv'
  BY DEF AllInv, FlowInv
<1>1. PICK n : n = Len(stepRuns) + 1
  OBVIOUS
<1>2. /\ n \notin DOMAIN stepRuns /\ DOMAIN stepRuns' = DOMAIN stepRuns \union {n}
      /\ stepRuns'[n].run = r /\ stepRuns'[n].step = s /\ stepRuns'[n].status = st
      /\ \A k \in DOMAIN stepRuns : stepRuns'[k] = stepRuns[k]
  BY <1>1 DEF AddsRow
<1>3. ASSUME NEW t \in Steps \ {s} PROVE ProgressOf(r, t)' = ProgressOf(r, t)
  <2>1. StepRunsOf(r, t)' = StepRunsOf(r, t)
    BY <1>2 DEF StepRunsOf
  <2>2. \A k \in StepRunsOf(r, t) : Shown(k)' = Shown(k)
    BY <1>2 DEF Shown, Over, StepRunsOf
  <2>3. QED
    BY <1>0, <2>1, <2>2, SameProgress
<1>4. ProgressOf(r, s) = "doing"
  BY <1>0, ProgressIs
<1>5. ProgressOf(r, s)' = Shown(n)'
  <2>1. n \in StepRunsOf(r, s)'
    BY <1>2 DEF StepRunsOf
  <2>2. QED
    BY <1>0, <2>1, ProgressIsNext
<1>6. QED
  BY <1>2, <1>3, <1>4, <1>5 DEF Shown, Over

LEMMA RowSet ==
  ASSUME AllInv, AllInv', RowsKept, NEW r \in Runs, NEW s \in Steps, NEW e, NEW st, NEW j, SetsRow(e, st, j),
         stepRuns[e].run = r, stepRuns[e].step = s, UNCHANGED currentStep
  PROVE  /\ \A t \in Steps \ {s} : ProgressOf(r, t)' = ProgressOf(r, t)
         /\ ProgressOf(r, s) = Shown(e)
         /\ ProgressOf(r, s)' = IF st \in {"success", "failed"} THEN st ELSE "doing"
<1>0. TypeOK /\ TypeOK' /\ PlaceInv /\ PlaceInv'
  BY DEF AllInv, FlowInv
<1>2. /\ e \in DOMAIN stepRuns /\ DOMAIN stepRuns' = DOMAIN stepRuns
      /\ stepRuns'[e].run = r /\ stepRuns'[e].step = s /\ stepRuns'[e].status = st
      /\ \A k \in DOMAIN stepRuns : k # e => stepRuns'[k] = stepRuns[k]
  BY DEF SetsRow
<1>3. ASSUME NEW t \in Steps \ {s} PROVE ProgressOf(r, t)' = ProgressOf(r, t)
  <2>1. StepRunsOf(r, t)' = StepRunsOf(r, t)
    BY <1>2 DEF StepRunsOf
  <2>2. \A k \in StepRunsOf(r, t) : Shown(k)' = Shown(k)
    BY <1>2 DEF Shown, Over, StepRunsOf
  <2>3. QED
    BY <1>0, <2>1, <2>2, SameProgress
<1>4. ProgressOf(r, s) = Shown(e)
  <2>1. e \in StepRunsOf(r, s)
    BY <1>2 DEF StepRunsOf
  <2>2. QED
    BY <1>0, <2>1, ProgressIs
<1>5. ProgressOf(r, s)' = Shown(e)'
  <2>1. e \in StepRunsOf(r, s)'
    BY <1>2 DEF StepRunsOf
  <2>2. QED
    BY <1>0, <2>1, ProgressIsNext
<1>6. QED
  BY <1>2, <1>3, <1>4, <1>5 DEF Shown, Over

(* The step run of a started step, and the batch bound to a reviewed one.  *)
LEMMA RowsThatGoOn ==
  ASSUME AllInv, AllInv', FixedSteps, RowsKept, NEW p \in Agents, Acts(p),
         AwaitReview(p) \/ InsertStepRun(p) \/ (p \in Reviewers /\ BindBatch(p))
  PROVE  UNCHANGED Line!vars
<1>0. TypeOK /\ HandInv /\ OwnOf(p) /\ WatchOf(p) /\ Busy(p)
  BY DEF AllInv, FlowInv, OwnInv, WatchInv, Busy, AwaitReview, InsertStepRun, BindBatch
<1>1. PICK r \in Runs, s \in Steps : r = at[p].run /\ s = at[p].step
  BY <1>0, RunMoves
<1>2. /\ UNCHANGED <<runStatus, currentStep>>
      /\ pc[p] \in {"prefilled", "started", "approved"}
      /\ pc[p] = "approved" => p \in Reviewers /\ BindBatch(p)
      /\ pc[p] # "approved" => AwaitReview(p) \/ InsertStepRun(p)
  BY DEF AwaitReview, InsertStepRun, BindBatch, runVars
<1>3. \A t \in Steps : ProgressOf(r, t)' = ProgressOf(r, t)
  <2>1. CASE AwaitReview(p) \/ InsertStepRun(p)
    <3>1. PICK st, j : st \notin {"success", "failed"} /\ AddsRow(r, s, st, j)
      BY <1>0, <1>1, <2>1, AwaitReviewDoes, InsertStepRunDoes
    <3>2. StepRunsOf(r, s) = {} /\ currentStep[r] = s
      BY <1>0, <1>1, <1>2, <2>1, NoRowYet DEF OwnOf, AwaitReview, InsertStepRun
    <3>3. QED
      BY <1>2, <3>1, <3>2, RowAdded
  <2>2. CASE p \in Reviewers /\ BindBatch(p)
    <3>1. SetsRow(at[p].entry, "running", at[p].job)
      BY <1>0, <2>2, BindBatchDoes
    <3>2. /\ stepRuns[at[p].entry].run = r /\ stepRuns[at[p].entry].step = s
          /\ pc[p] = "approved"
      BY <1>0, <1>1, <2>2, Hand DEF BindBatch
    <3>3. Shown(at[p].entry) = "doing"
      BY <1>0, <3>2 DEF WatchOf, Shown, Over
    <3>4. QED
      BY <1>2, <3>1, <3>2, <3>3, RowSet
  <2>3. QED
    BY <2>1, <2>2
<1>4. Stage' = Stage /\ Progress' = Progress
  BY <1>1, <1>0, <1>2, <1>3, RunMoves, OneRunMoves
<1>5. QED
  BY <1>4, LineStutters

(* The outcome of a job, or a rejection, ends the step. *)
LEMMA OutcomeEnds ==
  ASSUME AllInv, AllInv', RowsKept, NEW p \in Agents, Acts(p),
         (p \in Procs /\ CommitOutcome(p)) \/ (p \in Reviewers /\ Reject(p))
  PROVE  Line!Next
<1>0. TypeOK /\ HandInv /\ OwnOf(p) /\ WatchOf(p) /\ Busy(p) /\ pc[p] \in {"checked", "reviewing"}
  BY DEF AllInv, FlowInv, OwnInv, WatchInv, Busy, CommitOutcome, Reject
<1>1. PICK r \in Runs, s \in Steps : r = at[p].run /\ s = at[p].step
  BY <1>0, RunMoves
<1>2. UNCHANGED <<runStatus, currentStep>> /\ runStatus[r] = "running"
  BY <1>0, <1>1 DEF CommitOutcome, Reject, runVars, OwnOf
<1>3. PICK o \in {"success", "failed"} : \E j : SetsRow(at[p].entry, o, j)
  <2>1. CASE p \in Procs /\ CommitOutcome(p)
    <3>1. SetsRow(at[p].entry, Outcome(at[p].ok), stepRuns[at[p].entry].job)
      BY <1>0, <2>1, CommitOutcomeDoes
    <3>2. Outcome(at[p].ok) \in {"success", "failed"}
      BY DEF Outcome
    <3>3. QED
      BY <3>1, <3>2
  <2>2. CASE p \in Reviewers /\ Reject(p)
    BY <1>0, <2>2, RejectDoes
  <2>3. QED
    BY <2>1, <2>2
<1>4. PICK e, j : /\ SetsRow(e, o, j) /\ stepRuns[e].run = r /\ stepRuns[e].step = s
                  /\ Shown(e) = "doing"
  BY <1>0, <1>1, <1>3, Hand DEF WatchOf, Shown, Over
<1>5. /\ \A t \in Steps \ {s} : ProgressOf(r, t)' = ProgressOf(r, t)
      /\ ProgressOf(r, s) = "doing" /\ ProgressOf(r, s)' = o
  BY <1>2, <1>3, <1>4, RowSet
<1>6. Stage' = Stage /\ Progress' = [Progress EXCEPT ![r][s] = o]
  BY <1>0, <1>1, <1>2, <1>5, RunMoves, OneRunMoves
<1>7. Stage[r] = "going" /\ Stage \in [Runs -> {Stage[x] : x \in Runs}]
  BY <1>2, StageNames DEF Stage
<1>8. Progress[r][s] = "doing"
  BY <1>5 DEF Progress
<1>9. Stage' = [Stage EXCEPT ![r] = "going"]
  BY <1>6, <1>7
<1>10. "going" \in Line!Verdict(Progress'[r])
  BY DEF Line!Verdict
<1>11. QED
  BY <1>6, <1>7, <1>8, <1>9, <1>10, LineEndsStep

LEMMA Verdicts ==
  ASSUME NEW o
  PROVE  /\ "going" \in Line!Verdict(o)
         /\ (\E s \in Steps : o[s] = "failed" /\ OnFailure[s] = "stop") => "failed" \in Line!Verdict(o)
         /\ (\A s \in Steps : o[s] \in {"success", "failed"} /\ ~(o[s] = "failed" /\ OnFailure[s] = "stop")) =>
              /\ (\A s \in Steps : o[s] = "success") => "success" \in Line!Verdict(o)
              /\ (\E s \in Steps : o[s] # "success") => "completed_with_failures" \in Line!Verdict(o)
BY DEF Line!Verdict, Line!Stopped, Line!Complete

(* When there is no next step, all the others are over. *)
LEMMA OthersSettled ==
  ASSUME AllInv, FixedSteps, NEW p \in Agents, Busy(p), NEW s \in Steps, s = at[p].step, NextSteps(s) = {}
  PROVE  \A t \in Steps \ {s} : Settled(at[p].run, t)
<1>1. /\ Present = Steps /\ order = InitialOrder /\ order \in [Steps -> Nat]
      /\ \A t \in Steps : InitialOrder[t] > 0
  BY StepsAreThere DEF FixedSteps
<1>2. ASSUME NEW t \in Steps \ {s} PROVE order[t] < order[s]
  <2>1. {x \in Present : order[x] > order[s]} = {}
    <3>1. {x \in Present : order[x] > order[s]} \in SUBSET Steps
      BY <1>1
    <3>2. QED
      BY <1>1, <3>1, EarliestIsThere DEF NextSteps
  <2>2. ~(order[t] > order[s])
    BY <1>1, <2>1
  <2>3. order[t] # order[s]
    BY <1>1 DEF FixedSteps, DistinctOrders
  <2>4. order[t] \in Nat /\ order[s] \in Nat
    BY <1>1
  <2>5. QED
    BY <2>2, <2>3, <2>4
<1>3. After(at[p].run, s)
  BY DEF AllInv, OrderInv
<1>4. QED
  BY <1>1, <1>2, <1>3 DEF After

(* _fail_step ends the step as failed, and the run with it or not. *)
LEMMA FailureEnds ==
  ASSUME AllInv, AllInv', FixedSteps, RowsKept, NEW p \in Agents, Acts(p), FailStep(p)
  PROVE  Line!Next
<1>0. TypeOK /\ HandInv /\ OwnOf(p) /\ Busy(p) /\ pc[p] = "failing" /\ FinishStep(p, FALSE)
  BY DEF AllInv, FlowInv, OwnInv, Busy, FailStep
<1>1. PICK r \in Runs, s \in Steps : r = at[p].run /\ s = at[p].step
  BY <1>0, RunMoves
<1>2. /\ UNCHANGED currentStep
      /\ \/ Stops(s, FALSE) /\ EndsRun(p, "failed")
         \/ ~Stops(s, FALSE) /\ NextSteps(s) = {} /\ EndsRun(p, "completed_with_failures")
         \/ ~Stops(s, FALSE) /\ UNCHANGED runStatus
  <2>1. FinalStatus(~FALSE \/ r \in hasFailed) = "completed_with_failures"
    BY DEF FinalStatus
  <2>2. QED
    BY <1>0, <1>1, <2>1, FinishDoes DEF GoesOn
<1>3. runStatus[r] = "running" /\ currentStep[r] = s
  BY <1>0, <1>1 DEF OwnOf
<1>4. AddsRow(r, s, "failed", 0) /\ StepRunsOf(r, s) = {}
  BY <1>0, <1>1, FailStepDoes, NoRowYet
<1>5. /\ \A t \in Steps \ {s} : ProgressOf(r, t)' = ProgressOf(r, t)
      /\ ProgressOf(r, s) = "doing" /\ ProgressOf(r, s)' = "failed"
  BY <1>2, <1>3, <1>4, RowAdded
<1>6. /\ Progress' = [Progress EXCEPT ![r][s] = "failed"]
      /\ Stage' = [Stage EXCEPT ![r] = StageOf[runStatus'[r]]]
  BY <1>0, <1>1, <1>5, RunMoves, OneRunMoves
<1>7. Stage[r] = "going" /\ Progress[r][s] = "doing"
  BY <1>3, <1>5, StageNames DEF Stage, Progress
<1>8. Progress'[r][s] = "failed" /\ \A t \in Steps \ {s} : Progress'[r][t] = Progress[r][t]
  BY <1>5 DEF Progress
<1>9. ASSUME NEW st \in Ended, EndsRun(p, st) PROVE runStatus'[r] = st
  BY <1>0, <1>1, <1>9 DEF EndsRun, TypeOK
<1>10. StageOf[runStatus'[r]] \in Line!Verdict(Progress'[r])
  <2>1. CASE Stops(s, FALSE) /\ EndsRun(p, "failed")
    <3>1. StageOf[runStatus'[r]] = "failed"
      BY <1>9, <2>1, StageNames DEF Ended
    <3>2. OnFailure[s] = "stop"
      BY <2>1 DEF Stops
    <3>3. QED
      BY <1>8, <3>1, <3>2, Verdicts
  <2>2. CASE ~Stops(s, FALSE) /\ NextSteps(s) = {} /\ EndsRun(p, "completed_with_failures")
    <3>1. StageOf[runStatus'[r]] = "completed_with_failures"
      BY <1>9, <2>2, StageNames DEF Ended
    <3>2. \A t \in Steps \ {s} : /\ Progress[r][t] \in {"success", "failed"}
                                 /\ ~(Progress[r][t] = "failed" /\ OnFailure[t] = "stop")
      BY <1>0, <1>1, <2>2, OthersSettled, SettledIsOver
    <3>3. OnFailure[s] # "stop"
      BY <2>2 DEF Stops
    <3>4. \A t \in Steps : /\ Progress'[r][t] \in {"success", "failed"}
                           /\ ~(Progress'[r][t] = "failed" /\ OnFailure[t] = "stop")
      BY <1>8, <3>2, <3>3
    <3>5. Progress'[r][s] # "success"
      BY <1>8
    <3>6. QED
      BY <3>1, <3>4, <3>5, Verdicts
  <2>3. CASE ~Stops(s, FALSE) /\ UNCHANGED runStatus
    <3>1. StageOf[runStatus'[r]] = "going"
      BY <1>3, <2>3, StageNames
    <3>2. QED
      BY <3>1, Verdicts
  <2>4. QED
    BY <1>2, <2>1, <2>2, <2>3
<1>11. QED
  BY <1>6, <1>7, <1>10, LineEndsStep

(* finish_step ends the run with the verdict of its steps, or goes on. *)
LEMMA FinishEnds ==
  ASSUME AllInv, AllInv', FixedSteps, RowsKept, NEW p \in Agents, Acts(p), FinishCurrentStep(p)
  PROVE  Line!Next \/ UNCHANGED Line!vars
<1>0. /\ TypeOK /\ TypeOK' /\ PlaceInv /\ PlaceInv' /\ HandInv /\ OwnOf(p) /\ WatchOf(p) /\ WorkOf(p)
      /\ Busy(p) /\ pc[p] = "finish" /\ FinishStep(p, at[p].ok) /\ UNCHANGED stepRuns
  BY DEF AllInv, FlowInv, OwnInv, WatchInv, HistoryInv, Busy, FinishCurrentStep
<1>1. PICK r \in Runs, s \in Steps, ok \in BOOLEAN, e \in DOMAIN stepRuns :
        r = at[p].run /\ s = at[p].step /\ ok = at[p].ok /\ e = at[p].entry
  BY <1>0, RunMoves, Hand
<1>2. /\ UNCHANGED currentStep
      /\ \/ Stops(s, ok) /\ EndsRun(p, "failed")
         \/ ~Stops(s, ok) /\ NextSteps(s) = {} /\ EndsRun(p, FinalStatus(~ok \/ r \in hasFailed))
         \/ UNCHANGED runStatus
  BY <1>0, <1>1, FinishDoes DEF GoesOn
<1>3. runStatus[r] = "running" /\ stepRuns[e].run = r /\ stepRuns[e].step = s
  BY <1>0, <1>1, Hand DEF OwnOf
<1>4. \A t \in Steps : ProgressOf(r, t)' = ProgressOf(r, t)
  BY <1>0, <1>2, SameProgress DEF StepRunsOf, Shown, Over
<1>5. /\ Progress' = Progress
      /\ Stage' = [Stage EXCEPT ![r] = StageOf[runStatus'[r]]]
      /\ runStatus'[r] = runStatus[r] => Stage' = Stage
  BY <1>0, <1>1, <1>4, RunMoves, OneRunMoves
<1>6. Stage[r] = "going"
  BY <1>3, StageNames DEF Stage
<1>7. Progress[r][s] = Outcome(ok)
  <2>1. stepRuns[e].status = Outcome(ok)
    BY <1>0, <1>1 DEF WatchOf
  <2>2. Outcome(ok) \in {"success", "failed"}
    BY DEF Outcome
  <2>3. Progress[r][s] = Shown(e)
    BY <1>3, RowsShow
  <2>4. QED
    BY <2>1, <2>2, <2>3 DEF Shown, Over
<1>8. ASSUME NEW st \in Ended, EndsRun(p, st) PROVE runStatus'[r] = st
  BY <1>0, <1>1, <1>8 DEF EndsRun, TypeOK
<1>9. CASE Stops(s, ok) /\ EndsRun(p, "failed")
  <2>1. StageOf[runStatus'[r]] = "failed"
    BY <1>8, <1>9, StageNames DEF Ended
  <2>2. OnFailure[s] = "stop" /\ Progress[r][s] = "failed"
    BY <1>7, <1>9 DEF Stops, Outcome
  <2>3. "failed" \in Line!Verdict(Progress[r])
    BY <2>2, Verdicts
  <2>4. QED
    BY <1>5, <1>6, <2>1, <2>3, LineEnds
<1>10. CASE ~Stops(s, ok) /\ NextSteps(s) = {} /\ EndsRun(p, FinalStatus(~ok \/ r \in hasFailed))
  <2>1. \A t \in Steps \ {s} : /\ Progress[r][t] \in {"success", "failed"}
                               /\ ~(Progress[r][t] = "failed" /\ OnFailure[t] = "stop")
    BY <1>0, <1>1, <1>10, OthersSettled, SettledIsOver
  <2>2. /\ Progress[r][s] \in {"success", "failed"}
        /\ ~(Progress[r][s] = "failed" /\ OnFailure[s] = "stop")
    BY <1>7, <1>10 DEF Stops, Outcome
  <2>3. FlagOf(r, Uncounted(p))
    BY <1>0, <1>1 DEF WorkOf
  <2>4. CASE ok /\ r \notin hasFailed
    <3>1. Uncounted(p) = 0 /\ 0 \notin DOMAIN stepRuns
      BY <1>0, <1>1, <2>4 DEF Uncounted, TypeOK
    <3>2. \A k \in RowsOf(r) : ~Failed(k)
      BY <2>3, <2>4, <3>1 DEF FlagOf, RowsOf
    <3>3. ASSUME NEW t \in Steps \ {s} PROVE Progress[r][t] = "success"
      <4>1. PICK k \in DOMAIN stepRuns : Settles(k, r, t)
        BY <1>0, <1>1, <1>10, OthersSettled DEF Settled
      <4>2. stepRuns[k].status = "success"
        BY <3>2, <4>1 DEF Settles, RowsOf, Failed
      <4>3. Progress[r][t] = Shown(k)
        BY <4>1, RowsShow DEF Settles
      <4>4. QED
        BY <4>2, <4>3 DEF Shown, Over
    <3>4. Progress[r][s] = "success"
      BY <1>7, <2>4 DEF Outcome
    <3>5. "success" \in Line!Verdict(Progress[r])
      BY <3>3, <3>4, Verdicts
    <3>6. StageOf[runStatus'[r]] = "success"
      <4>1. FinalStatus(~ok \/ r \in hasFailed) = "success"
        BY <2>4 DEF FinalStatus
      <4>2. QED
        BY <1>8, <1>10, <4>1, StageNames DEF Ended
    <3>7. QED
      BY <1>5, <1>6, <3>5, <3>6, LineEnds
  <2>5. CASE ~(ok /\ r \notin hasFailed)
    <3>1. \E t \in Steps : Progress[r][t] # "success"
      <4>1. CASE ~ok
        BY <1>7, <4>1 DEF Outcome
      <4>2. CASE ok /\ r \in hasFailed
        <5>1. PICK k \in RowsOf(r) : Failed(k)
          BY <2>3, <4>2 DEF FlagOf
        <5>2. PICK t \in Steps : t = stepRuns[k].step
          <6>1. stepRuns[k] \in StepRunRow
            BY SMTT(30), <1>0 DEF TypeOK, RowsOf
          <6>2. QED
            BY <6>1 DEF StepRunRow
        <5>3. Progress[r][t] = Shown(k)
          BY <5>2, RowsShow DEF RowsOf
        <5>4. Progress[r][t] = "failed"
          BY <5>1, <5>3 DEF Shown, Over, Failed
        <5>5. QED
          BY <5>4
      <4>3. QED
        BY <2>5, <4>1, <4>2
    <3>2. "completed_with_failures" \in Line!Verdict(Progress[r])
      BY <2>1, <2>2, <3>1, Verdicts
    <3>3. StageOf[runStatus'[r]] = "completed_with_failures"
      <4>1. FinalStatus(~ok \/ r \in hasFailed) = "completed_with_failures"
        BY <2>5 DEF FinalStatus
      <4>2. QED
        BY <1>8, <1>10, <4>1, StageNames DEF Ended
    <3>4. QED
      BY <1>5, <1>6, <3>2, <3>3, LineEnds
  <2>6. QED
    BY <2>4, <2>5
<1>11. CASE UNCHANGED runStatus
  BY <1>5, <1>11, LineStutters
<1>12. QED
  BY <1>2, <1>9, <1>10, <1>11

LEMMA ActsLine ==
  ASSUME AllInv, AllInv', FixedSteps, RowsKept, NEW p \in Agents, Acts(p)
  PROVE  Line!Next \/ UNCHANGED Line!vars
<1>0. TypeOK /\ TypeOK' /\ HandInv /\ gitFailures = 0 /\ gitFailures' = 0
  BY DEF AllInv, FlowInv
<1>1. CASE UNCHANGED <<runVars, stepRuns>>
  BY <1>1, Unmoved
<1>2. CASE pc[p] = "start" /\ WriteRun(p) /\ UNCHANGED stepRuns
  BY <1>2, StartBegins
<1>3. CASE AwaitReview(p) \/ InsertStepRun(p) \/ (p \in Reviewers /\ BindBatch(p))
  BY <1>3, RowsThatGoOn
<1>4. CASE (p \in Procs /\ CommitOutcome(p)) \/ (p \in Reviewers /\ Reject(p))
  BY <1>4, OutcomeEnds
<1>5. CASE FailStep(p)
  BY <1>5, FailureEnds
<1>6. CASE FinishCurrentStep(p)
  BY <1>6, FinishEnds
<1>7. ASSUME NEW r \in Runs, FinishWithoutSteps(p, r) PROVE FALSE
  <2>1. Present = Steps /\ order \in [Steps -> Nat] /\ Steps # {}
    BY StepsAreThere DEF FixedSteps
  <2>2. FirstSteps # {}
    BY <2>1, EarliestIsThere DEF FirstSteps
  <2>3. QED
    BY <1>7, <2>2 DEF FinishWithoutSteps
<1>8. ~PrefillRollsBack(p)
  BY <1>0 DEF PrefillRollsBack, TypeOK
<1>9. CannotStart(p) \/ Prefill(p) => pc[p] = "start" /\ WriteRun(p) /\ UNCHANGED stepRuns
  BY DEF CannotStart, Prefill
<1>10. EnqueueJob(p) => \/ pc[p] = "start" /\ WriteRun(p) /\ UNCHANGED stepRuns
                        \/ UNCHANGED <<runVars, stepRuns>>
  BY DEF EnqueueJob, runVars
<1>11. p \in Procs /\ Tick(p) =>
         \/ UNCHANGED <<runVars, stepRuns>>
         \/ CommitOutcome(p)
         \/ \E r \in Runs : FinishWithoutSteps(p, r)
  BY DEF Tick, ListQueued, TakeQueued, ListRunning, NothingToDecide, ReadOutcome, EndTick
<1>12. p \in Reviewers /\ Review(p) => UNCHANGED <<runVars, stepRuns>> \/ BindBatch(p) \/ Reject(p)
  BY DEF Review, OpenReview, CannotApprove, Approve
<1>13. StepVanished(p) \/ Abort(p) => UNCHANGED <<runVars, stepRuns>>
  BY DEF StepVanished, Abort
<1>14. QED
  BY <1>1, <1>2, <1>3, <1>4, <1>5, <1>6, <1>7, <1>8, <1>9, <1>10, <1>11, <1>12, <1>13 DEF Acts, Advance

LEMMA SystemLine ==
  ASSUME AllInv, AllInv', System
  PROVE  Line!Next \/ UNCHANGED Line!vars
<1>0. TypeOK /\ PlaceInv /\ TypeOK' /\ PlaceInv'
  BY DEF AllInv, FlowInv
<1>1. ASSUME NEW r \in Runs, EnqueueWorkflowRun(r) PROVE Line!Next
  <2>1. /\ runStatus[r] = "none" /\ runStatus' = [runStatus EXCEPT ![r] = "queued"]
        /\ UNCHANGED <<currentStep, stepRuns>>
    BY <1>1 DEF EnqueueWorkflowRun
  <2>2. \A x \in Runs, s \in Steps : ProgressOf(x, s)' = ProgressOf(x, s)
    BY <1>0, <2>1, SameProgress DEF StepRunsOf, Shown, Over
  <2>3. \A x \in Runs \ {r} : runStatus'[x] = runStatus[x]
    BY <1>0, <2>1 DEF TypeOK
  <2>4. runStatus'[r] = "queued"
    BY <1>0, <2>1 DEF TypeOK
  <2>5. Stage' = [Stage EXCEPT ![r] = "waiting"] /\ Progress' = Progress
    BY <2>2, <2>3, <2>4, OneRunMoves, StageNames
  <2>6. Stage[r] = "absent"
    BY <2>1, StageNames DEF Stage
  <2>7. QED
    BY <2>5, <2>6, LineSubmits
<1>2. (\E r \in Runs : EnqueueWorkflowRun(r)) \/ UNCHANGED <<runVars, stepRuns>>
  BY DEF System, vars, JobEnds, ReadNextOrder, AddStep, DeleteStep, ReorderSteps, Edit
<1>3. QED
  BY <1>1, <1>2, Unmoved

LEMMA StepAll ==
  ASSUME AllInv, Exclusive, OneReviewer, NoRollbacks, FixedSteps, [Next]_vars
  PROVE  AllInv'
<1>1. TypeOK /\ HandInv /\ LockInv /\ WatchInv
  BY DEF AllInv, FlowInv
<1>2. TypeOK'
  BY <1>1, StepHands
<1>3. gitFailures' = 0 /\ edits' = 0
  BY <1>2 DEF TypeOK, NoRollbacks, FixedSteps
<1>4. NoReordering
  BY StepsAreThere
<1>5. FlowInv' /\ HistoryInv'
  BY <1>3, StepFlow, StepHistory DEF AllInv
<1>6. OrderInv'
  BY <1>1, <1>3, StepOrder DEF AllInv, FixedSteps
<1>7. OnceInv'
  BY <1>3, <1>4, StepOnce DEF AllInv
<1>8. PlaceInv'
  BY <1>3, StepPlace
<1>9. QED
  BY <1>3, <1>5, <1>6, <1>7, <1>8 DEF AllInv

LEMMA InitAll ==
  ASSUME Init, FixedSteps
  PROVE  AllInv /\ Line!Init
<1>1. FlowInv /\ HistoryInv
  BY InitFlow, InitHistory
<1>2. OrderInv
  BY DEF Init, OrderInv, Busy
<1>3. OnceInv
  BY DEF Init, OnceInv, OnceOf, StartOf
<1>4. PlaceInv
  BY DEF Init, PlaceInv, StepRunsOf
<1>5. AllInv
  BY <1>1, <1>2, <1>3, <1>4 DEF AllInv, Init
<1>6. \A r \in Runs, s \in Steps : ProgressOf(r, s) = "todo"
  <2>1. \A r \in Runs, s \in Steps : StepRunsOf(r, s) = {} /\ currentStep[r] # s
    BY DEF Init, StepRunsOf, WorkflowAssumption
  <2>2. QED
    BY <1>1, <1>4, <2>1, ProgressIs DEF FlowInv
<1>7. \A r \in Runs : StageOf[runStatus[r]] = "absent"
  BY StageNames DEF Init
<1>8. Line!Init
  BY <1>6, <1>7 DEF Line!Init
<1>9. QED
  BY <1>5, <1>8

(* A run of a workflow whose steps stay as they are goes through them in   *)
(* their order, each once, and ends with the verdict of what they did,     *)
(* whatever is interleaved, fails or crashes meanwhile.                    *)
THEOREM RunsArePipelines ==
  ASSUME Exclusive, OneReviewer, NoRollbacks, FixedSteps
  PROVE  Spec => ImplementsPipeline
<1>1. Init => AllInv /\ Line!Init
  BY InitAll
<1>2. AllInv /\ [Next]_vars => AllInv'
  BY StepAll
<1>3. AllInv /\ AllInv' /\ [Next]_vars => [Line!Next]_(Line!vars)
  <2>1. ASSUME AllInv, AllInv', [Next]_vars PROVE Line!Next \/ UNCHANGED Line!vars
    <3>1. RowsKept
      BY <2>1, RowsAreKept DEF AllInv, FlowInv
    <3>2. QED
      BY <2>1, <3>1, ActsLine, SystemLine, StepCases
  <2>2. QED
    BY <2>1
<1>4. QED
  BY <1>1, <1>2, <1>3, PTL DEF Spec, ImplementsPipeline, Line!Spec
=============================================================================
