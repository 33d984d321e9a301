---------------------------- MODULE WorkflowProofs ----------------------------
(* Theorems about Workflow, for every workflow, every fleet of worker      *)
(* processes and every bound.                                              *)
EXTENDS Workflow, FiniteSetTheorems, TLAPS

USE WorkflowAssumption

-----------------------------------------------------------------------------
(* A finite set has an element at which a function on it is largest.       *)
LEMMA FiniteMax ==
  ASSUME NEW S, IsFiniteSet(S), S # {}, NEW f \in [S -> Int]
  PROVE  \E x \in S : \A y \in S : f[y] <= f[x]
<1> SUFFICES ASSUME ~ \E x \in S : \A y \in S : f[y] <= f[x] PROVE FALSE
  OBVIOUS
<1> DEFINE Unbounded == {T \in SUBSET S : T # {} /\ \A x \in T : \E y \in T : f[x] < f[y]}
<1>1. S \in Unbounded
  OBVIOUS
<1>2. IsWellFoundedOn(StrictSubsetOrdering(S), SUBSET S)
  <2>1. FiniteSubsetsOf(S) = SUBSET S
    BY FS_FiniteSubsetsOfFinite
  <2>2. IsWellFoundedOn(StrictSubsetOrdering(S), FiniteSubsetsOf(S))
    BY FS_StrictSubsetOrderingWellFounded
  <2>3. QED
    BY <2>1, <2>2
<1>3. PICK T \in Unbounded : \A U \in Unbounded : ~ (<<U, T>> \in StrictSubsetOrdering(S))
  <2>1. Unbounded \subseteq SUBSET S /\ Unbounded # {}
    BY <1>1
  <2> HIDE DEF Unbounded
  <2>2. QED
    BY <1>2, <2>1, WFMin
<1>4. PICK x \in T : TRUE
  OBVIOUS
<1> DEFINE U == T \ {x}
<1>5. U # {}
  BY <1>4
<1>6. \A u \in U : \E v \in U : f[u] < f[v]
  <2> TAKE u \in U
  <2>1. PICK v \in T : f[u] < f[v]
    OBVIOUS
  <2>2. PICK w \in T : f[v] < f[w]
    OBVIOUS
  <2>3. f[u] \in Int /\ f[v] \in Int /\ f[w] \in Int
    OBVIOUS
  <2>4. CASE v # x
    BY <2>1, <2>4
  <2>5. CASE v = x
    BY <2>1, <2>2, <2>3, <2>5
  <2>6. QED
    BY <2>4, <2>5
<1>7. U \in Unbounded
  BY <1>5, <1>6
<1>8. <<U, T>> \in StrictSubsetOrdering(S)
  <2>1. T \in SUBSET S /\ U \in SUBSET S /\ U \subseteq T /\ U # T
    BY <1>4
  <2>2. IsFiniteSet(T) /\ IsFiniteSet(U)
    BY <2>1, FS_Subset
  <2>3. QED
    BY <2>1, <2>2 DEF StrictSubsetOrdering, FiniteSubsetsOf
<1>9. QED
  BY <1>3, <1>7, <1>8

(* The next order is above those of the steps there are. *)
LEMMA NextOrderType ==
  ASSUME order \in [Steps -> Nat]
  PROVE  NextStepOrder \in Nat \ {0} /\ \A s \in Present : order[s] < NextStepOrder
<1> DEFINE C == {1} \union {order[s] + 1 : s \in Present}
<1>1. \E n \in C : \A s \in Present : order[s] < n
  <2>1. CASE Present = {}
    BY <2>1
  <2>2. CASE Present # {}
    <3> DEFINE f == [s \in Present |-> order[s]]
    <3>1. IsFiniteSet(Present)
      BY FS_Subset DEF Present, WorkflowAssumption
    <3>2. f \in [Present -> Int]
      BY DEF Present
    <3>3. PICK s \in Present : \A t \in Present : f[t] <= f[s]
      <4> HIDE DEF f
      <4>1. QED
        BY <2>2, <3>1, <3>2, FiniteMax
    <3>4. order[s] + 1 \in C /\ \A t \in Present : order[t] < order[s] + 1
      BY <3>3 DEF Present
    <3>5. QED
      BY <3>4
  <2>3. QED
    BY <2>1, <2>2
<1>2. NextStepOrder \in C /\ \A s \in Present : order[s] < NextStepOrder
  BY <1>1 DEF NextStepOrder
<1>3. C \subseteq Nat \ {0}
  BY DEF Present
<1>4. QED
  BY <1>2, <1>3

(* The latest step run of the current step is one of the run's. *)
LEMMA CurrentRow ==
  ASSUME stepRuns \in Seq(StepRunRow), NEW r \in Runs, CurrentStepRun(r) # 0
  PROVE  /\ CurrentStepRun(r) \in DOMAIN stepRuns
         /\ stepRuns[CurrentStepRun(r)].run = r
         /\ stepRuns[CurrentStepRun(r)].step = currentStep[r]
<1> DEFINE Own == {k \in DOMAIN stepRuns : stepRuns[k].run = r /\ stepRuns[k].step = currentStep[r]}
           f == [k \in Own |-> k]
<1>1. Own # {}
  BY DEF CurrentStepRun
<1>2. IsFiniteSet(Own) /\ f \in [Own -> Int]
  <2>1. DOMAIN stepRuns = 1..Len(stepRuns) /\ Len(stepRuns) \in Nat
    OBVIOUS
  <2>2. IsFiniteSet(1..Len(stepRuns)) /\ Own \in SUBSET (1..Len(stepRuns))
    BY <2>1, FS_Interval
  <2>3. IsFiniteSet(Own)
    BY <2>2, FS_Subset
  <2>4. f \in [Own -> Int]
    BY <2>1
  <2>5. QED
    BY <2>3, <2>4
<1>3. PICK k \in Own : \A l \in Own : f[l] <= f[k]
  <2> HIDE DEF Own, f
  <2>1. QED
    BY <1>1, <1>2, FiniteMax
<1>4. \E l \in Own : \A m \in Own : m <= l
  BY <1>3
<1>5. CurrentStepRun(r) \in Own
  BY <1>1, <1>4 DEF CurrentStepRun
<1>6. QED
  BY <1>5

-----------------------------------------------------------------------------
(* What an agent has in hand is a row of the database, and a reviewer      *)
(* lists nothing and locks nothing.                                        *)
HandOf(p) ==
  /\ pc[p] = "loop" => at[p] = Idle
  /\ pc[p] # "loop" => at[p].run \in Runs /\ at[p].step \in Steps
  /\ pc[p] # "loop" => p \in Reviewers \/ phase[p] # "idle"
  /\ pc[p] = "checked" => p \in Procs
  /\ pc[p] \in {"reviewing", "approved"} => p \in Reviewers
  /\ p \in Reviewers => phase[p] = "idle" /\ todo[p] = {} /\ held[p] = {}
  /\ pc[p] \in {"checked", "finish", "reviewing", "approved"} =>
       /\ at[p].entry \in DOMAIN stepRuns
       /\ stepRuns[at[p].entry].run = at[p].run /\ stepRuns[at[p].entry].step = at[p].step
  /\ pc[p] \in {"started", "approved"} => at[p].job \in 1..Len(jobs)
HandInv == \A p \in Agents : HandOf(p)

DataType ==
  /\ order \in [Steps -> Nat] /\ newOrder \in [Steps -> Nat]
  /\ runStatus \in [Runs -> RunStatus]
  /\ currentStep \in [Runs -> Steps \union {NoStep}]
  /\ hasFailed \subseteq Runs
  /\ notices \in [Runs -> Nat]
RowType ==
  /\ stepRuns \in Seq(StepRunRow) /\ jobs \in Seq(JobRow)
  /\ \A k \in DOMAIN stepRuns : stepRuns[k].job \in 0..Len(jobs)
AgentType ==
  /\ phase \in [Agents -> {"idle", "starting", "checking"}] /\ pc \in [Agents -> Pcs]
  /\ todo \in [Agents -> SUBSET Runs] /\ held \in [Agents -> SUBSET Runs]
  /\ at \in [Agents -> InHand]
BoundType == aborts \in 0..MaxAborts /\ gitFailures \in 0..MaxGitFailures /\ edits \in 0..MaxEdits

(* finish_step writes statuses of existing runs. *)
LEMMA FinishData ==
  ASSUME TypeOK, NEW p \in Agents, at[p].run \in Runs, NEW ok \in BOOLEAN, FinishStep(p, ok)
  PROVE  /\ runStatus' \in [Runs -> RunStatus] /\ hasFailed' \subseteq Runs
         /\ notices' \in [Runs -> Nat] /\ UNCHANGED currentStep
<1> DEFINE r == at[p].run
<1>1. hasFailed' \subseteq Runs /\ UNCHANGED currentStep
  BY DEF FinishStep, TypeOK
<1>2. \/ UNCHANGED <<runStatus, notices>>
      \/ /\ \E st \in Ended : runStatus' = [runStatus EXCEPT ![r] = st]
         /\ notices' = [notices EXCEPT ![r] = @ + 1]
  BY DEF FinishStep, FinalStatus, Ended
<1>3. runStatus' \in [Runs -> RunStatus]
  <2>1. CASE UNCHANGED runStatus
    BY <2>1 DEF TypeOK
  <2>2. ASSUME NEW st \in Ended, runStatus' = [runStatus EXCEPT ![r] = st]
        PROVE  runStatus' \in [Runs -> RunStatus]
    <3>1. st \in RunStatus
      BY DEF RunStatus
    <3>2. QED
      BY <2>2, <3>1 DEF TypeOK
  <2>3. QED
    BY <1>2, <2>1, <2>2
<1>4. notices' \in [Runs -> Nat]
  <2>1. CASE UNCHANGED notices
    BY <2>1 DEF TypeOK
  <2>2. CASE notices' = [notices EXCEPT ![r] = @ + 1]
    BY <2>2 DEF TypeOK
  <2>3. QED
    BY <1>2, <2>1, <2>2
<1>5. QED
  BY <1>1, <1>3, <1>4

LEMMA StepData ==
  ASSUME TypeOK, HandInv, [Next]_vars
  PROVE  DataType' /\ BoundType'
<1> USE DEF TypeOK, HandInv, HandOf, DataType, BoundType, flowVars, runVars, agentVars, boundVars, RunStatus, Ended,
        Commit, Return, Goto
<1>1. ASSUME NEW r \in Runs, EnqueueWorkflowRun(r)
      PROVE  DataType' /\ BoundType'
  BY <1>1 DEF EnqueueWorkflowRun
<1>2. ASSUME NEW j \in DOMAIN jobs, JobEnds(j)
      PROVE  DataType' /\ BoundType'
  BY <1>2 DEF JobEnds
<1>3. ASSUME NEW s \in Steps, ReadNextOrder(s)
      PROVE  DataType' /\ BoundType'
  BY <1>3, NextOrderType DEF ReadNextOrder, Edit
<1>4. ASSUME NEW s \in Steps, AddStep(s)
      PROVE  DataType' /\ BoundType'
  BY <1>4 DEF AddStep
<1>5. ASSUME NEW s \in Steps, DeleteStep(s)
      PROVE  DataType' /\ BoundType'
  BY <1>5 DEF DeleteStep, Edit
<1>6. ASSUME ReorderSteps PROVE DataType' /\ BoundType'
  BY <1>6 DEF ReorderSteps, Edit
<1>7. ASSUME NEW p \in Procs, ListQueued(p)
      PROVE  DataType' /\ BoundType'
  BY <1>7 DEF ListQueued, Select, Free
<1>8. ASSUME NEW p \in Procs, NEW r \in Runs, TakeQueued(p, r)
      PROVE  DataType' /\ BoundType'
  BY <1>8 DEF TakeQueued, FirstSteps, Earliest, Present
<1>9. ASSUME NEW p \in Procs, NEW r \in Runs, FinishWithoutSteps(p, r)
      PROVE  DataType' /\ BoundType'
  BY <1>9 DEF FinishWithoutSteps, Free
<1>10. ASSUME NEW p \in Procs, ListRunning(p)
      PROVE  DataType' /\ BoundType'
  BY <1>10 DEF ListRunning, Select, Free
<1>11. ASSUME NEW p \in Procs, NEW r \in Runs, NothingToDecide(p, r)
      PROVE  DataType' /\ BoundType'
  BY <1>11 DEF NothingToDecide, Decidable
<1>12. ASSUME NEW p \in Procs, NEW r \in Runs, ReadOutcome(p, r)
      PROVE  DataType' /\ BoundType'
  BY <1>12 DEF ReadOutcome
<1>13. ASSUME NEW p \in Procs, CommitOutcome(p)
      PROVE  DataType' /\ BoundType'
  BY <1>13 DEF CommitOutcome
<1>14. ASSUME NEW p \in Procs, EndTick(p)
      PROVE  DataType' /\ BoundType'
  BY <1>14 DEF EndTick
<1>15. ASSUME NEW v \in Reviewers, NEW k \in DOMAIN stepRuns, OpenReview(v, k)
      PROVE  DataType' /\ BoundType'
  BY <1>15 DEF OpenReview
<1>16. ASSUME NEW v \in Reviewers, CannotApprove(v)
      PROVE  DataType' /\ BoundType'
  BY <1>16 DEF CannotApprove
<1>17. ASSUME NEW v \in Reviewers, Approve(v)
      PROVE  DataType' /\ BoundType'
  BY <1>17 DEF Approve
<1>18. ASSUME NEW v \in Reviewers, BindBatch(v)
      PROVE  DataType' /\ BoundType'
  BY <1>18 DEF BindBatch
<1>19. ASSUME NEW v \in Reviewers, Reject(v)
      PROVE  DataType' /\ BoundType'
  BY <1>19 DEF Reject
<1>20. ASSUME NEW p \in Agents, CannotStart(p)
      PROVE  DataType' /\ BoundType'
  BY <1>20 DEF CannotStart, WriteRun
<1>21. ASSUME NEW p \in Agents, Prefill(p)
      PROVE  DataType' /\ BoundType'
  BY <1>21 DEF Prefill, WriteRun
<1>22. ASSUME NEW p \in Agents, AwaitReview(p)
      PROVE  DataType' /\ BoundType'
  BY <1>22 DEF AwaitReview, NewStepRun
<1>23. ASSUME NEW p \in Agents, EnqueueJob(p)
      PROVE  DataType' /\ BoundType'
  <2>1. runStatus' \in [Runs -> RunStatus] /\ currentStep' \in [Runs -> Steps \union {NoStep}]
    <3>1. UNCHANGED <<runStatus, currentStep>> \/ (WriteRun(p) /\ pc[p] = "start")
      BY <1>23 DEF EnqueueJob
    <3>2. CASE UNCHANGED <<runStatus, currentStep>>
      BY <3>2
    <3>3. CASE WriteRun(p) /\ pc[p] = "start"
      BY <3>3 DEF WriteRun
    <3>4. QED
      BY <3>1, <3>2, <3>3
  <2>2. QED
    BY <1>23, <2>1 DEF EnqueueJob
<1>24. ASSUME NEW p \in Agents, InsertStepRun(p)
      PROVE  DataType' /\ BoundType'
  BY <1>24 DEF InsertStepRun, NewStepRun
<1>25. ASSUME NEW p \in Agents, StepVanished(p)
      PROVE  DataType' /\ BoundType'
  BY <1>25 DEF StepVanished
<1>26. ASSUME NEW p \in Agents, FinishCurrentStep(p)
      PROVE  DataType' /\ BoundType'
  <2>1. at[p].run \in Runs /\ at[p].ok \in BOOLEAN
    BY <1>26 DEF FinishCurrentStep, InHand
  <2>2. QED
    BY <1>26, <2>1, FinishData DEF FinishCurrentStep
<1>27. ASSUME NEW p \in Agents, FailStep(p)
      PROVE  DataType' /\ BoundType'
  <2>1. at[p].run \in Runs
    BY <1>27 DEF FailStep
  <2>2. QED
    BY <1>27, <2>1, FinishData DEF FailStep
<1>28. ASSUME NEW p \in Agents, PrefillRollsBack(p)
      PROVE  DataType' /\ BoundType'
  BY <1>28 DEF PrefillRollsBack
<1>29. ASSUME NEW p \in Agents, Abort(p)
      PROVE  DataType' /\ BoundType'
  BY <1>29 DEF Abort
<1>30. CASE UNCHANGED vars
  BY <1>30 DEF vars
<1>31. QED
  BY <1>1, <1>2, <1>3, <1>4, <1>5, <1>6, <1>7, <1>8, <1>9, <1>10, <1>11, <1>12, <1>13, <1>14, <1>15, <1>16, <1>17, <1>18, <1>19, <1>20, <1>21, <1>22, <1>23, <1>24, <1>25, <1>26, <1>27, <1>28, <1>29, <1>30
     DEF Next, Tick, Review, Advance

(* How the rows change. *)
LEMMA AppendRow ==
  ASSUME RowType, NEW row \in StepRunRow, row.job \in 0..Len(jobs),
         stepRuns' = Append(stepRuns, row), UNCHANGED jobs
  PROVE  /\ RowType'
         /\ Len(stepRuns) + 1 \notin DOMAIN stepRuns
         /\ DOMAIN stepRuns' = DOMAIN stepRuns \union {Len(stepRuns) + 1}
         /\ stepRuns'[Len(stepRuns) + 1] = row
         /\ \A k \in DOMAIN stepRuns : stepRuns'[k] = stepRuns[k]
<1>1. /\ stepRuns' \in Seq(StepRunRow)
      /\ Len(stepRuns) + 1 \notin DOMAIN stepRuns
      /\ DOMAIN stepRuns' = DOMAIN stepRuns \union {Len(stepRuns) + 1}
      /\ stepRuns'[Len(stepRuns) + 1] = row
      /\ \A k \in DOMAIN stepRuns : stepRuns'[k] = stepRuns[k]
  BY DEF RowType
<1>2. QED
  BY <1>1 DEF RowType

LEMMA SeqExcept ==
  ASSUME NEW S, NEW q \in Seq(S), NEW i \in DOMAIN q, NEW x \in S, NEW f, f = [q EXCEPT ![i] = x]
  PROVE  /\ f \in Seq(S) /\ DOMAIN f = DOMAIN q /\ f[i] = x
         /\ \A k \in DOMAIN q : k # i => f[k] = q[k]
OBVIOUS

LEMMA RowExcept ==
  ASSUME NEW x \in StepRunRow, NEW st \in StepRunStatus, NEW j \in Nat,
         NEW y, y = [x EXCEPT !.status = st, !.job = j]
  PROVE  y = [run |-> x.run, step |-> x.step, status |-> st, job |-> j]
<1>1. y \in StepRunRow
  BY DEF StepRunRow
<1>2. y.status = st
  BY DEF StepRunRow
<1>3. y.job = j
  BY DEF StepRunRow
<1>4. y.run = x.run /\ y.step = x.step
  BY DEF StepRunRow
<1>5. y = [run |-> y.run, step |-> y.step, status |-> y.status, job |-> y.job]
  BY <1>1 DEF StepRunRow
<1>6. QED
  BY <1>2, <1>3, <1>4, <1>5

LEMMA ChangeRow ==
  ASSUME RowType, NEW e \in DOMAIN stepRuns, NEW st \in StepRunStatus, NEW j \in 0..Len(jobs),
         NEW row, row = [run |-> stepRuns[e].run, step |-> stepRuns[e].step, status |-> st, job |-> j],
         stepRuns' = [stepRuns EXCEPT ![e] = row], UNCHANGED jobs
  PROVE  /\ RowType'
         /\ DOMAIN stepRuns' = DOMAIN stepRuns
         /\ stepRuns'[e].status = st /\ stepRuns'[e].job = j
         /\ stepRuns'[e].run = stepRuns[e].run /\ stepRuns'[e].step = stepRuns[e].step
         /\ \A k \in DOMAIN stepRuns : k # e => stepRuns'[k] = stepRuns[k]
<1>1. stepRuns[e] \in StepRunRow /\ stepRuns \in Seq(StepRunRow)
  BY DEF RowType
<1>2. row \in StepRunRow
  BY <1>1 DEF StepRunRow, RowType
<1>3. /\ stepRuns' \in Seq(StepRunRow)
      /\ DOMAIN stepRuns' = DOMAIN stepRuns
      /\ stepRuns'[e] = row
      /\ \A k \in DOMAIN stepRuns : k # e => stepRuns'[k] = stepRuns[k]
  BY <1>1, <1>2, SeqExcept
<1>4. /\ stepRuns'[e].status = st /\ stepRuns'[e].job = j
      /\ stepRuns'[e].run = stepRuns[e].run /\ stepRuns'[e].step = stepRuns[e].step
  BY <1>3
<1>5. RowType'
  BY <1>3, <1>4 DEF RowType
<1>6. QED
  BY <1>3, <1>4, <1>5

LEMMA AppendJob ==
  ASSUME RowType, NEW row \in JobRow, jobs' = Append(jobs, row), UNCHANGED stepRuns
  PROVE  /\ RowType'
         /\ Len(jobs') = Len(jobs) + 1 /\ Len(jobs) + 1 \notin DOMAIN jobs
         /\ DOMAIN jobs' = DOMAIN jobs \union {Len(jobs) + 1}
         /\ jobs'[Len(jobs) + 1] = row
         /\ \A j \in DOMAIN jobs : jobs'[j] = jobs[j]
<1>1. /\ jobs' \in Seq(JobRow) /\ Len(jobs') = Len(jobs) + 1 /\ Len(jobs) \in Nat
      /\ Len(jobs) + 1 \notin DOMAIN jobs
      /\ DOMAIN jobs' = DOMAIN jobs \union {Len(jobs) + 1}
      /\ jobs'[Len(jobs) + 1] = row
      /\ \A j \in DOMAIN jobs : jobs'[j] = jobs[j]
  BY DEF RowType
<1>2. QED
  BY <1>1 DEF RowType

LEMMA ChangeJob ==
  ASSUME RowType, NEW j \in DOMAIN jobs, NEW st \in Outcomes \union {"endless"},
         jobs' = [jobs EXCEPT ![j].status = st], UNCHANGED stepRuns
  PROVE  /\ RowType' /\ DOMAIN jobs' = DOMAIN jobs /\ Len(jobs') = Len(jobs)
         /\ \A i \in DOMAIN jobs : jobs'[i].run = jobs[i].run /\ jobs'[i].step = jobs[i].step
<1>1. jobs[j] \in JobRow
  BY DEF RowType
<1> DEFINE row == [run |-> jobs[j].run, step |-> jobs[j].step, status |-> st]
<1>2. row \in JobRow
  BY <1>1, WorkflowAssumption DEF JobRow, JobTerminal, WorkflowAssumption
<1>3. jobs' = [jobs EXCEPT ![j] = row]
  <2>1. [jobs[j] EXCEPT !.status = st] = row
    BY <1>1 DEF JobRow
  <2>2. QED
    BY <2>1
<1>4. /\ jobs' \in Seq(JobRow) /\ Len(jobs') = Len(jobs)
      /\ DOMAIN jobs' = DOMAIN jobs
      /\ jobs'[j] = row
      /\ \A i \in DOMAIN jobs : i # j => jobs'[i] = jobs[i]
  <2>1. jobs \in Seq(JobRow)
    BY DEF RowType
  <2> HIDE DEF row
  <2>2. /\ jobs' \in Seq(JobRow) /\ DOMAIN jobs' = DOMAIN jobs
        /\ jobs'[j] = row
        /\ \A i \in DOMAIN jobs : i # j => jobs'[i] = jobs[i]
    BY ZenonT(30), <1>2, <1>3, <2>1, SeqExcept
  <2>3. Len(jobs') = Len(jobs)
    BY <2>1, <2>2
  <2>4. QED
    BY <2>2, <2>3
<1>5. QED
  BY <1>4 DEF RowType

(* What an agent has in hand. *)
LEMMA IdleType ==
  /\ Idle \in InHand /\ Idle.run = NoRun /\ Idle.step = NoStep
  /\ Idle.entry = 0 /\ Idle.job = 0 /\ Idle.ok = FALSE
BY DEF Idle, InHand

-----------------------------------------------------------------------------
(* What the actions that write rows do to them. *)
AddsRow(r, s, st, j) ==
  /\ RowType' /\ Len(stepRuns) + 1 \notin DOMAIN stepRuns
  /\ DOMAIN stepRuns' = DOMAIN stepRuns \union {Len(stepRuns) + 1}
  /\ stepRuns'[Len(stepRuns) + 1] = [run |-> r, step |-> s, status |-> st, job |-> j]
  /\ \A k \in DOMAIN stepRuns : stepRuns'[k] = stepRuns[k]

SetsRow(e, st, j) ==
  /\ RowType' /\ e \in DOMAIN stepRuns
  /\ DOMAIN stepRuns' = DOMAIN stepRuns
  /\ stepRuns'[e].status = st /\ stepRuns'[e].job = j
  /\ stepRuns'[e].run = stepRuns[e].run /\ stepRuns'[e].step = stepRuns[e].step
  /\ \A k \in DOMAIN stepRuns : k # e => stepRuns'[k] = stepRuns[k]

AddsJob(r, s) ==
  /\ RowType' /\ Len(jobs') = Len(jobs) + 1 /\ Len(jobs) \in Nat
  /\ Len(jobs) + 1 \notin DOMAIN jobs
  /\ DOMAIN jobs' = DOMAIN jobs \union {Len(jobs) + 1}
  /\ jobs'[Len(jobs) + 1].run = r /\ jobs'[Len(jobs) + 1].step = s
  /\ \A j \in DOMAIN jobs : jobs'[j] = jobs[j]

LEMMA TypeParts == TypeOK <=> DataType /\ RowType /\ AgentType /\ BoundType
BY DEF TypeOK, DataType, RowType, AgentType, BoundType

LEMMA Hand ==
  ASSUME TypeOK, HandInv, NEW p \in Agents
  PROVE  /\ at[p] \in InHand /\ at[p].entry \in Nat /\ at[p].job \in Nat /\ at[p].ok \in BOOLEAN
         /\ pc[p] # "loop" => at[p].run \in Runs /\ at[p].step \in Steps
         /\ pc[p] \in {"checked", "finish", "reviewing", "approved"} =>
              /\ at[p].entry \in DOMAIN stepRuns
              /\ stepRuns[at[p].entry].run = at[p].run
              /\ stepRuns[at[p].entry].step = at[p].step
         /\ pc[p] \in {"started", "approved"} => at[p].job \in 1..Len(jobs)
<1>1. at[p] \in InHand
  BY DEF TypeOK
<1>2. at[p].entry \in Nat /\ at[p].job \in Nat /\ at[p].ok \in BOOLEAN
  BY <1>1 DEF InHand
<1>3. QED
  BY <1>1, <1>2 DEF HandInv, HandOf

LEMMA JobEndsDoes ==
  ASSUME TypeOK, NEW j \in DOMAIN jobs, JobEnds(j)
  PROVE  /\ RowType' /\ DOMAIN jobs' = DOMAIN jobs /\ Len(jobs') = Len(jobs)
         /\ \A i \in DOMAIN jobs : jobs'[i].run = jobs[i].run /\ jobs'[i].step = jobs[i].step
<1>1. PICK st \in Outcomes \union {"endless"} : jobs' = [jobs EXCEPT ![j].status = st]
  BY DEF JobEnds
<1>2. UNCHANGED stepRuns
  BY DEF JobEnds
<1>3. QED
  BY <1>1, <1>2, TypeParts, ChangeJob

LEMMA CommitOutcomeDoes ==
  ASSUME TypeOK, HandInv, NEW p \in Procs, CommitOutcome(p)
  PROVE  SetsRow(at[p].entry, Outcome(at[p].ok), stepRuns[at[p].entry].job)
<1>1. p \in Agents /\ pc[p] = "checked"
  BY DEF CommitOutcome, Agents
<1>2. at[p].entry \in DOMAIN stepRuns /\ stepRuns[at[p].entry].job \in 0..Len(jobs)
  BY <1>1, Hand DEF TypeOK
<1>3. Outcome(at[p].ok) \in StepRunStatus
  BY DEF Outcome, StepRunStatus
<1> DEFINE e == at[p].entry  st == Outcome(at[p].ok)  j == stepRuns[e].job
       row == [run |-> stepRuns[e].run, step |-> stepRuns[e].step, status |-> st, job |-> j]
<1>4. stepRuns' = [stepRuns EXCEPT ![e] = row] /\ UNCHANGED jobs
  <2>1. stepRuns[e] \in StepRunRow
    BY <1>2 DEF TypeOK
  <2>2. row = [stepRuns[e] EXCEPT !.status = st]
    BY <2>1 DEF StepRunRow
  <2>3. QED
    BY <2>2 DEF CommitOutcome
<1>5. row = [run |-> stepRuns[e].run, step |-> stepRuns[e].step, status |-> st, job |-> j]
  OBVIOUS
<1>6. e \in DOMAIN stepRuns /\ st \in StepRunStatus /\ j \in 0..Len(jobs) /\ RowType
  BY <1>2, <1>3, TypeParts
<1> HIDE DEF e, st, j, row
<1>7. SetsRow(e, st, j)
  BY <1>4, <1>5, <1>6, ChangeRow DEF SetsRow
<1>8. QED
  BY <1>7 DEF e, st, j

LEMMA RejectDoes ==
  ASSUME TypeOK, HandInv, NEW v \in Reviewers, Reject(v)
  PROVE  SetsRow(at[v].entry, "failed", stepRuns[at[v].entry].job)
<1>1. v \in Agents /\ pc[v] = "reviewing"
  BY DEF Reject, Agents
<1>2. at[v].entry \in DOMAIN stepRuns /\ stepRuns[at[v].entry].job \in 0..Len(jobs)
  BY <1>1, Hand DEF TypeOK
<1>3. "failed" \in StepRunStatus
  BY DEF StepRunStatus
<1> DEFINE e == at[v].entry  st == "failed"  j == stepRuns[e].job
       row == [run |-> stepRuns[e].run, step |-> stepRuns[e].step, status |-> st, job |-> j]
<1>4. stepRuns' = [stepRuns EXCEPT ![e] = row] /\ UNCHANGED jobs
  <2>1. stepRuns[e] \in StepRunRow
    BY <1>2 DEF TypeOK
  <2>2. row = [stepRuns[e] EXCEPT !.status = st]
    BY <2>1 DEF StepRunRow
  <2>3. QED
    BY <2>2 DEF Reject
<1>5. row = [run |-> stepRuns[e].run, step |-> stepRuns[e].step, status |-> st, job |-> j]
  OBVIOUS
<1>6. e \in DOMAIN stepRuns /\ st \in StepRunStatus /\ j \in 0..Len(jobs) /\ RowType
  BY <1>2, <1>3, TypeParts
<1> HIDE DEF e, st, j, row
<1>7. SetsRow(e, st, j)
  BY <1>4, <1>5, <1>6, ChangeRow DEF SetsRow
<1>8. QED
  BY <1>7 DEF e, st, j

LEMMA BindBatchDoes ==
  ASSUME TypeOK, HandInv, NEW v \in Reviewers, BindBatch(v)
  PROVE  SetsRow(at[v].entry, "running", at[v].job) /\ at[v].job \in 1..Len(jobs)
<1>1. v \in Agents /\ pc[v] = "approved"
  BY DEF BindBatch, Agents
<1>2. at[v].entry \in DOMAIN stepRuns /\ at[v].job \in 1..Len(jobs)
  BY <1>1, Hand
<1>3. "running" \in StepRunStatus
  BY DEF StepRunStatus
<1> DEFINE e == at[v].entry  st == "running"  j == at[v].job
       row == [run |-> stepRuns[e].run, step |-> stepRuns[e].step, status |-> st, job |-> j]
<1>4. stepRuns' = [stepRuns EXCEPT ![e] = row] /\ UNCHANGED jobs
  <2>1. stepRuns[e] \in StepRunRow
    BY <1>2 DEF TypeOK
  <2>2. st \in StepRunStatus /\ j \in Nat
    BY <1>2, <1>3
  <2>3. [stepRuns[e] EXCEPT !.status = st, !.job = j] = row
    <3> HIDE DEF st, j
    <3>1. QED
      BY <2>1, <2>2, RowExcept
  <2>4. stepRuns' = [stepRuns EXCEPT ![e] = [stepRuns[e] EXCEPT !.status = st, !.job = j]]
    <3>1. stepRuns' = [stepRuns EXCEPT ![e].status = st, ![e].job = j]
      BY DEF BindBatch
    <3> HIDE DEF e, st, j
    <3>2. e \in DOMAIN stepRuns
      BY <1>2 DEF e
    <3>3. QED
      BY <3>1, <3>2
  <2>5. QED
    BY <2>3, <2>4 DEF BindBatch
<1>5. row = [run |-> stepRuns[e].run, step |-> stepRuns[e].step, status |-> st, job |-> j]
  OBVIOUS
<1>6. e \in DOMAIN stepRuns /\ st \in StepRunStatus /\ j \in 0..Len(jobs) /\ RowType
  BY <1>2, <1>3, TypeParts
<1> HIDE DEF e, st, j, row
<1>7. SetsRow(e, st, j)
  BY <1>4, <1>5, <1>6, ChangeRow DEF SetsRow
<1>8. QED
  BY <1>2, <1>7 DEF e, st, j

LEMMA ApproveDoes ==
  ASSUME TypeOK, HandInv, NEW v \in Reviewers, Approve(v)
  PROVE  AddsJob(at[v].run, at[v].step) /\ UNCHANGED stepRuns
<1>1. v \in Agents /\ pc[v] = "reviewing"
  BY DEF Approve, Agents
<1> DEFINE row == [run |-> at[v].run, step |-> at[v].step, status |-> "queued"]
<1>2. row \in JobRow
  BY <1>1, Hand DEF JobRow
<1>3. jobs' = Append(jobs, row) /\ UNCHANGED stepRuns
  BY DEF Approve
<1>4. RowType /\ Len(jobs) \in Nat
  BY TypeParts DEF RowType
<1>5. row.run = at[v].run /\ row.step = at[v].step
  OBVIOUS
<1> HIDE DEF row
<1>6. QED
  BY <1>2, <1>3, <1>4, <1>5, AppendJob DEF AddsJob

LEMMA EnqueueJobDoes ==
  ASSUME TypeOK, HandInv, NEW p \in Agents, EnqueueJob(p)
  PROVE  AddsJob(at[p].run, at[p].step) /\ UNCHANGED stepRuns
<1>1. pc[p] # "loop"
  BY DEF EnqueueJob
<1> DEFINE row == [run |-> at[p].run, step |-> at[p].step, status |-> "queued"]
<1>2. row \in JobRow
  BY <1>1, Hand DEF JobRow
<1>3. jobs' = Append(jobs, row) /\ UNCHANGED stepRuns
  BY DEF EnqueueJob
<1>4. RowType /\ Len(jobs) \in Nat
  BY TypeParts DEF RowType
<1>5. row.run = at[p].run /\ row.step = at[p].step
  OBVIOUS
<1> HIDE DEF row
<1>6. QED
  BY <1>2, <1>3, <1>4, <1>5, AppendJob DEF AddsJob

LEMMA NewRowDoes ==
  ASSUME TypeOK, HandInv, NEW p \in Agents, pc[p] # "loop", NEW st \in StepRunStatus,
         NEW j \in 0..Len(jobs), stepRuns' = NewStepRun(p, st, j), UNCHANGED jobs
  PROVE  AddsRow(at[p].run, at[p].step, st, j)
<1> DEFINE row == [run |-> at[p].run, step |-> at[p].step, status |-> st, job |-> j]
<1>1. row \in StepRunRow /\ row.job = j
  BY Hand DEF StepRunRow
<1>2. stepRuns' = Append(stepRuns, row)
  BY DEF NewStepRun
<1>3. AddsRow(at[p].run, at[p].step, st, j) <=>
        /\ RowType' /\ Len(stepRuns) + 1 \notin DOMAIN stepRuns
        /\ DOMAIN stepRuns' = DOMAIN stepRuns \union {Len(stepRuns) + 1}
        /\ stepRuns'[Len(stepRuns) + 1] = row
        /\ \A k \in DOMAIN stepRuns : stepRuns'[k] = stepRuns[k]
  BY DEF AddsRow
<1> HIDE DEF row
<1>4. QED
  BY <1>1, <1>2, <1>3, TypeParts, AppendRow

LEMMA AwaitReviewDoes ==
  ASSUME TypeOK, HandInv, NEW p \in Agents, AwaitReview(p)
  PROVE  AddsRow(at[p].run, at[p].step, "awaiting_review", 0)
<1>1. /\ pc[p] # "loop" /\ stepRuns' = NewStepRun(p, "awaiting_review", 0) /\ UNCHANGED jobs
      /\ "awaiting_review" \in StepRunStatus /\ 0 \in 0..Len(jobs)
  BY DEF AwaitReview, StepRunStatus, TypeOK
<1>2. QED
  BY <1>1, NewRowDoes

LEMMA InsertStepRunDoes ==
  ASSUME TypeOK, HandInv, NEW p \in Agents, InsertStepRun(p)
  PROVE  AddsRow(at[p].run, at[p].step, "running", at[p].job) /\ at[p].job \in 1..Len(jobs)
<1>1. pc[p] = "started" /\ stepRuns' = NewStepRun(p, "running", at[p].job) /\ UNCHANGED jobs
  BY DEF InsertStepRun
<1>2. at[p].job \in 1..Len(jobs) /\ at[p].job \in 0..Len(jobs) /\ "running" \in StepRunStatus
  BY <1>1, Hand DEF StepRunStatus
<1>3. QED
  BY <1>1, <1>2, NewRowDoes

LEMMA FailStepDoes ==
  ASSUME TypeOK, HandInv, NEW p \in Agents, FailStep(p)
  PROVE  AddsRow(at[p].run, at[p].step, "failed", 0)
<1>1. /\ pc[p] # "loop" /\ stepRuns' = NewStepRun(p, "failed", 0) /\ UNCHANGED jobs
      /\ "failed" \in StepRunStatus /\ 0 \in 0..Len(jobs)
  BY DEF FailStep, StepRunStatus, TypeOK
<1>2. QED
  BY <1>1, NewRowDoes

(* The hand of agent p becomes a; its place in the code becomes where.     *)
Hands(p, a)  == at' = [at EXCEPT ![p] = a] /\ a \in InHand
Jumps(p, where) == pc' = [pc EXCEPT ![p] = where]

LEMMA TakeQueuedDoes ==
  ASSUME NEW p \in Procs, NEW r \in Runs, TakeQueued(p, r)
  PROVE  \E s \in FirstSteps, a \in InHand :
           Hands(p, a) /\ a.run = r /\ a.step = s /\ s \in Steps
<1>1. PICK s \in FirstSteps : at' = [at EXCEPT ![p] = [Idle EXCEPT !.run = r, !.step = s]]
  BY DEF TakeQueued
<1>2. s \in Steps
  BY DEF FirstSteps, Earliest, Present
<1>3. PICK a : a = [Idle EXCEPT !.run = r, !.step = s]
  OBVIOUS
<1>4. a \in InHand /\ a.run = r /\ a.step = s
  BY <1>2, <1>3 DEF Idle, InHand
<1>5. QED
  BY <1>1, <1>2, <1>3, <1>4 DEF Hands

LEMMA ReadOutcomeDoes ==
  ASSUME TypeOK, NEW p \in Procs, NEW r \in Runs, ReadOutcome(p, r)
  PROVE  LET k == CurrentStepRun(r)
         IN  /\ k \in DOMAIN stepRuns /\ stepRuns[k].run = r /\ stepRuns[k].step = currentStep[r]
             /\ stepRuns[k].status = "running"
             /\ \E a \in InHand : /\ Hands(p, a) /\ a.run = r /\ a.step = stepRuns[k].step
                                  /\ a.entry = k /\ a.step \in Steps
<1> DEFINE k == CurrentStepRun(r)
           a == [run |-> r, step |-> stepRuns[k].step, entry |-> k, job |-> 0,
                 ok |-> jobs[stepRuns[k].job].status = "success"]
<1>1. k # 0 /\ stepRuns[k].status = "running"
  BY DEF ReadOutcome, Decidable
<1>2. k \in DOMAIN stepRuns /\ stepRuns[k].run = r /\ stepRuns[k].step = currentStep[r]
  BY <1>1, CurrentRow DEF TypeOK
<1>3. stepRuns[k] \in StepRunRow /\ k \in Nat
  BY <1>2 DEF TypeOK
<1>4. (jobs[stepRuns[k].job].status = "success") \in BOOLEAN
  OBVIOUS
<1>5. a \in InHand /\ a.run = r /\ a.step = stepRuns[k].step /\ a.entry = k /\ a.step \in Steps
  BY <1>3, <1>4, Zenon DEF InHand, StepRunRow
<1>6. at' = [at EXCEPT ![p] = a]
  BY DEF ReadOutcome
<1> HIDE DEF k, a
<1>7. QED
  BY <1>1, <1>2, <1>5, <1>6 DEF Hands, k

LEMMA OpenReviewDoes ==
  ASSUME TypeOK, NEW v \in Reviewers, NEW k \in DOMAIN stepRuns, OpenReview(v, k)
  PROVE  \E a \in InHand : /\ Hands(v, a) /\ a.run = stepRuns[k].run /\ a.step = stepRuns[k].step
                           /\ a.entry = k /\ a.run \in Runs /\ a.step \in Steps
<1>1. stepRuns[k].run \in Runs /\ stepRuns[k].step \in Steps /\ k \in Nat
  <2>1. stepRuns[k] \in StepRunRow /\ k \in Nat
    BY DEF TypeOK
  <2>2. QED
    BY <2>1 DEF StepRunRow
<1> DEFINE a == [Idle EXCEPT !.run = stepRuns[k].run, !.step = stepRuns[k].step, !.entry = k]
<1>2. /\ a \in InHand /\ a.run = stepRuns[k].run /\ a.step = stepRuns[k].step
      /\ a.entry = k
  BY <1>1 DEF Idle, InHand
<1>3. at' = [at EXCEPT ![v] = a]
  BY DEF OpenReview
<1> HIDE DEF a
<1>4. QED
  BY <1>1, <1>2, <1>3 DEF Hands

LEMMA JobInHand ==
  ASSUME TypeOK, NEW p \in Agents, at' = [at EXCEPT ![p].job = Len(jobs) + 1]
  PROVE  \E a \in InHand : /\ Hands(p, a) /\ a.run = at[p].run /\ a.step = at[p].step
                           /\ a.entry = at[p].entry /\ a.job = Len(jobs) + 1
<1>1. at[p] \in InHand /\ Len(jobs) + 1 \in Nat
  BY DEF TypeOK
<1> DEFINE a == [at[p] EXCEPT !.job = Len(jobs) + 1]
<1>2. /\ a \in InHand /\ a.run = at[p].run /\ a.step = at[p].step
      /\ a.entry = at[p].entry /\ a.job = Len(jobs) + 1
  BY <1>1 DEF InHand
<1>3. at' = [at EXCEPT ![p] = a]
  OBVIOUS
<1> HIDE DEF a
<1>4. QED
  BY <1>2, <1>3 DEF Hands

LEMMA RejectInHand ==
  ASSUME TypeOK, NEW v \in Reviewers, Reject(v)
  PROVE  \E a \in InHand : /\ Hands(v, a) /\ a.run = at[v].run /\ a.step = at[v].step
                           /\ a.entry = at[v].entry /\ a.ok = FALSE
<1>1. at[v] \in InHand
  BY DEF TypeOK, Agents
<1> DEFINE a == [at[v] EXCEPT !.ok = FALSE]
<1>2. /\ a \in InHand /\ a.run = at[v].run /\ a.step = at[v].step
      /\ a.entry = at[v].entry /\ a.ok = FALSE
  BY <1>1 DEF InHand
<1>3. at' = [at EXCEPT ![v] = a]
  BY DEF Reject
<1> HIDE DEF a
<1>4. QED
  BY <1>2, <1>3 DEF Hands

(* finish_step ends the run, or goes on with a next step. *)
EndsRun(p, st) ==
  /\ runStatus' = [runStatus EXCEPT ![at[p].run] = st] /\ st \in Ended
  /\ notices' = [notices EXCEPT ![at[p].run] = @ + 1]
  /\ Return(p)
GoesOn(p, t) ==
  /\ UNCHANGED <<runStatus, notices>>
  /\ Goto(p, "start")
  /\ \E a \in InHand : Hands(p, a) /\ a.run = at[p].run /\ a.step = t

LEMMA FinishDoes ==
  ASSUME TypeOK, NEW p \in Agents, at[p].run \in Runs, NEW ok \in BOOLEAN, FinishStep(p, ok)
  PROVE  /\ hasFailed' = IF ok THEN hasFailed ELSE hasFailed \union {at[p].run}
         /\ UNCHANGED currentStep /\ Commit(p)
         /\ \/ Stops(at[p].step, ok) /\ EndsRun(p, "failed")
            \/ /\ ~Stops(at[p].step, ok) /\ NextSteps(at[p].step) = {}
               /\ EndsRun(p, FinalStatus(~ok \/ at[p].run \in hasFailed))
            \/ /\ ~Stops(at[p].step, ok)
               /\ \E t \in NextSteps(at[p].step) : t \in Steps /\ GoesOn(p, t)
<1>1. CASE \E t \in NextSteps(at[p].step) :
             /\ at' = [at EXCEPT ![p] = [Idle EXCEPT !.run = at[p].run, !.step = t]]
             /\ ~Stops(at[p].step, ok) /\ Goto(p, "start") /\ UNCHANGED <<runStatus, notices>>
  <2>1. PICK t \in NextSteps(at[p].step) :
             /\ at' = [at EXCEPT ![p] = [Idle EXCEPT !.run = at[p].run, !.step = t]]
             /\ ~Stops(at[p].step, ok) /\ Goto(p, "start") /\ UNCHANGED <<runStatus, notices>>
    BY <1>1
  <2>2. t \in Steps
    BY DEF NextSteps, Earliest, Present
  <2> DEFINE a == [Idle EXCEPT !.run = at[p].run, !.step = t]
  <2>3. a \in InHand /\ a.run = at[p].run /\ a.step = t
    BY <2>2 DEF Idle, InHand
  <2>4. at' = [at EXCEPT ![p] = a]
    BY <2>1
  <2> HIDE DEF a
  <2>5. GoesOn(p, t)
    BY <2>1, <2>3, <2>4 DEF GoesOn, Hands
  <2>6. QED
    BY <2>1, <2>2, <2>5 DEF FinishStep
<1>2. CASE /\ Stops(at[p].step, ok) \/ NextSteps(at[p].step) = {}
           /\ runStatus' = [runStatus EXCEPT ![at[p].run] = IF Stops(at[p].step, ok) THEN "failed"
                                               ELSE FinalStatus(~ok \/ at[p].run \in hasFailed)]
           /\ notices' = [notices EXCEPT ![at[p].run] = @ + 1]
           /\ Return(p)
  <2>1. FinalStatus(~ok \/ at[p].run \in hasFailed) \in Ended /\ "failed" \in Ended
    BY DEF FinalStatus, Ended
  <2>2. CASE Stops(at[p].step, ok)
    BY <1>2, <2>1, <2>2 DEF FinishStep, EndsRun
  <2>3. CASE ~Stops(at[p].step, ok)
    BY <1>2, <2>1, <2>3 DEF FinishStep, EndsRun
  <2>4. QED
    BY <2>2, <2>3
<1>3. QED
  BY <1>1, <1>2 DEF FinishStep

LEMMA StepRows ==
  ASSUME TypeOK, HandInv, [Next]_vars
  PROVE  RowType'
<1> USE TypeParts DEF RowType
<1>1. ASSUME NEW r \in Runs, EnqueueWorkflowRun(r)
      PROVE  RowType'
  BY <1>1 DEF EnqueueWorkflowRun
<1>2. ASSUME NEW j \in DOMAIN jobs, JobEnds(j)
      PROVE  RowType'
  BY <1>2, JobEndsDoes
<1>3. ASSUME NEW s \in Steps, ReadNextOrder(s)
      PROVE  RowType'
  BY <1>3 DEF ReadNextOrder, Edit
<1>4. ASSUME NEW s \in Steps, AddStep(s)
      PROVE  RowType'
  BY <1>4 DEF AddStep
<1>5. ASSUME NEW s \in Steps, DeleteStep(s)
      PROVE  RowType'
  BY <1>5 DEF DeleteStep, Edit
<1>6. ASSUME ReorderSteps PROVE RowType'
  BY <1>6 DEF ReorderSteps, Edit
<1>7. ASSUME NEW p \in Procs, ListQueued(p)
      PROVE  RowType'
  BY <1>7 DEF ListQueued, Select, Free
<1>8. ASSUME NEW p \in Procs, NEW r \in Runs, TakeQueued(p, r)
      PROVE  RowType'
  BY <1>8 DEF TakeQueued, FirstSteps, Earliest, Present
<1>9. ASSUME NEW p \in Procs, NEW r \in Runs, FinishWithoutSteps(p, r)
      PROVE  RowType'
  BY <1>9 DEF FinishWithoutSteps, Free
<1>10. ASSUME NEW p \in Procs, ListRunning(p)
      PROVE  RowType'
  BY <1>10 DEF ListRunning, Select, Free
<1>11. ASSUME NEW p \in Procs, NEW r \in Runs, NothingToDecide(p, r)
      PROVE  RowType'
  BY <1>11 DEF NothingToDecide, Decidable
<1>12. ASSUME NEW p \in Procs, NEW r \in Runs, ReadOutcome(p, r)
      PROVE  RowType'
  BY <1>12 DEF ReadOutcome
<1>13. ASSUME NEW p \in Procs, CommitOutcome(p)
      PROVE  RowType'
  BY <1>13, CommitOutcomeDoes DEF SetsRow
<1>14. ASSUME NEW p \in Procs, EndTick(p)
      PROVE  RowType'
  BY <1>14 DEF EndTick
<1>15. ASSUME NEW v \in Reviewers, NEW k \in DOMAIN stepRuns, OpenReview(v, k)
      PROVE  RowType'
  BY <1>15 DEF OpenReview
<1>16. ASSUME NEW v \in Reviewers, CannotApprove(v)
      PROVE  RowType'
  BY <1>16 DEF CannotApprove
<1>17. ASSUME NEW v \in Reviewers, Approve(v)
      PROVE  RowType'
  BY <1>17, ApproveDoes DEF AddsJob
<1>18. ASSUME NEW v \in Reviewers, BindBatch(v)
      PROVE  RowType'
  BY <1>18, BindBatchDoes DEF SetsRow
<1>19. ASSUME NEW v \in Reviewers, Reject(v)
      PROVE  RowType'
  BY <1>19, RejectDoes DEF SetsRow
<1>20. ASSUME NEW p \in Agents, CannotStart(p)
      PROVE  RowType'
  BY <1>20 DEF CannotStart, WriteRun
<1>21. ASSUME NEW p \in Agents, Prefill(p)
      PROVE  RowType'
  BY <1>21 DEF Prefill, WriteRun
<1>22. ASSUME NEW p \in Agents, AwaitReview(p)
      PROVE  RowType'
  BY <1>22, AwaitReviewDoes DEF AddsRow
<1>23. ASSUME NEW p \in Agents, EnqueueJob(p)
      PROVE  RowType'
  BY <1>23, EnqueueJobDoes DEF AddsJob
<1>24. ASSUME NEW p \in Agents, InsertStepRun(p)
      PROVE  RowType'
  BY <1>24, InsertStepRunDoes DEF AddsRow
<1>25. ASSUME NEW p \in Agents, StepVanished(p)
      PROVE  RowType'
  BY <1>25 DEF StepVanished
<1>26. ASSUME NEW p \in Agents, FinishCurrentStep(p)
      PROVE  RowType'
  BY <1>26 DEF FinishCurrentStep, FinishStep
<1>27. ASSUME NEW p \in Agents, FailStep(p)
      PROVE  RowType'
  BY <1>27, FailStepDoes DEF AddsRow
<1>28. ASSUME NEW p \in Agents, PrefillRollsBack(p)
      PROVE  RowType'
  BY <1>28 DEF PrefillRollsBack
<1>29. ASSUME NEW p \in Agents, Abort(p)
      PROVE  RowType'
  BY <1>29 DEF Abort
<1>30. CASE UNCHANGED vars
  BY <1>30 DEF vars
<1>31. QED
  BY <1>1, <1>2, <1>3, <1>4, <1>5, <1>6, <1>7, <1>8, <1>9, <1>10, <1>11, <1>12, <1>13, <1>14, <1>15, <1>16, <1>17, <1>18, <1>19, <1>20, <1>21, <1>22, <1>23, <1>24, <1>25, <1>26, <1>27, <1>28, <1>29, <1>30
     DEF Next, Tick, Review, Advance

LEMMA StepAgents ==
  ASSUME TypeOK, HandInv, [Next]_vars
  PROVE  AgentType'
<1> USE DEF AgentType, agentVars, Commit, Return, Goto, Pcs, Agents, Hands
<1>0. AgentType /\ DataType /\ RowType
  BY TypeParts
<1>1. ASSUME NEW r \in Runs, EnqueueWorkflowRun(r)
      PROVE  AgentType'
  BY <1>0, <1>1 DEF EnqueueWorkflowRun
<1>2. ASSUME NEW j \in DOMAIN jobs, JobEnds(j)
      PROVE  AgentType'
  BY <1>0, <1>2 DEF JobEnds
<1>3. ASSUME NEW s \in Steps, ReadNextOrder(s)
      PROVE  AgentType'
  BY <1>0, <1>3 DEF ReadNextOrder, Edit
<1>4. ASSUME NEW s \in Steps, AddStep(s)
      PROVE  AgentType'
  BY <1>0, <1>4 DEF AddStep
<1>5. ASSUME NEW s \in Steps, DeleteStep(s)
      PROVE  AgentType'
  BY <1>0, <1>5 DEF DeleteStep, Edit
<1>6. ASSUME ReorderSteps PROVE AgentType'
  BY <1>0, <1>6 DEF ReorderSteps, Edit
<1>7. ASSUME NEW p \in Procs, ListQueued(p)
      PROVE  AgentType'
  BY <1>0, <1>7 DEF ListQueued, Select, Free
<1>8. ASSUME NEW p \in Procs, NEW r \in Runs, TakeQueued(p, r)
      PROVE  AgentType'
  <2>1. \E a \in InHand : at' = [at EXCEPT ![p] = a]
    BY <1>0, <1>8, TakeQueuedDoes
  <2>2. at' \in [Agents -> InHand]
    BY <1>0, <2>1
  <2>3. QED
    BY <1>0, <1>8, <2>2 DEF TakeQueued
<1>9. ASSUME NEW p \in Procs, NEW r \in Runs, FinishWithoutSteps(p, r)
      PROVE  AgentType'
  BY <1>0, <1>9 DEF FinishWithoutSteps, Free
<1>10. ASSUME NEW p \in Procs, ListRunning(p)
      PROVE  AgentType'
  BY <1>0, <1>10 DEF ListRunning, Select, Free
<1>11. ASSUME NEW p \in Procs, NEW r \in Runs, NothingToDecide(p, r)
      PROVE  AgentType'
  BY <1>0, <1>11 DEF NothingToDecide, Decidable
<1>12. ASSUME NEW p \in Procs, NEW r \in Runs, ReadOutcome(p, r)
      PROVE  AgentType'
  <2>1. \E a \in InHand : at' = [at EXCEPT ![p] = a]
    BY <1>0, <1>12, ReadOutcomeDoes
  <2>2. at' \in [Agents -> InHand]
    BY <1>0, <2>1
  <2>3. QED
    BY <1>0, <1>12, <2>2 DEF ReadOutcome
<1>13. ASSUME NEW p \in Procs, CommitOutcome(p)
      PROVE  AgentType'
  BY <1>0, <1>13 DEF CommitOutcome
<1>14. ASSUME NEW p \in Procs, EndTick(p)
      PROVE  AgentType'
  BY <1>0, <1>14 DEF EndTick
<1>15. ASSUME NEW v \in Reviewers, NEW k \in DOMAIN stepRuns, OpenReview(v, k)
      PROVE  AgentType'
  <2>1. \E a \in InHand : at' = [at EXCEPT ![v] = a]
    BY <1>0, <1>15, OpenReviewDoes
  <2>2. at' \in [Agents -> InHand]
    BY <1>0, <2>1
  <2>3. QED
    BY <1>0, <1>15, <2>2 DEF OpenReview
<1>16. ASSUME NEW v \in Reviewers, CannotApprove(v)
      PROVE  AgentType'
  BY <1>0, <1>16, IdleType DEF CannotApprove
<1>17. ASSUME NEW v \in Reviewers, Approve(v)
      PROVE  AgentType'
  <2>1. at' \in [Agents -> InHand]
    <3>1. at' = [at EXCEPT ![v].job = Len(jobs) + 1]
      BY <1>17 DEF Approve
    <3>2. PICK a \in InHand : at' = [at EXCEPT ![v] = a]
      BY <3>1, JobInHand
    <3>3. QED
      BY <1>0, <3>2
  <2>2. QED
    BY <1>0, <1>17, <2>1 DEF Approve
<1>18. ASSUME NEW v \in Reviewers, BindBatch(v)
      PROVE  AgentType'
  BY <1>0, <1>18, IdleType DEF BindBatch
<1>19. ASSUME NEW v \in Reviewers, Reject(v)
      PROVE  AgentType'
  <2>1. \E a \in InHand : at' = [at EXCEPT ![v] = a]
    BY <1>0, <1>19, RejectInHand
  <2>2. at' \in [Agents -> InHand]
    BY <1>0, <2>1
  <2>3. QED
    BY <1>0, <1>19, <2>2 DEF Reject
<1>20. ASSUME NEW p \in Agents, CannotStart(p)
      PROVE  AgentType'
  BY <1>0, <1>20 DEF CannotStart, WriteRun
<1>21. ASSUME NEW p \in Agents, Prefill(p)
      PROVE  AgentType'
  BY <1>0, <1>21 DEF Prefill, WriteRun
<1>22. ASSUME NEW p \in Agents, AwaitReview(p)
      PROVE  AgentType'
  BY <1>0, <1>22, IdleType DEF AwaitReview
<1>23. ASSUME NEW p \in Agents, EnqueueJob(p)
      PROVE  AgentType'
  <2>1. \E a \in InHand : at' = [at EXCEPT ![p] = a]
    BY <1>0, <1>23, JobInHand DEF EnqueueJob
  <2>2. at' \in [Agents -> InHand]
    BY <1>0, <2>1
  <2>3. QED
    BY <1>0, <1>23, <2>2 DEF EnqueueJob
<1>24. ASSUME NEW p \in Agents, InsertStepRun(p)
      PROVE  AgentType'
  BY <1>0, <1>24, IdleType DEF InsertStepRun
<1>25. ASSUME NEW p \in Agents, StepVanished(p)
      PROVE  AgentType'
  BY <1>0, <1>25, IdleType DEF StepVanished
<1>26. ASSUME NEW p \in Agents, FinishCurrentStep(p)
      PROVE  AgentType'
  <2>1. at[p].run \in Runs /\ at[p].ok \in BOOLEAN /\ FinishStep(p, at[p].ok)
    BY <1>26, Hand DEF FinishCurrentStep
  <2>2. Commit(p) /\ (Return(p) \/ \E t \in Steps : GoesOn(p, t))
    BY <2>1, FinishDoes DEF EndsRun
  <2>3. CASE Return(p)
    BY <1>0, <2>2, <2>3, IdleType
  <2>4. ASSUME NEW t \in Steps, GoesOn(p, t) PROVE AgentType'
    BY <1>0, <2>2, <2>4 DEF GoesOn
  <2>5. QED
    BY <2>2, <2>3, <2>4
<1>27. ASSUME NEW p \in Agents, FailStep(p)
      PROVE  AgentType'
  <2>1. at[p].run \in Runs /\ at[p].ok \in BOOLEAN /\ FinishStep(p, FALSE)
    BY <1>27, Hand DEF FailStep
  <2>2. Commit(p) /\ (Return(p) \/ \E t \in Steps : GoesOn(p, t))
    BY <2>1, FinishDoes DEF EndsRun
  <2>3. CASE Return(p)
    BY <1>0, <2>2, <2>3, IdleType
  <2>4. ASSUME NEW t \in Steps, GoesOn(p, t) PROVE AgentType'
    BY <1>0, <2>2, <2>4 DEF GoesOn
  <2>5. QED
    BY <2>2, <2>3, <2>4
<1>28. ASSUME NEW p \in Agents, PrefillRollsBack(p)
      PROVE  AgentType'
  BY <1>0, <1>28 DEF PrefillRollsBack
<1>29. ASSUME NEW p \in Agents, Abort(p)
      PROVE  AgentType'
  BY <1>0, <1>29, IdleType DEF Abort
<1>30. CASE UNCHANGED vars
  BY <1>0, <1>30 DEF vars
<1>31. QED
  BY <1>1, <1>2, <1>3, <1>4, <1>5, <1>6, <1>7, <1>8, <1>9, <1>10, <1>11, <1>12, <1>13, <1>14, <1>15, <1>16, <1>17, <1>18, <1>19, <1>20, <1>21, <1>22, <1>23, <1>24, <1>25, <1>26, <1>27, <1>28, <1>29, <1>30
     DEF Next, Tick, Review, Advance

(* Rows are never deleted, and keep their run and step. *)
RowsKept ==
  /\ DOMAIN stepRuns \subseteq DOMAIN stepRuns' /\ Len(jobs) <= Len(jobs')
  /\ \A k \in DOMAIN stepRuns :
       stepRuns'[k].run = stepRuns[k].run /\ stepRuns'[k].step = stepRuns[k].step

LEMMA RowsAreKept ==
  ASSUME TypeOK, HandInv, [Next]_vars
  PROVE  RowsKept
<1> USE DEF RowsKept
<1>0. Len(jobs) \in Nat
  BY DEF TypeOK
<1>1. ASSUME NEW r \in Runs, EnqueueWorkflowRun(r)
      PROVE  RowsKept
  BY <1>0, <1>1 DEF EnqueueWorkflowRun
<1>2. ASSUME NEW j \in DOMAIN jobs, JobEnds(j)
      PROVE  RowsKept
  BY <1>0, <1>2, JobEndsDoes DEF JobEnds
<1>3. ASSUME NEW s \in Steps, ReadNextOrder(s)
      PROVE  RowsKept
  BY <1>0, <1>3 DEF ReadNextOrder, Edit
<1>4. ASSUME NEW s \in Steps, AddStep(s)
      PROVE  RowsKept
  BY <1>0, <1>4 DEF AddStep
<1>5. ASSUME NEW s \in Steps, DeleteStep(s)
      PROVE  RowsKept
  BY <1>0, <1>5 DEF DeleteStep, Edit
<1>6. ASSUME ReorderSteps PROVE RowsKept
  BY <1>0, <1>6 DEF ReorderSteps, Edit
<1>7. ASSUME NEW p \in Procs, ListQueued(p)
      PROVE  RowsKept
  BY <1>0, <1>7 DEF ListQueued, Select, Free
<1>8. ASSUME NEW p \in Procs, NEW r \in Runs, TakeQueued(p, r)
      PROVE  RowsKept
  BY <1>0, <1>8 DEF TakeQueued, FirstSteps, Earliest, Present
<1>9. ASSUME NEW p \in Procs, NEW r \in Runs, FinishWithoutSteps(p, r)
      PROVE  RowsKept
  BY <1>0, <1>9 DEF FinishWithoutSteps, Free
<1>10. ASSUME NEW p \in Procs, ListRunning(p)
      PROVE  RowsKept
  BY <1>0, <1>10 DEF ListRunning, Select, Free
<1>11. ASSUME NEW p \in Procs, NEW r \in Runs, NothingToDecide(p, r)
      PROVE  RowsKept
  BY <1>0, <1>11 DEF NothingToDecide, Decidable
<1>12. ASSUME NEW p \in Procs, NEW r \in Runs, ReadOutcome(p, r)
      PROVE  RowsKept
  BY <1>0, <1>12 DEF ReadOutcome
<1>13. ASSUME NEW p \in Procs, CommitOutcome(p)
      PROVE  RowsKept
  BY <1>0, <1>13, CommitOutcomeDoes DEF CommitOutcome, SetsRow
<1>14. ASSUME NEW p \in Procs, EndTick(p)
      PROVE  RowsKept
  BY <1>0, <1>14 DEF EndTick
<1>15. ASSUME NEW v \in Reviewers, NEW k \in DOMAIN stepRuns, OpenReview(v, k)
      PROVE  RowsKept
  BY <1>0, <1>15 DEF OpenReview
<1>16. ASSUME NEW v \in Reviewers, CannotApprove(v)
      PROVE  RowsKept
  BY <1>0, <1>16 DEF CannotApprove
<1>17. ASSUME NEW v \in Reviewers, Approve(v)
      PROVE  RowsKept
  BY <1>0, <1>17, ApproveDoes DEF AddsJob
<1>18. ASSUME NEW v \in Reviewers, BindBatch(v)
      PROVE  RowsKept
  <2>1. SetsRow(at[v].entry, "running", at[v].job)
    BY <1>0, <1>18, BindBatchDoes
  <2>2. jobs' = jobs
    BY <1>18 DEF BindBatch
  <2>3. QED
    BY <1>0, <2>1, <2>2 DEF SetsRow
<1>19. ASSUME NEW v \in Reviewers, Reject(v)
      PROVE  RowsKept
  BY <1>0, <1>19, RejectDoes DEF Reject, SetsRow
<1>20. ASSUME NEW p \in Agents, CannotStart(p)
      PROVE  RowsKept
  BY <1>0, <1>20 DEF CannotStart, WriteRun
<1>21. ASSUME NEW p \in Agents, Prefill(p)
      PROVE  RowsKept
  BY <1>0, <1>21 DEF Prefill, WriteRun
<1>22. ASSUME NEW p \in Agents, AwaitReview(p)
      PROVE  RowsKept
  <2>1. AddsRow(at[p].run, at[p].step, "awaiting_review", 0)
    BY <1>22, AwaitReviewDoes
  <2>2. UNCHANGED jobs
    BY <1>0, <1>22 DEF AwaitReview
  <2>3. QED
    BY <1>0, <2>1, <2>2 DEF AddsRow
<1>23. ASSUME NEW p \in Agents, EnqueueJob(p)
      PROVE  RowsKept
  BY <1>0, <1>23, EnqueueJobDoes DEF AddsJob
<1>24. ASSUME NEW p \in Agents, InsertStepRun(p)
      PROVE  RowsKept
  <2>1. AddsRow(at[p].run, at[p].step, "running", at[p].job)
    BY <1>24, InsertStepRunDoes
  <2>2. UNCHANGED jobs
    BY <1>0, <1>24 DEF InsertStepRun
  <2>3. QED
    BY <1>0, <2>1, <2>2 DEF AddsRow
<1>25. ASSUME NEW p \in Agents, StepVanished(p)
      PROVE  RowsKept
  BY <1>0, <1>25 DEF StepVanished
<1>26. ASSUME NEW p \in Agents, FinishCurrentStep(p)
      PROVE  RowsKept
  BY <1>0, <1>26 DEF FinishCurrentStep
<1>27. ASSUME NEW p \in Agents, FailStep(p)
      PROVE  RowsKept
  <2>1. AddsRow(at[p].run, at[p].step, "failed", 0)
    BY <1>27, FailStepDoes
  <2>2. UNCHANGED jobs
    BY <1>0, <1>27 DEF FailStep
  <2>3. QED
    BY <1>0, <2>1, <2>2 DEF AddsRow
<1>28. ASSUME NEW p \in Agents, PrefillRollsBack(p)
      PROVE  RowsKept
  BY <1>0, <1>28 DEF PrefillRollsBack
<1>29. ASSUME NEW p \in Agents, Abort(p)
      PROVE  RowsKept
  BY <1>0, <1>29 DEF Abort
<1>30. CASE UNCHANGED vars
  BY <1>0, <1>30 DEF vars
<1>31. QED
  BY <1>1, <1>2, <1>3, <1>4, <1>5, <1>6, <1>7, <1>8, <1>9, <1>10, <1>11, <1>12, <1>13, <1>14, <1>15, <1>16, <1>17, <1>18, <1>19, <1>20, <1>21, <1>22, <1>23, <1>24, <1>25, <1>26, <1>27, <1>28, <1>29, <1>30
     DEF Next, Tick, Review, Advance

(* An agent leaves the others' locals alone. *)
OthersRest(p) ==
  \A q \in Agents \ {p} :
    /\ phase'[q] = phase[q] /\ pc'[q] = pc[q] /\ todo'[q] = todo[q]
    /\ held'[q] = held[q] /\ at'[q] = at[q]

Acts(p) ==
  \/ p \in Procs /\ Tick(p)
  \/ p \in Reviewers /\ Review(p)
  \/ Advance(p) \/ PrefillRollsBack(p) \/ Abort(p)

LEMMA OneAgent ==
  ASSUME TypeOK, NEW p \in Agents, Acts(p)
  PROVE  OthersRest(p)
<1> USE DEF OthersRest, TypeOK, agentVars, Commit, Return, Goto
<1>1. CASE ListQueued(p)
  BY <1>1 DEF ListQueued
<1>2. ASSUME NEW r \in Runs, TakeQueued(p, r) PROVE OthersRest(p)
  BY <1>2 DEF TakeQueued
<1>3. ASSUME NEW r \in Runs, FinishWithoutSteps(p, r) PROVE OthersRest(p)
  BY <1>3 DEF FinishWithoutSteps
<1>4. CASE ListRunning(p)
  BY <1>4 DEF ListRunning
<1>5. ASSUME NEW r \in Runs, NothingToDecide(p, r) PROVE OthersRest(p)
  BY <1>5 DEF NothingToDecide
<1>6. ASSUME NEW r \in Runs, ReadOutcome(p, r) PROVE OthersRest(p)
  BY <1>6 DEF ReadOutcome
<1>7. CASE CommitOutcome(p)
  BY <1>7 DEF CommitOutcome
<1>8. CASE EndTick(p)
  BY <1>8 DEF EndTick
<1>9. ASSUME NEW k \in DOMAIN stepRuns, OpenReview(p, k) PROVE OthersRest(p)
  BY <1>9 DEF OpenReview
<1>10. CASE CannotApprove(p)
  BY <1>10 DEF CannotApprove
<1>11. CASE Approve(p)
  BY <1>11 DEF Approve
<1>12. CASE BindBatch(p)
  BY <1>12 DEF BindBatch
<1>13. CASE Reject(p)
  BY <1>13 DEF Reject
<1>14. CASE CannotStart(p)
  BY <1>14 DEF CannotStart
<1>15. CASE Prefill(p)
  BY <1>15 DEF Prefill
<1>16. CASE AwaitReview(p)
  BY <1>16 DEF AwaitReview
<1>17. CASE EnqueueJob(p)
  BY <1>17 DEF EnqueueJob
<1>18. CASE InsertStepRun(p)
  BY <1>18 DEF InsertStepRun
<1>19. CASE StepVanished(p)
  BY <1>19 DEF StepVanished
<1>20. CASE FinishCurrentStep(p)
  BY <1>20 DEF FinishCurrentStep, FinishStep
<1>21. CASE FailStep(p)
  BY <1>21 DEF FailStep, FinishStep
<1>22. CASE PrefillRollsBack(p)
  BY <1>22 DEF PrefillRollsBack
<1>23. CASE Abort(p)
  BY <1>23 DEF Abort
<1>24. QED
  BY <1>1, <1>2, <1>3, <1>4, <1>5, <1>6, <1>7, <1>8, <1>9, <1>10, <1>11, <1>12, <1>13, <1>14, <1>15, <1>16, <1>17, <1>18, <1>19, <1>20, <1>21, <1>22, <1>23
     DEF Acts, Tick, Review, Advance

LEMMA DisjointAgents == Procs \intersect Reviewers = {}
BY DEF WorkflowAssumption

(* What happens without an agent. *)
System ==
  \/ \E r \in Runs : EnqueueWorkflowRun(r)
  \/ \E j \in DOMAIN jobs : JobEnds(j)
  \/ \E s \in Steps : ReadNextOrder(s) \/ AddStep(s) \/ DeleteStep(s)
  \/ ReorderSteps
  \/ UNCHANGED vars

LEMMA StepCases == [Next]_vars => System \/ \E p \in Agents : Acts(p)
BY DEF Next, System, Acts, Agents

LEMMA SystemRests == System => UNCHANGED agentVars
BY DEF System, EnqueueWorkflowRun, JobEnds, ReadNextOrder, AddStep, DeleteStep, ReorderSteps, Edit, vars

LEMMA ActsHand ==
  ASSUME TypeOK, HandInv, RowsKept, TypeOK', NEW p \in Agents, Acts(p)
  PROVE  HandOf(p)'
<1>0. HandOf(p) /\ AgentType
  BY TypeParts DEF HandInv
<1> USE DEF HandOf, AgentType, Commit, Return, Goto, Hands, Agents
<1>1. ASSUME ListQueued(p), p \in Procs
      PROVE  HandOf(p)'
  BY <1>0, <1>1 DEF ListQueued
<1>2. ASSUME NEW r \in Runs, TakeQueued(p, r), p \in Procs
      PROVE  HandOf(p)'
  <2>1. PICK a \in InHand : at' = [at EXCEPT ![p] = a] /\ a.run \in Runs /\ a.step \in Steps
    BY <1>2, TakeQueuedDoes
  <2>2. QED
    BY <1>0, <1>2, <2>1, DisjointAgents DEF TakeQueued
<1>3. ASSUME NEW r \in Runs, FinishWithoutSteps(p, r), p \in Procs
      PROVE  HandOf(p)'
  BY <1>0, <1>3 DEF FinishWithoutSteps
<1>4. ASSUME ListRunning(p), p \in Procs
      PROVE  HandOf(p)'
  BY <1>0, <1>4 DEF ListRunning
<1>5. ASSUME NEW r \in Runs, NothingToDecide(p, r), p \in Procs
      PROVE  HandOf(p)'
  BY <1>0, <1>5 DEF NothingToDecide
<1>6. ASSUME NEW r \in Runs, ReadOutcome(p, r), p \in Procs
      PROVE  HandOf(p)'
  <2> DEFINE k == CurrentStepRun(r)
  <2>1. /\ k \in DOMAIN stepRuns /\ stepRuns[k].run = r
        /\ \E a \in InHand : /\ at' = [at EXCEPT ![p] = a] /\ a.run = r /\ a.step = stepRuns[k].step
                             /\ a.entry = k /\ a.step \in Steps
    BY <1>6, ReadOutcomeDoes
  <2>2. PICK a \in InHand : /\ at' = [at EXCEPT ![p] = a] /\ a.run = r /\ a.step = stepRuns[k].step
                            /\ a.entry = k /\ a.step \in Steps
    BY <2>1
  <2> HIDE DEF k
  <2>3. QED
    BY <1>0, <1>6, <2>1, <2>2, DisjointAgents DEF ReadOutcome
<1>7. ASSUME CommitOutcome(p), p \in Procs
      PROVE  HandOf(p)'
  <2>1. SetsRow(at[p].entry, Outcome(at[p].ok), stepRuns[at[p].entry].job)
    BY <1>7, CommitOutcomeDoes
  <2>2. /\ pc[p] = "checked" /\ pc' = [pc EXCEPT ![p] = "finish"] /\ UNCHANGED <<phase, todo, at>>
        /\ held' = [held EXCEPT ![p] = {}]
    BY <1>7 DEF CommitOutcome
  <2>3. QED
    BY <1>0, <1>7, <2>1, <2>2, DisjointAgents DEF SetsRow
<1>8. ASSUME EndTick(p), p \in Procs
      PROVE  HandOf(p)'
  BY <1>0, <1>8 DEF EndTick
<1>9. ASSUME NEW k \in DOMAIN stepRuns, OpenReview(p, k), p \in Reviewers
      PROVE  HandOf(p)'
  <2>1. PICK a \in InHand : /\ at' = [at EXCEPT ![p] = a] /\ a.run = stepRuns[k].run
                            /\ a.step = stepRuns[k].step /\ a.entry = k
                            /\ a.run \in Runs /\ a.step \in Steps
    BY <1>9, OpenReviewDoes
  <2>2. QED
    BY <1>0, <1>9, <2>1 DEF OpenReview
<1>10. ASSUME CannotApprove(p), p \in Reviewers
      PROVE  HandOf(p)'
  BY <1>0, <1>10 DEF CannotApprove
<1>11. ASSUME Approve(p), p \in Reviewers
      PROVE  HandOf(p)'
  BY <1>0, <1>11 DEF Approve
<1>12. ASSUME BindBatch(p), p \in Reviewers
      PROVE  HandOf(p)'
  BY <1>0, <1>12 DEF BindBatch
<1>13. ASSUME Reject(p), p \in Reviewers
      PROVE  HandOf(p)'
  <2>1. SetsRow(at[p].entry, "failed", stepRuns[at[p].entry].job)
    BY <1>13, RejectDoes
  <2>2. PICK a \in InHand : /\ at' = [at EXCEPT ![p] = a] /\ a.run = at[p].run /\ a.step = at[p].step
                            /\ a.entry = at[p].entry
    BY <1>13, RejectInHand
  <2>3. /\ pc[p] = "reviewing" /\ pc' = [pc EXCEPT ![p] = "finish"] /\ UNCHANGED <<phase, todo, held>>
    BY <1>13 DEF Reject
  <2>4. QED
    BY <1>0, <1>13, <2>1, <2>2, <2>3 DEF SetsRow
<1>14. ASSUME CannotStart(p)
      PROVE  HandOf(p)'
  BY <1>0, <1>14 DEF CannotStart
<1>15. ASSUME Prefill(p)
      PROVE  HandOf(p)'
  BY <1>0, <1>15 DEF Prefill
<1>16. ASSUME AwaitReview(p)
      PROVE  HandOf(p)'
  BY <1>0, <1>16 DEF AwaitReview
<1>17. ASSUME EnqueueJob(p)
      PROVE  HandOf(p)'
  BY <1>0, <1>17 DEF EnqueueJob
<1>18. ASSUME InsertStepRun(p)
      PROVE  HandOf(p)'
  BY <1>0, <1>18 DEF InsertStepRun
<1>19. ASSUME StepVanished(p)
      PROVE  HandOf(p)'
  BY <1>0, <1>19 DEF StepVanished
<1>20. ASSUME FinishCurrentStep(p)
      PROVE  HandOf(p)'
  <2>1. at[p].run \in Runs /\ at[p].ok \in BOOLEAN /\ FinishStep(p, at[p].ok) /\ pc[p] # "loop"
    BY <1>20, Hand DEF FinishCurrentStep
  <2>2. Commit(p) /\ (Return(p) \/ \E t \in Steps : GoesOn(p, t))
    BY <2>1, FinishDoes DEF EndsRun
  <2>3. CASE Return(p)
    BY <1>0, <2>2, <2>3
  <2>4. ASSUME NEW t \in Steps, GoesOn(p, t) PROVE HandOf(p)'
    BY <1>0, <2>1, <2>2, <2>4 DEF GoesOn
  <2>5. QED
    BY <2>2, <2>3, <2>4
<1>21. ASSUME FailStep(p)
      PROVE  HandOf(p)'
  <2>1. at[p].run \in Runs /\ at[p].ok \in BOOLEAN /\ FinishStep(p, FALSE) /\ pc[p] # "loop"
    BY <1>21, Hand DEF FailStep
  <2>2. Commit(p) /\ (Return(p) \/ \E t \in Steps : GoesOn(p, t))
    BY <2>1, FinishDoes DEF EndsRun
  <2>3. CASE Return(p)
    BY <1>0, <2>2, <2>3
  <2>4. ASSUME NEW t \in Steps, GoesOn(p, t) PROVE HandOf(p)'
    BY <1>0, <2>1, <2>2, <2>4 DEF GoesOn
  <2>5. QED
    BY <2>2, <2>3, <2>4
<1>22. ASSUME PrefillRollsBack(p)
      PROVE  HandOf(p)'
  BY <1>0, <1>22 DEF PrefillRollsBack
<1>23. ASSUME Abort(p)
      PROVE  HandOf(p)'
  BY <1>0, <1>23 DEF Abort
<1>24. QED
  BY <1>1, <1>2, <1>3, <1>4, <1>5, <1>6, <1>7, <1>8, <1>9, <1>10, <1>11, <1>12, <1>13, <1>14, <1>15, <1>16, <1>17, <1>18, <1>19, <1>20, <1>21, <1>22, <1>23
     DEF Acts, Tick, Review, Advance

LEMMA StepHands ==
  ASSUME TypeOK, HandInv, [Next]_vars
  PROVE  TypeOK' /\ HandInv'
<1>1. TypeOK'
  <2>1. DataType' /\ RowType' /\ AgentType' /\ BoundType'
    BY StepData, StepRows, StepAgents
  <2>2. QED
    BY <2>1 DEF TypeOK, DataType, RowType, AgentType, BoundType
<1>2. RowsKept
  BY RowsAreKept
<1>3. ASSUME NEW q \in Agents, UNCHANGED <<phase[q], pc[q], todo[q], held[q], at[q]>>
      PROVE  HandOf(q)'
  <2>1. HandOf(q) /\ Len(jobs) \in Nat /\ Len(jobs') \in Nat
    BY <1>1 DEF HandInv, TypeOK
  <2>2. QED
    BY <1>2, <1>3, <2>1 DEF HandOf, RowsKept
<1>4. CASE System
  <2>1. UNCHANGED agentVars
    BY <1>4, SystemRests
  <2>2. ASSUME NEW q \in Agents PROVE HandOf(q)'
    <3>1. UNCHANGED <<phase[q], pc[q], todo[q], held[q], at[q]>>
      BY <2>1 DEF agentVars
    <3>2. QED
      BY <1>3, <3>1
  <2>3. QED
    BY <1>1, <2>2 DEF HandInv
<1>5. ASSUME NEW p \in Agents, Acts(p) PROVE HandInv'
  <2>1. HandOf(p)'
    BY <1>1, <1>2, <1>5, ActsHand
  <2>2. ASSUME NEW q \in Agents \ {p} PROVE HandOf(q)'
    BY <1>3, <1>5, OneAgent DEF OthersRest
  <2>3. QED
    BY <2>1, <2>2 DEF HandInv
<1>6. QED
  BY <1>1, <1>4, <1>5, StepCases

LEMMA InitHands == Init => TypeOK /\ HandInv
<1> SUFFICES ASSUME Init PROVE TypeOK /\ HandInv
  OBVIOUS
<1> USE DEF Init
<1>1. DataType /\ RowType /\ BoundType
  BY DEF DataType, RowType, BoundType, RunStatus, WorkflowAssumption
<1>2. AgentType
  BY IdleType DEF AgentType, Pcs
<1>3. HandInv
  BY DEF HandInv, HandOf
<1>4. QED
  BY <1>1, <1>2, <1>3, TypeParts

(* What is in hand is in the database. *)
THEOREM HandsHold == Spec => [](TypeOK /\ HandInv)
<1>1. TypeOK /\ HandInv /\ [Next]_vars => (TypeOK /\ HandInv)'
  BY StepHands
<1>2. QED
  BY <1>1, InitHands, PTL DEF Spec

(* The variables keep their types, whatever the crashes, the edits and the *)
(* repositories that cannot be read.                                       *)
THEOREM WorkflowTypeCorrect == Spec => []TypeOK
BY HandsHold, PTL

-----------------------------------------------------------------------------
(* What a step may change, seen from a row, a job and an agent.            *)

Stays(p) == pc'[p] = pc[p] /\ at'[p] = at[p]

LEMMA PlaceChanges ==
  ASSUME TypeOK, HandInv, NEW p \in Agents, Acts(p)
  PROVE  \/ Stays(p)
         \/ pc'[p] = "loop"
         \/ pc'[p] = "start" /\ (FinishCurrentStep(p) \/ FailStep(p) \/ \E r \in Runs : TakeQueued(p, r))
         \/ pc'[p] = "prefilled" /\ (Prefill(p) \/ PrefillRollsBack(p))
         \/ pc'[p] = "failing" /\ CannotStart(p)
         \/ pc'[p] = "started" /\ EnqueueJob(p)
         \/ pc'[p] = "checked" /\ p \in Procs /\ \E r \in Runs : ReadOutcome(p, r)
         \/ pc'[p] = "finish" /\ ((CommitOutcome(p) /\ p \in Procs) \/ (Reject(p) /\ p \in Reviewers))
         \/ pc'[p] = "reviewing" /\ p \in Reviewers /\ \E k \in DOMAIN stepRuns : OpenReview(p, k)
         \/ pc'[p] = "approved" /\ p \in Reviewers /\ Approve(p)
<1> DEFINE Goal ==
         \/ Stays(p)
         \/ pc'[p] = "loop"
         \/ pc'[p] = "start" /\ (FinishCurrentStep(p) \/ FailStep(p) \/ \E r \in Runs : TakeQueued(p, r))
         \/ pc'[p] = "prefilled" /\ (Prefill(p) \/ PrefillRollsBack(p))
         \/ pc'[p] = "failing" /\ CannotStart(p)
         \/ pc'[p] = "started" /\ EnqueueJob(p)
         \/ pc'[p] = "checked" /\ p \in Procs /\ \E r \in Runs : ReadOutcome(p, r)
         \/ pc'[p] = "finish" /\ ((CommitOutcome(p) /\ p \in Procs) \/ (Reject(p) /\ p \in Reviewers))
         \/ pc'[p] = "reviewing" /\ p \in Reviewers /\ \E k \in DOMAIN stepRuns : OpenReview(p, k)
         \/ pc'[p] = "approved" /\ p \in Reviewers /\ Approve(p)
<1>0. pc \in [Agents -> Pcs]
  BY DEF TypeOK
<1>a. ASSUME NEW where, pc' = [pc EXCEPT ![p] = where] PROVE pc'[p] = where
  BY <1>0, <1>a
<1>b. ASSUME UNCHANGED <<pc, at>> PROVE Goal
  BY <1>b DEF Stays
<1>1. ASSUME ListQueued(p), p \in Procs
      PROVE  Goal
  BY <1>b, <1>1 DEF ListQueued
<1>2. ASSUME NEW r \in Runs, TakeQueued(p, r), p \in Procs
      PROVE  Goal
  <2>1. pc'[p] = "start"
    BY <1>a, <1>2 DEF TakeQueued, Goto
  <2>2. QED
    BY <1>2, <2>1
<1>3. ASSUME NEW r \in Runs, FinishWithoutSteps(p, r), p \in Procs
      PROVE  Goal
  BY <1>b, <1>3 DEF FinishWithoutSteps
<1>4. ASSUME ListRunning(p), p \in Procs
      PROVE  Goal
  BY <1>b, <1>4 DEF ListRunning
<1>5. ASSUME NEW r \in Runs, NothingToDecide(p, r), p \in Procs
      PROVE  Goal
  BY <1>b, <1>5 DEF NothingToDecide
<1>6. ASSUME NEW r \in Runs, ReadOutcome(p, r), p \in Procs
      PROVE  Goal
  <2>1. pc'[p] = "checked"
    BY <1>a, <1>6 DEF ReadOutcome, Goto
  <2>2. QED
    BY <1>6, <2>1
<1>7. ASSUME CommitOutcome(p), p \in Procs
      PROVE  Goal
  <2>1. pc'[p] = "finish"
    BY <1>a, <1>7 DEF CommitOutcome, Goto
  <2>2. QED
    BY <1>7, <2>1
<1>8. ASSUME EndTick(p), p \in Procs
      PROVE  Goal
  BY <1>b, <1>8 DEF EndTick
<1>9. ASSUME NEW k \in DOMAIN stepRuns, OpenReview(p, k), p \in Reviewers
      PROVE  Goal
  <2>1. pc'[p] = "reviewing"
    BY <1>a, <1>9 DEF OpenReview, Goto
  <2>2. QED
    BY <1>9, <2>1
<1>10. ASSUME CannotApprove(p), p \in Reviewers
      PROVE  Goal
  BY <1>a, <1>10 DEF CannotApprove, Return
<1>11. ASSUME Approve(p), p \in Reviewers
      PROVE  Goal
  <2>1. pc'[p] = "approved"
    BY <1>a, <1>11 DEF Approve, Goto
  <2>2. QED
    BY <1>11, <2>1
<1>12. ASSUME BindBatch(p), p \in Reviewers
      PROVE  Goal
  BY <1>a, <1>12 DEF BindBatch, Return
<1>13. ASSUME Reject(p), p \in Reviewers
      PROVE  Goal
  <2>1. pc'[p] = "finish"
    BY <1>a, <1>13 DEF Reject, Goto
  <2>2. QED
    BY <1>13, <2>1
<1>14. ASSUME CannotStart(p)
      PROVE  Goal
  <2>1. pc'[p] = "failing"
    BY <1>a, <1>14 DEF CannotStart, Goto
  <2>2. QED
    BY <1>14, <2>1
<1>15. ASSUME Prefill(p)
      PROVE  Goal
  <2>1. pc'[p] = "prefilled"
    BY <1>a, <1>15 DEF Prefill, Goto
  <2>2. QED
    BY <1>15, <2>1
<1>16. ASSUME AwaitReview(p)
      PROVE  Goal
  BY <1>a, <1>16 DEF AwaitReview, Return
<1>17. ASSUME EnqueueJob(p)
      PROVE  Goal
  <2>1. pc'[p] = "started"
    BY <1>a, <1>17 DEF EnqueueJob, Goto
  <2>2. QED
    BY <1>17, <2>1
<1>18. ASSUME InsertStepRun(p)
      PROVE  Goal
  BY <1>a, <1>18 DEF InsertStepRun, Return
<1>19. ASSUME StepVanished(p)
      PROVE  Goal
  BY <1>a, <1>19 DEF StepVanished
<1>20. ASSUME FinishCurrentStep(p)
      PROVE  Goal
  <2>1. pc'[p] = "loop" \/ pc'[p] = "start"
    BY <1>a, <1>20 DEF FinishCurrentStep, FinishStep, Return, Goto
  <2>2. QED
    BY <1>20, <2>1
<1>21. ASSUME FailStep(p)
      PROVE  Goal
  <2>1. pc'[p] = "loop" \/ pc'[p] = "start"
    BY <1>a, <1>21 DEF FailStep, FinishStep, Return, Goto
  <2>2. QED
    BY <1>21, <2>1
<1>22. ASSUME PrefillRollsBack(p)
      PROVE  Goal
  <2>1. pc'[p] = "prefilled"
    BY <1>a, <1>22 DEF PrefillRollsBack, Goto
  <2>2. QED
    BY <1>22, <2>1
<1>23. ASSUME Abort(p)
      PROVE  Goal
  BY <1>a, <1>23 DEF Abort
<1>24. QED
  BY <1>1, <1>2, <1>3, <1>4, <1>5, <1>6, <1>7, <1>8, <1>9, <1>10, <1>11, <1>12, <1>13, <1>14, <1>15, <1>16, <1>17, <1>18, <1>19, <1>20, <1>21, <1>22, <1>23
     DEF Acts, Tick, Review, Advance

LEMMA RowChanges ==
  ASSUME TypeOK, HandInv, [Next]_vars, NEW i \in DOMAIN stepRuns
  PROVE  \/ stepRuns'[i] = stepRuns[i]
         \/ \E p \in Procs : /\ CommitOutcome(p) /\ at[p].entry = i
                             /\ SetsRow(i, Outcome(at[p].ok), stepRuns[i].job)
         \/ \E v \in Reviewers : BindBatch(v) /\ at[v].entry = i /\ SetsRow(i, "running", at[v].job)
         \/ \E v \in Reviewers : Reject(v) /\ at[v].entry = i /\ SetsRow(i, "failed", stepRuns[i].job)
<1> DEFINE Goal ==
         \/ stepRuns'[i] = stepRuns[i]
         \/ \E p \in Procs : /\ CommitOutcome(p) /\ at[p].entry = i
                             /\ SetsRow(i, Outcome(at[p].ok), stepRuns[i].job)
         \/ \E v \in Reviewers : BindBatch(v) /\ at[v].entry = i /\ SetsRow(i, "running", at[v].job)
         \/ \E v \in Reviewers : Reject(v) /\ at[v].entry = i /\ SetsRow(i, "failed", stepRuns[i].job)
<1>a. ASSUME UNCHANGED stepRuns PROVE Goal
  BY <1>a
<1>b. ASSUME NEW r, NEW s, NEW st, NEW j, AddsRow(r, s, st, j) PROVE Goal
  BY <1>b DEF AddsRow
<1>1. ASSUME NEW r \in Runs, EnqueueWorkflowRun(r)
      PROVE  Goal
  BY <1>a, <1>1 DEF EnqueueWorkflowRun
<1>2. ASSUME NEW j \in DOMAIN jobs, JobEnds(j)
      PROVE  Goal
  BY <1>a, <1>2 DEF JobEnds
<1>3. ASSUME NEW s \in Steps, ReadNextOrder(s)
      PROVE  Goal
  BY <1>a, <1>3 DEF ReadNextOrder, Edit
<1>4. ASSUME NEW s \in Steps, AddStep(s)
      PROVE  Goal
  BY <1>a, <1>4 DEF AddStep
<1>5. ASSUME NEW s \in Steps, DeleteStep(s)
      PROVE  Goal
  BY <1>a, <1>5 DEF DeleteStep, Edit
<1>6. ASSUME ReorderSteps PROVE Goal
  BY <1>a, <1>6 DEF ReorderSteps, Edit
<1>7. ASSUME NEW p \in Procs, ListQueued(p)
      PROVE  Goal
  BY <1>a, <1>7 DEF ListQueued
<1>8. ASSUME NEW p \in Procs, NEW r \in Runs, TakeQueued(p, r)
      PROVE  Goal
  BY <1>a, <1>8 DEF TakeQueued
<1>9. ASSUME NEW p \in Procs, NEW r \in Runs, FinishWithoutSteps(p, r)
      PROVE  Goal
  BY <1>a, <1>9 DEF FinishWithoutSteps
<1>10. ASSUME NEW p \in Procs, ListRunning(p)
      PROVE  Goal
  BY <1>a, <1>10 DEF ListRunning
<1>11. ASSUME NEW p \in Procs, NEW r \in Runs, NothingToDecide(p, r)
      PROVE  Goal
  BY <1>a, <1>11 DEF NothingToDecide
<1>12. ASSUME NEW p \in Procs, NEW r \in Runs, ReadOutcome(p, r)
      PROVE  Goal
  BY <1>a, <1>12 DEF ReadOutcome
<1>13. ASSUME NEW p \in Procs, CommitOutcome(p)
      PROVE  Goal
  <2>1. SetsRow(at[p].entry, Outcome(at[p].ok), stepRuns[at[p].entry].job)
    BY <1>13, CommitOutcomeDoes
  <2>2. CASE at[p].entry = i
    BY <1>13, <2>1, <2>2
  <2>3. CASE at[p].entry # i
    BY <2>1, <2>3 DEF SetsRow
  <2>4. QED
    BY <2>2, <2>3
<1>14. ASSUME NEW p \in Procs, EndTick(p)
      PROVE  Goal
  BY <1>a, <1>14 DEF EndTick
<1>15. ASSUME NEW v \in Reviewers, NEW k \in DOMAIN stepRuns, OpenReview(v, k)
      PROVE  Goal
  BY <1>a, <1>15 DEF OpenReview
<1>16. ASSUME NEW v \in Reviewers, CannotApprove(v)
      PROVE  Goal
  BY <1>a, <1>16 DEF CannotApprove
<1>17. ASSUME NEW v \in Reviewers, Approve(v)
      PROVE  Goal
  BY <1>a, <1>17 DEF Approve
<1>18. ASSUME NEW v \in Reviewers, BindBatch(v)
      PROVE  Goal
  <2>1. SetsRow(at[v].entry, "running", at[v].job)
    BY <1>18, BindBatchDoes
  <2>2. CASE at[v].entry = i
    BY <1>18, <2>1, <2>2
  <2>3. CASE at[v].entry # i
    BY <2>1, <2>3 DEF SetsRow
  <2>4. QED
    BY <2>2, <2>3
<1>19. ASSUME NEW v \in Reviewers, Reject(v)
      PROVE  Goal
  <2>1. SetsRow(at[v].entry, "failed", stepRuns[at[v].entry].job)
    BY <1>19, RejectDoes
  <2>2. CASE at[v].entry = i
    BY <1>19, <2>1, <2>2
  <2>3. CASE at[v].entry # i
    BY <2>1, <2>3 DEF SetsRow
  <2>4. QED
    BY <2>2, <2>3
<1>20. ASSUME NEW p \in Agents, CannotStart(p)
      PROVE  Goal
  BY <1>a, <1>20 DEF CannotStart
<1>21. ASSUME NEW p \in Agents, Prefill(p)
      PROVE  Goal
  BY <1>a, <1>21 DEF Prefill
<1>22. ASSUME NEW p \in Agents, AwaitReview(p)
      PROVE  Goal
  BY <1>b, <1>22, AwaitReviewDoes
<1>23. ASSUME NEW p \in Agents, EnqueueJob(p)
      PROVE  Goal
  BY <1>a, <1>23 DEF EnqueueJob
<1>24. ASSUME NEW p \in Agents, InsertStepRun(p)
      PROVE  Goal
  BY <1>b, <1>24, InsertStepRunDoes
<1>25. ASSUME NEW p \in Agents, StepVanished(p)
      PROVE  Goal
  BY <1>a, <1>25 DEF StepVanished
<1>26. ASSUME NEW p \in Agents, FinishCurrentStep(p)
      PROVE  Goal
  BY <1>a, <1>26 DEF FinishCurrentStep
<1>27. ASSUME NEW p \in Agents, FailStep(p)
      PROVE  Goal
  BY <1>b, <1>27, FailStepDoes
<1>28. ASSUME NEW p \in Agents, PrefillRollsBack(p)
      PROVE  Goal
  BY <1>a, <1>28 DEF PrefillRollsBack
<1>29. ASSUME NEW p \in Agents, Abort(p)
      PROVE  Goal
  BY <1>a, <1>29 DEF Abort
<1>30. CASE UNCHANGED vars
  BY <1>30 DEF vars
<1>31. QED
  BY <1>1, <1>2, <1>3, <1>4, <1>5, <1>6, <1>7, <1>8, <1>9, <1>10, <1>11, <1>12, <1>13, <1>14, <1>15, <1>16, <1>17, <1>18, <1>19, <1>20, <1>21, <1>22, <1>23, <1>24, <1>25, <1>26, <1>27, <1>28, <1>29, <1>30
     DEF Next, Tick, Review, Advance

LEMMA NewRows ==
  ASSUME TypeOK, HandInv, [Next]_vars, NEW i \in DOMAIN stepRuns' \ DOMAIN stepRuns
  PROVE  \E p \in Agents :
           /\ stepRuns'[i].run = at[p].run /\ stepRuns'[i].step = at[p].step
           /\ \/ AwaitReview(p) /\ stepRuns'[i].status = "awaiting_review" /\ stepRuns'[i].job = 0
              \/ InsertStepRun(p) /\ stepRuns'[i].status = "running" /\ stepRuns'[i].job = at[p].job
              \/ FailStep(p) /\ stepRuns'[i].status = "failed" /\ stepRuns'[i].job = 0
<1> DEFINE Goal ==
         \E p \in Agents :
           /\ stepRuns'[i].run = at[p].run /\ stepRuns'[i].step = at[p].step
           /\ \/ AwaitReview(p) /\ stepRuns'[i].status = "awaiting_review" /\ stepRuns'[i].job = 0
              \/ InsertStepRun(p) /\ stepRuns'[i].status = "running" /\ stepRuns'[i].job = at[p].job
              \/ FailStep(p) /\ stepRuns'[i].status = "failed" /\ stepRuns'[i].job = 0
<1>a. ASSUME DOMAIN stepRuns' = DOMAIN stepRuns PROVE Goal
  BY <1>a
<1>b. ASSUME NEW p \in Agents, NEW st, NEW j, AddsRow(at[p].run, at[p].step, st, j)
      PROVE  /\ stepRuns'[i].run = at[p].run /\ stepRuns'[i].step = at[p].step
             /\ stepRuns'[i].status = st /\ stepRuns'[i].job = j
  BY <1>b DEF AddsRow
<1>1. ASSUME NEW r \in Runs, EnqueueWorkflowRun(r)
      PROVE  Goal
  BY <1>a, <1>1 DEF EnqueueWorkflowRun
<1>2. ASSUME NEW j \in DOMAIN jobs, JobEnds(j)
      PROVE  Goal
  BY <1>a, <1>2 DEF JobEnds
<1>3. ASSUME NEW s \in Steps, ReadNextOrder(s)
      PROVE  Goal
  BY <1>a, <1>3 DEF ReadNextOrder, Edit
<1>4. ASSUME NEW s \in Steps, AddStep(s)
      PROVE  Goal
  BY <1>a, <1>4 DEF AddStep
<1>5. ASSUME NEW s \in Steps, DeleteStep(s)
      PROVE  Goal
  BY <1>a, <1>5 DEF DeleteStep, Edit
<1>6. ASSUME ReorderSteps PROVE Goal
  BY <1>a, <1>6 DEF ReorderSteps, Edit
<1>7. ASSUME NEW p \in Procs, ListQueued(p)
      PROVE  Goal
  BY <1>a, <1>7 DEF ListQueued
<1>8. ASSUME NEW p \in Procs, NEW r \in Runs, TakeQueued(p, r)
      PROVE  Goal
  BY <1>a, <1>8 DEF TakeQueued
<1>9. ASSUME NEW p \in Procs, NEW r \in Runs, FinishWithoutSteps(p, r)
      PROVE  Goal
  BY <1>a, <1>9 DEF FinishWithoutSteps
<1>10. ASSUME NEW p \in Procs, ListRunning(p)
      PROVE  Goal
  BY <1>a, <1>10 DEF ListRunning
<1>11. ASSUME NEW p \in Procs, NEW r \in Runs, NothingToDecide(p, r)
      PROVE  Goal
  BY <1>a, <1>11 DEF NothingToDecide
<1>12. ASSUME NEW p \in Procs, NEW r \in Runs, ReadOutcome(p, r)
      PROVE  Goal
  BY <1>a, <1>12 DEF ReadOutcome
<1>13. ASSUME NEW p \in Procs, CommitOutcome(p)
      PROVE  Goal
  BY <1>a, <1>13, CommitOutcomeDoes DEF SetsRow
<1>14. ASSUME NEW p \in Procs, EndTick(p)
      PROVE  Goal
  BY <1>a, <1>14 DEF EndTick
<1>15. ASSUME NEW v \in Reviewers, NEW k \in DOMAIN stepRuns, OpenReview(v, k)
      PROVE  Goal
  BY <1>a, <1>15 DEF OpenReview
<1>16. ASSUME NEW v \in Reviewers, CannotApprove(v)
      PROVE  Goal
  BY <1>a, <1>16 DEF CannotApprove
<1>17. ASSUME NEW v \in Reviewers, Approve(v)
      PROVE  Goal
  BY <1>a, <1>17 DEF Approve
<1>18. ASSUME NEW v \in Reviewers, BindBatch(v)
      PROVE  Goal
  BY <1>a, <1>18, BindBatchDoes DEF SetsRow
<1>19. ASSUME NEW v \in Reviewers, Reject(v)
      PROVE  Goal
  BY <1>a, <1>19, RejectDoes DEF SetsRow
<1>20. ASSUME NEW p \in Agents, CannotStart(p)
      PROVE  Goal
  BY <1>a, <1>20 DEF CannotStart
<1>21. ASSUME NEW p \in Agents, Prefill(p)
      PROVE  Goal
  BY <1>a, <1>21 DEF Prefill
<1>22. ASSUME NEW p \in Agents, AwaitReview(p)
      PROVE  Goal
  <2>1. AddsRow(at[p].run, at[p].step, "awaiting_review", 0)
    BY <1>22, AwaitReviewDoes
  <2>2. QED
    BY <1>b, <1>22, <2>1
<1>23. ASSUME NEW p \in Agents, EnqueueJob(p)
      PROVE  Goal
  BY <1>a, <1>23 DEF EnqueueJob
<1>24. ASSUME NEW p \in Agents, InsertStepRun(p)
      PROVE  Goal
  <2>1. AddsRow(at[p].run, at[p].step, "running", at[p].job)
    BY <1>24, InsertStepRunDoes
  <2>2. QED
    BY <1>b, <1>24, <2>1
<1>25. ASSUME NEW p \in Agents, StepVanished(p)
      PROVE  Goal
  BY <1>a, <1>25 DEF StepVanished
<1>26. ASSUME NEW p \in Agents, FinishCurrentStep(p)
      PROVE  Goal
  BY <1>a, <1>26 DEF FinishCurrentStep
<1>27. ASSUME NEW p \in Agents, FailStep(p)
      PROVE  Goal
  <2>1. AddsRow(at[p].run, at[p].step, "failed", 0)
    BY <1>27, FailStepDoes
  <2>2. QED
    BY <1>b, <1>27, <2>1
<1>28. ASSUME NEW p \in Agents, PrefillRollsBack(p)
      PROVE  Goal
  BY <1>a, <1>28 DEF PrefillRollsBack
<1>29. ASSUME NEW p \in Agents, Abort(p)
      PROVE  Goal
  BY <1>a, <1>29 DEF Abort
<1>30. CASE UNCHANGED vars
  BY <1>30 DEF vars
<1>31. QED
  BY <1>1, <1>2, <1>3, <1>4, <1>5, <1>6, <1>7, <1>8, <1>9, <1>10, <1>11, <1>12, <1>13, <1>14, <1>15, <1>16, <1>17, <1>18, <1>19, <1>20, <1>21, <1>22, <1>23, <1>24, <1>25, <1>26, <1>27, <1>28, <1>29, <1>30
     DEF Next, Tick, Review, Advance

LEMMA JobChanges ==
  ASSUME TypeOK, HandInv, [Next]_vars
  PROVE  /\ DOMAIN jobs \subseteq DOMAIN jobs'
         /\ \A j \in DOMAIN jobs : jobs'[j].run = jobs[j].run /\ jobs'[j].step = jobs[j].step
         /\ \/ DOMAIN jobs' = DOMAIN jobs
            \/ \E p \in Agents : /\ EnqueueJob(p) \/ (p \in Reviewers /\ Approve(p))
                                 /\ AddsJob(at[p].run, at[p].step)
<1> DEFINE Goal ==
         /\ DOMAIN jobs \subseteq DOMAIN jobs'
         /\ \A j \in DOMAIN jobs : jobs'[j].run = jobs[j].run /\ jobs'[j].step = jobs[j].step
         /\ \/ DOMAIN jobs' = DOMAIN jobs
            \/ \E p \in Agents : /\ EnqueueJob(p) \/ (p \in Reviewers /\ Approve(p))
                                 /\ AddsJob(at[p].run, at[p].step)
<1>a. ASSUME UNCHANGED jobs PROVE Goal
  BY <1>a
<1>b. ASSUME NEW p \in Agents, EnqueueJob(p) \/ (p \in Reviewers /\ Approve(p)),
             AddsJob(at[p].run, at[p].step)
      PROVE  Goal
  <2>1. /\ DOMAIN jobs \subseteq DOMAIN jobs'
        /\ \A j \in DOMAIN jobs : jobs'[j].run = jobs[j].run /\ jobs'[j].step = jobs[j].step
    BY <1>b DEF AddsJob
  <2>2. QED
    BY <1>b, <2>1
<1>1. ASSUME NEW r \in Runs, EnqueueWorkflowRun(r)
      PROVE  Goal
  BY <1>a, <1>1 DEF EnqueueWorkflowRun
<1>2. ASSUME NEW j \in DOMAIN jobs, JobEnds(j)
      PROVE  Goal
  BY <1>2, JobEndsDoes
<1>3. ASSUME NEW s \in Steps, ReadNextOrder(s)
      PROVE  Goal
  BY <1>a, <1>3 DEF ReadNextOrder, Edit
<1>4. ASSUME NEW s \in Steps, AddStep(s)
      PROVE  Goal
  BY <1>a, <1>4 DEF AddStep
<1>5. ASSUME NEW s \in Steps, DeleteStep(s)
      PROVE  Goal
  BY <1>a, <1>5 DEF DeleteStep, Edit
<1>6. ASSUME ReorderSteps PROVE Goal
  BY <1>a, <1>6 DEF ReorderSteps, Edit
<1>7. ASSUME NEW p \in Procs, ListQueued(p)
      PROVE  Goal
  BY <1>a, <1>7 DEF ListQueued
<1>8. ASSUME NEW p \in Procs, NEW r \in Runs, TakeQueued(p, r)
      PROVE  Goal
  BY <1>a, <1>8 DEF TakeQueued
<1>9. ASSUME NEW p \in Procs, NEW r \in Runs, FinishWithoutSteps(p, r)
      PROVE  Goal
  BY <1>a, <1>9 DEF FinishWithoutSteps
<1>10. ASSUME NEW p \in Procs, ListRunning(p)
      PROVE  Goal
  BY <1>a, <1>10 DEF ListRunning
<1>11. ASSUME NEW p \in Procs, NEW r \in Runs, NothingToDecide(p, r)
      PROVE  Goal
  BY <1>a, <1>11 DEF NothingToDecide
<1>12. ASSUME NEW p \in Procs, NEW r \in Runs, ReadOutcome(p, r)
      PROVE  Goal
  BY <1>a, <1>12 DEF ReadOutcome
<1>13. ASSUME NEW p \in Procs, CommitOutcome(p)
      PROVE  Goal
  BY <1>a, <1>13 DEF CommitOutcome
<1>14. ASSUME NEW p \in Procs, EndTick(p)
      PROVE  Goal
  BY <1>a, <1>14 DEF EndTick
<1>15. ASSUME NEW v \in Reviewers, NEW k \in DOMAIN stepRuns, OpenReview(v, k)
      PROVE  Goal
  BY <1>a, <1>15 DEF OpenReview
<1>16. ASSUME NEW v \in Reviewers, CannotApprove(v)
      PROVE  Goal
  BY <1>a, <1>16 DEF CannotApprove
<1>17. ASSUME NEW v \in Reviewers, Approve(v)
      PROVE  Goal
  BY <1>b, <1>17, ApproveDoes DEF Agents
<1>18. ASSUME NEW v \in Reviewers, BindBatch(v)
      PROVE  Goal
  BY <1>a, <1>18 DEF BindBatch
<1>19. ASSUME NEW v \in Reviewers, Reject(v)
      PROVE  Goal
  BY <1>a, <1>19 DEF Reject
<1>20. ASSUME NEW p \in Agents, CannotStart(p)
      PROVE  Goal
  BY <1>a, <1>20 DEF CannotStart
<1>21. ASSUME NEW p \in Agents, Prefill(p)
      PROVE  Goal
  BY <1>a, <1>21 DEF Prefill
<1>22. ASSUME NEW p \in Agents, AwaitReview(p)
      PROVE  Goal
  BY <1>a, <1>22 DEF AwaitReview
<1>23. ASSUME NEW p \in Agents, EnqueueJob(p)
      PROVE  Goal
  BY <1>b, <1>23, EnqueueJobDoes
<1>24. ASSUME NEW p \in Agents, InsertStepRun(p)
      PROVE  Goal
  BY <1>a, <1>24 DEF InsertStepRun
<1>25. ASSUME NEW p \in Agents, StepVanished(p)
      PROVE  Goal
  BY <1>a, <1>25 DEF StepVanished
<1>26. ASSUME NEW p \in Agents, FinishCurrentStep(p)
      PROVE  Goal
  BY <1>a, <1>26 DEF FinishCurrentStep
<1>27. ASSUME NEW p \in Agents, FailStep(p)
      PROVE  Goal
  BY <1>a, <1>27 DEF FailStep
<1>28. ASSUME NEW p \in Agents, PrefillRollsBack(p)
      PROVE  Goal
  BY <1>a, <1>28 DEF PrefillRollsBack
<1>29. ASSUME NEW p \in Agents, Abort(p)
      PROVE  Goal
  BY <1>a, <1>29 DEF Abort
<1>30. CASE UNCHANGED vars
  BY <1>30 DEF vars
<1>31. QED
  BY <1>1, <1>2, <1>3, <1>4, <1>5, <1>6, <1>7, <1>8, <1>9, <1>10, <1>11, <1>12, <1>13, <1>14, <1>15, <1>16, <1>17, <1>18, <1>19, <1>20, <1>21, <1>22, <1>23, <1>24, <1>25, <1>26, <1>27, <1>28, <1>29, <1>30
     DEF Next, Tick, Review, Advance

-----------------------------------------------------------------------------
(* What agents hold, and what they have read of step runs.                 *)

(* The assumptions.  A tick that lists several runs releases the locks on  *)
(* all of them with its first commit, so that two processes may act on one *)
(* run: either there is one run or one process.  A second reviewer may act *)
(* on the review a first one has opened.  And a start that was rolled back *)
(* while its agent goes on leaves the run to be started again.             *)
OneRun      == \A r, x \in Runs : r = x
OneProcess  == \A p, q \in Procs : p = q
Exclusive   == OneRun \/ OneProcess
OneReviewer == \A v, w \in Reviewers : v = w
NoRollbacks == MaxGitFailures = 0

Busy(p)   == pc[p] # "loop"
Listed(p) == todo[p] \ {at[p].run}
RowsOf(r) == {k \in DOMAIN stepRuns : stepRuns[k].run = r}
Over(k)   == stepRuns[k].status \in {"success", "failed"}
Pending   == {"none", "queued"}

(* A row is held by one agent; with one run, what an agent has listed and  *)
(* not yet committed to it holds.                                          *)
LockInv ==
  /\ \A p, q \in Agents : p # q => held[p] \intersect held[q] = {}
  /\ OneRun => \A p \in Agents :
       /\ Listed(p) \subseteq held[p]
       /\ pc[p] = "checked" => at[p].run \in held[p]

(* Two agents never have the same run listed. *)
LEMMA ListedApart ==
  ASSUME TypeOK, HandInv, LockInv, Exclusive, NEW p \in Agents, NEW q \in Agents, p # q
  PROVE  Listed(p) \intersect Listed(q) = {}
<1>1. CASE OneRun
  BY <1>1 DEF LockInv
<1>2. CASE OneProcess
  <2>1. p \in Reviewers \/ q \in Reviewers
    BY <1>2 DEF OneProcess, Agents
  <2>2. QED
    BY <2>1 DEF HandInv, HandOf, Listed
<1>3. QED
  BY <1>1, <1>2 DEF Exclusive

(* Row locks: what an agent has listed it holds, until its first commit.   *)
LEMMA ActsLock ==
  ASSUME TypeOK, HandInv, LockInv, TypeOK', NEW p \in Agents, Acts(p)
  PROVE  LockInv'
<1>0. /\ TypeOK /\ HandInv /\ HandOf(p) /\ LockInv
      /\ at[p] \in InHand /\ Listed(p) \subseteq Runs /\ held[p] \subseteq Runs
  BY Hand DEF HandInv, Listed, TypeOK
<1>o. \A q \in Agents \ {p} : UNCHANGED <<pc[q], todo[q], held[q], at[q]>>
  BY OneAgent DEF OthersRest
<1>a. ASSUME \A q \in Agents \ {p} : held'[p] \intersect held[q] = {},
             OneRun => /\ Listed(p)' \subseteq held'[p]
                       /\ pc'[p] = "checked" => at'[p].run \in held'[p]
      PROVE  LockInv'
  <2>1. ASSUME NEW x \in Agents, NEW y \in Agents, x # y PROVE held'[x] \intersect held'[y] = {}
    BY <1>0, <1>o, <1>a, <2>1 DEF LockInv
  <2>2. ASSUME OneRun, NEW q \in Agents
        PROVE  /\ Listed(q)' \subseteq held'[q]
               /\ pc'[q] = "checked" => at'[q].run \in held'[q]
    <3>1. CASE q = p
      BY <1>a, <2>2, <3>1
    <3>2. CASE q # p
      BY <1>0, <1>o, <2>2, <3>2 DEF LockInv, Listed, Busy
    <3>3. QED
      BY <3>1, <3>2
  <2>3. QED
    BY <2>1, <2>2 DEF LockInv
<1>b. ASSUME Commit(p), OneRun => Listed(p)' = {}, pc'[p] # "checked"
      PROVE  LockInv'
  <2>1. held'[p] = {}
    BY <1>0, <1>b DEF Commit, TypeOK
  <2>2. QED
    BY <1>a, <1>b, <2>1
<1>c. ASSUME UNCHANGED held, Listed(p)' \subseteq Listed(p), pc'[p] # "checked"
      PROVE  LockInv'
  BY <1>0, <1>a, <1>c DEF LockInv
<1>d. ASSUME Return(p), Busy(p)
      PROVE  /\ pc'[p] = "loop" /\ Listed(p)' \subseteq Listed(p)
             /\ OneRun => Listed(p)' = {}
  <2>1. pc'[p] = "loop" /\ todo'[p] = todo[p] \ {at[p].run} /\ at[p].run \in Runs
    BY <1>0, <1>d DEF Return, TypeOK, HandOf, Busy
  <2>2. Listed(p)' \subseteq Listed(p)
    BY <2>1 DEF Listed
  <2>3. OneRun => Listed(p) = {}
    BY <1>0, <2>1 DEF OneRun, Listed
  <2>4. QED
    BY <2>1, <2>2, <2>3
<1>e. ASSUME NEW where, Goto(p, where), where \in Pcs, Busy(p), at'[p].run = at[p].run
      PROVE  /\ pc'[p] = where /\ Listed(p)' = Listed(p)
             /\ OneRun => Listed(p)' = {}
  <2>1. pc'[p] = where /\ Listed(p)' = Listed(p) /\ at[p].run \in Runs
    BY <1>0, <1>e DEF Goto, TypeOK, HandOf, Busy, Listed
  <2>2. OneRun => Listed(p) = {}
    BY <1>0, <2>1 DEF OneRun, Listed
  <2>3. QED
    BY <2>1, <2>2
<1>1. ASSUME ListQueued(p), p \in Procs
      PROVE  LockInv'
  <2>1. /\ pc'[p] = "loop" /\ held'[p] = Select(p, "queued") /\ Listed(p)' \subseteq held'[p]
    BY <1>0, <1>1, DisjointAgents DEF ListQueued, TypeOK, Listed, HandOf
  <2>2. QED
    BY <1>a, <2>1 DEF Select, Free
<1>2. ASSUME NEW r \in Runs, TakeQueued(p, r), p \in Procs
      PROVE  LockInv'
  <2>1. PICK a \in InHand : Hands(p, a) /\ a.run = r /\ a.step \in Steps
    BY <1>2, TakeQueuedDoes
  <2>2. /\ UNCHANGED held /\ at'[p].run = r /\ pc'[p] = "start"
        /\ Listed(p)' \subseteq Listed(p) /\ r \in Listed(p)
    BY SMTT(30), <1>0, <1>2, <2>1, IdleType DEF TakeQueued, Listed, Hands, Goto, HandOf, TypeOK, WorkflowAssumption
  <2>3. QED
    BY <1>0, <1>a, <2>2 DEF LockInv
<1>3. ASSUME NEW r \in Runs, FinishWithoutSteps(p, r), p \in Procs
      PROVE  LockInv'
  <2>1. pc'[p] = "loop" /\ Commit(p) /\ Listed(p)' \subseteq Runs \ {r}
    BY <1>0, <1>3 DEF FinishWithoutSteps, Listed, TypeOK
  <2>2. QED
    BY <1>b, <2>1 DEF OneRun
<1>4. ASSUME ListRunning(p), p \in Procs
      PROVE  LockInv'
  <2>1. /\ pc'[p] = "loop" /\ held'[p] = Select(p, "running") /\ Listed(p)' \subseteq held'[p]
    BY <1>0, <1>4 DEF ListRunning, TypeOK, Listed
  <2>2. QED
    BY <1>a, <2>1 DEF Select, Free
<1>5. ASSUME NEW r \in Runs, NothingToDecide(p, r), p \in Procs
      PROVE  LockInv'
  <2>1. pc'[p] = "loop" /\ UNCHANGED held /\ Listed(p)' \subseteq Listed(p)
    BY <1>0, <1>5 DEF NothingToDecide, Listed, TypeOK
  <2>2. QED
    BY <1>c, <2>1
<1>6. ASSUME NEW r \in Runs, ReadOutcome(p, r), p \in Procs
      PROVE  LockInv'
  <2>1. PICK a \in InHand : Hands(p, a) /\ a.run = r
    BY <1>0, <1>6, ReadOutcomeDoes
  <2>2. UNCHANGED held /\ at'[p].run = r /\ pc'[p] = "checked" /\ Listed(p)' \subseteq Listed(p) /\ r \in Listed(p)
    <3>1. pc[p] = "loop" /\ Goto(p, "checked") /\ r \in todo[p] /\ UNCHANGED held
      BY <1>6 DEF ReadOutcome
    <3>2. at[p] = Idle
      BY <1>0, <3>1 DEF HandOf
    <3>3. QED
      BY <1>0, <2>1, <3>1, <3>2, IdleType DEF Listed, Hands, Goto, TypeOK, WorkflowAssumption
  <2>3. QED
    BY <1>0, <1>a, <2>2 DEF LockInv
<1>7. ASSUME CommitOutcome(p), p \in Procs
      PROVE  LockInv'
  <2>1. Goto(p, "finish") /\ Busy(p) /\ Commit(p) /\ UNCHANGED at
    BY <1>7 DEF CommitOutcome, Busy
  <2>2. "finish" \in Pcs
    BY DEF Pcs
  <2>3. QED
    BY <1>b, <1>e, <2>1, <2>2
<1>8. ASSUME EndTick(p), p \in Procs
      PROVE  LockInv'
  <2>1. Commit(p) /\ pc'[p] = "loop" /\ Listed(p)' = {}
    BY <1>0, <1>8 DEF EndTick, TypeOK, Listed
  <2>2. QED
    BY <1>b, <2>1
<1>9. ASSUME NEW k \in DOMAIN stepRuns, OpenReview(p, k), p \in Reviewers
      PROVE  LockInv'
  <2>1. PICK a \in InHand : Hands(p, a)
    BY <1>0, <1>9, OpenReviewDoes
  <2>2. UNCHANGED held /\ pc'[p] = "reviewing" /\ Listed(p)' \subseteq Listed(p)
    BY <1>0, <1>9 DEF OpenReview, Goto, HandOf, TypeOK, Listed
  <2>3. QED
    BY <1>c, <2>2
<1>10. ASSUME CannotApprove(p), p \in Reviewers
      PROVE  LockInv'
  <2>1. Return(p) /\ Busy(p) /\ UNCHANGED held
    BY <1>10 DEF CannotApprove, Busy
  <2>2. QED
    BY <1>c, <1>d, <2>1
<1>11. ASSUME Approve(p), p \in Reviewers
      PROVE  LockInv'
  <2>1. PICK a \in InHand : Hands(p, a) /\ a.run = at[p].run
    BY <1>0, <1>11, JobInHand DEF Approve
  <2>2. Goto(p, "approved") /\ Busy(p) /\ UNCHANGED held /\ "approved" \in Pcs
    BY <1>11 DEF Approve, Busy, Pcs
  <2>3. at'[p].run = at[p].run
    BY <1>0, <2>1 DEF Hands, TypeOK
  <2>4. QED
    BY <1>c, <1>e, <2>2, <2>3
<1>12. ASSUME BindBatch(p), p \in Reviewers
      PROVE  LockInv'
  <2>1. Return(p) /\ Busy(p) /\ UNCHANGED held
    BY <1>12 DEF BindBatch, Busy
  <2>2. QED
    BY <1>c, <1>d, <2>1
<1>13. ASSUME Reject(p), p \in Reviewers
      PROVE  LockInv'
  <2>1. PICK a \in InHand : Hands(p, a) /\ a.run = at[p].run
    BY <1>0, <1>13, RejectInHand
  <2>2. Goto(p, "finish") /\ Busy(p) /\ UNCHANGED held /\ "finish" \in Pcs
    BY <1>13 DEF Reject, Busy, Pcs
  <2>3. at'[p].run = at[p].run
    BY <1>0, <2>1 DEF Hands, TypeOK
  <2>4. QED
    BY <1>c, <1>e, <2>2, <2>3
<1>14. ASSUME CannotStart(p)
      PROVE  LockInv'
  <2>1. Goto(p, "failing") /\ Busy(p) /\ Commit(p) /\ UNCHANGED at
    BY <1>14 DEF CannotStart, Busy
  <2>2. "failing" \in Pcs
    BY DEF Pcs
  <2>3. QED
    BY <1>b, <1>e, <2>1, <2>2
<1>15. ASSUME Prefill(p)
      PROVE  LockInv'
  <2>1. Goto(p, "prefilled") /\ Busy(p) /\ Commit(p) /\ UNCHANGED at
    BY <1>15 DEF Prefill, Busy
  <2>2. "prefilled" \in Pcs
    BY DEF Pcs
  <2>3. QED
    BY <1>b, <1>e, <2>1, <2>2
<1>16. ASSUME AwaitReview(p)
      PROVE  LockInv'
  <2>1. Return(p) /\ Busy(p) /\ Commit(p)
    BY <1>16 DEF AwaitReview, Busy
  <2>2. QED
    BY <1>b, <1>d, <2>1
<1>17. ASSUME EnqueueJob(p)
      PROVE  LockInv'
  <2>1. PICK a \in InHand : Hands(p, a) /\ a.run = at[p].run
    BY <1>0, <1>17, JobInHand DEF EnqueueJob
  <2>2. Goto(p, "started") /\ Busy(p) /\ Commit(p) /\ "started" \in Pcs
    BY <1>17 DEF EnqueueJob, Busy, Pcs
  <2>3. at'[p].run = at[p].run
    BY <1>0, <2>1 DEF Hands, TypeOK
  <2>4. QED
    BY <1>b, <1>e, <2>2, <2>3
<1>18. ASSUME InsertStepRun(p)
      PROVE  LockInv'
  <2>1. Return(p) /\ Busy(p) /\ Commit(p)
    BY <1>18 DEF InsertStepRun, Busy
  <2>2. QED
    BY <1>b, <1>d, <2>1
<1>19. ASSUME StepVanished(p)
      PROVE  LockInv'
  <2>1. Commit(p) /\ pc'[p] = "loop" /\ Listed(p)' = {}
    BY <1>0, <1>19 DEF StepVanished, TypeOK, Listed
  <2>2. QED
    BY <1>b, <2>1
<1>20. ASSUME FinishCurrentStep(p)
      PROVE  LockInv'
  <2>1. /\ at[p].run \in Runs /\ at[p].ok \in BOOLEAN /\ FinishStep(p, at[p].ok) /\ Busy(p)
        /\ pc[p] = "finish"
    BY <1>0, <1>20, Hand DEF FinishCurrentStep, Busy
  <2>2. Commit(p) /\ (Return(p) \/ \E t \in Steps : GoesOn(p, t))
    BY <1>0, <2>1, FinishDoes DEF EndsRun
  <2>3. ASSUME NEW t \in Steps, GoesOn(p, t) PROVE LockInv'
    <3>1. Goto(p, "start") /\ at'[p].run = at[p].run
      BY <1>0, <2>3 DEF GoesOn, Hands, TypeOK
    <3>2. "start" \in Pcs
      BY DEF Pcs
    <3>3. QED
      BY <1>b, <1>e, <2>1, <2>2, <3>1, <3>2
  <2>4. QED
    BY <1>b, <1>d, <2>1, <2>2, <2>3
<1>21. ASSUME FailStep(p)
      PROVE  LockInv'
  <2>1. /\ at[p].run \in Runs /\ at[p].ok \in BOOLEAN /\ FinishStep(p, FALSE) /\ Busy(p)
        /\ pc[p] = "failing"
    BY <1>0, <1>21, Hand DEF FailStep, Busy
  <2>2. Commit(p) /\ (Return(p) \/ \E t \in Steps : GoesOn(p, t))
    BY <1>0, <2>1, FinishDoes DEF EndsRun
  <2>3. ASSUME NEW t \in Steps, GoesOn(p, t) PROVE LockInv'
    <3>1. Goto(p, "start") /\ at'[p].run = at[p].run
      BY <1>0, <2>3 DEF GoesOn, Hands, TypeOK
    <3>2. "start" \in Pcs
      BY DEF Pcs
    <3>3. QED
      BY <1>b, <1>e, <2>1, <2>2, <3>1, <3>2
  <2>4. QED
    BY <1>b, <1>d, <2>1, <2>2, <2>3
<1>22. ASSUME PrefillRollsBack(p)
      PROVE  LockInv'
  <2>1. Goto(p, "prefilled") /\ Busy(p) /\ Commit(p) /\ UNCHANGED at
    BY <1>22 DEF PrefillRollsBack, Busy
  <2>2. "prefilled" \in Pcs
    BY DEF Pcs
  <2>3. QED
    BY <1>b, <1>e, <2>1, <2>2
<1>23. ASSUME Abort(p)
      PROVE  LockInv'
  <2>1. Commit(p) /\ pc'[p] = "loop" /\ Listed(p)' = {}
    BY <1>0, <1>23 DEF Abort, TypeOK, Listed
  <2>2. QED
    BY <1>b, <2>1
<1>24. QED
  BY <1>1, <1>2, <1>3, <1>4, <1>5, <1>6, <1>7, <1>8, <1>9, <1>10, <1>11, <1>12, <1>13, <1>14, <1>15, <1>16, <1>17, <1>18, <1>19, <1>20, <1>21, <1>22, <1>23
     DEF Acts, Tick, Review, Advance

(* The step run in hand is as it was read, or as the agent wrote it.       *)
WatchOf(p) ==
  /\ pc[p] = "checked" => stepRuns[at[p].entry].status = "running"
  /\ pc[p] \in {"reviewing", "approved"} => stepRuns[at[p].entry].status = "awaiting_review"
  /\ pc[p] = "finish" => stepRuns[at[p].entry].status = Outcome(at[p].ok)
WatchInv == \A p \in Agents : WatchOf(p)

LEMMA StepLock ==
  ASSUME TypeOK, HandInv, LockInv, [Next]_vars
  PROVE  LockInv'
<1>1. TypeOK'
  BY StepHands
<1>2. CASE System
  BY <1>2, SystemRests DEF LockInv, agentVars, Listed
<1>3. QED
  BY <1>1, <1>2, ActsLock, StepCases

LEMMA StaysOrActs ==
  ASSUME TypeOK, [Next]_vars, NEW q \in Agents
  PROVE  Stays(q) \/ Acts(q)
<1>1. CASE System
  BY <1>1, SystemRests DEF agentVars, Stays
<1>2. ASSUME NEW p \in Agents, Acts(p) PROVE Stays(q) \/ Acts(q)
  BY <1>2, OneAgent DEF OthersRest, Stays
<1>3. QED
  BY <1>1, <1>2, StepCases

(* Only the agent that has a step run in hand changes it.                  *)
LEMMA StepWatch ==
  ASSUME TypeOK, HandInv, LockInv, WatchInv, Exclusive, OneReviewer, [Next]_vars
  PROVE  /\ WatchInv'
         /\ \A k \in DOMAIN stepRuns :
              /\ Over(k) => stepRuns'[k] = stepRuns[k]
              /\ \A p \in Agents :
                   pc[p] \in {"checked", "reviewing", "approved"} /\ at[p].entry = k =>
                     stepRuns'[k] = stepRuns[k] \/ pc'[p] \in {"loop", "finish"}
<1>0. \A p \in Agents : WatchOf(p) /\ HandOf(p)
  BY DEF WatchInv, HandInv
<1>1. ASSUME NEW k \in DOMAIN stepRuns, Over(k) PROVE stepRuns'[k] = stepRuns[k]
  <2>1. ASSUME NEW p \in Procs, CommitOutcome(p), at[p].entry = k PROVE FALSE
    BY <1>0, <1>1, <2>1 DEF CommitOutcome, WatchOf, Over, Agents
  <2>2. ASSUME NEW v \in Reviewers, BindBatch(v) \/ Reject(v), at[v].entry = k PROVE FALSE
    BY <1>0, <1>1, <2>2 DEF BindBatch, Reject, WatchOf, Over, Agents
  <2>3. QED
    BY <2>1, <2>2, RowChanges
<1>2. ASSUME NEW k \in DOMAIN stepRuns, NEW p \in Agents,
             pc[p] \in {"checked", "reviewing", "approved"}, at[p].entry = k
      PROVE  stepRuns'[k] = stepRuns[k] \/ pc'[p] \in {"loop", "finish"}
  <2>1. ASSUME NEW q \in Procs, CommitOutcome(q), at[q].entry = k PROVE pc'[p] = "finish"
    <3>1. pc[q] = "checked" /\ q \in Agents /\ pc'[q] = "finish"
      BY <2>1 DEF CommitOutcome, Goto, Agents, TypeOK
    <3>2. pc[p] = "checked" /\ p \in Procs
      BY <1>0, <1>2, <2>1, <3>1 DEF WatchOf, HandOf
    <3>3. CASE OneProcess
      BY <3>1, <3>2, <3>3 DEF OneProcess
    <3>4. CASE OneRun
      <4>1. at[p].run \in held[p] /\ at[q].run \in held[q]
        BY <3>1, <3>2, <3>4 DEF LockInv
      <4>2. at[p].run = at[q].run
        BY <1>0, <1>2, <2>1, <3>1, <3>2 DEF HandOf
      <4>3. QED
        BY <3>1, <4>1, <4>2 DEF LockInv
    <3>5. QED
      BY <3>3, <3>4 DEF Exclusive
  <2>2. ASSUME NEW v \in Reviewers, BindBatch(v) \/ Reject(v), at[v].entry = k
        PROVE  pc'[p] \in {"loop", "finish"}
    <3>1. v \in Agents /\ pc[v] \in {"reviewing", "approved"} /\ pc'[v] \in {"loop", "finish"}
      BY <2>2 DEF BindBatch, Reject, Return, Goto, Agents, TypeOK
    <3>2. p \in Reviewers
      BY <1>0, <1>2, <2>2, <3>1 DEF WatchOf, HandOf
    <3>3. QED
      BY <3>1, <3>2 DEF OneReviewer
  <2>3. QED
    BY <2>1, <2>2, RowChanges
<1>3. ASSUME NEW p \in Agents PROVE WatchOf(p)'
  <2>1. CASE Stays(p)
    <3>1. CASE pc[p] \in {"checked", "reviewing", "approved", "finish"}
      <4>1. PICK k \in DOMAIN stepRuns : at[p].entry = k
        BY <1>0, <3>1 DEF HandOf
      <4>2. pc[p] = "finish" => Over(k)
        BY <1>0, <4>1 DEF WatchOf, Over, Outcome
      <4>3. stepRuns'[k] = stepRuns[k]
        BY <1>1, <1>2, <2>1, <3>1, <4>1, <4>2 DEF Stays
      <4>4. QED
        BY <1>0, <2>1, <4>1, <4>3 DEF WatchOf, Stays
    <3>2. CASE pc[p] \notin {"checked", "reviewing", "approved", "finish"}
      BY <2>1, <3>2 DEF WatchOf, Stays
    <3>3. QED
      BY <3>1, <3>2
  <2>2. ASSUME NEW r \in Runs, ReadOutcome(p, r), p \in Procs, pc'[p] = "checked" PROVE WatchOf(p)'
    <3>1. PICK k \in DOMAIN stepRuns : k = CurrentStepRun(r)
      BY <2>2, ReadOutcomeDoes
    <3>2. PICK a \in InHand : Hands(p, a) /\ a.entry = k /\ stepRuns[k].status = "running"
      BY <2>2, <3>1, ReadOutcomeDoes
    <3>3. at'[p] = a /\ UNCHANGED stepRuns
      BY <2>2, <3>2 DEF Hands, TypeOK, ReadOutcome
    <3>4. QED
      BY <2>2, <3>2, <3>3 DEF WatchOf
  <2>3. ASSUME CommitOutcome(p), p \in Procs, pc'[p] = "finish" PROVE WatchOf(p)'
    <3>1. SetsRow(at[p].entry, Outcome(at[p].ok), stepRuns[at[p].entry].job) /\ UNCHANGED at
      BY <2>3, CommitOutcomeDoes DEF CommitOutcome
    <3>2. QED
      BY <2>3, <3>1 DEF WatchOf, SetsRow
  <2>4. ASSUME Reject(p), p \in Reviewers, pc'[p] = "finish" PROVE WatchOf(p)'
    <3>1. SetsRow(at[p].entry, "failed", stepRuns[at[p].entry].job)
      BY <2>4, RejectDoes
    <3>2. PICK a \in InHand : Hands(p, a) /\ a.entry = at[p].entry /\ a.ok = FALSE
      BY <2>4, RejectInHand
    <3>3. at'[p] = a
      BY <3>2 DEF Hands, TypeOK
    <3>4. stepRuns'[a.entry].status = "failed" /\ Outcome(a.ok) = "failed"
      BY <3>1, <3>2 DEF SetsRow, Outcome
    <3>5. QED
      BY <2>4, <3>3, <3>4 DEF WatchOf
  <2>5. ASSUME NEW k \in DOMAIN stepRuns, OpenReview(p, k), p \in Reviewers, pc'[p] = "reviewing"
        PROVE  WatchOf(p)'
    <3>1. PICK a \in InHand : Hands(p, a) /\ a.entry = k
      BY <2>5, OpenReviewDoes
    <3>2. at'[p] = a /\ stepRuns[k].status = "awaiting_review" /\ UNCHANGED stepRuns
      BY <2>5, <3>1 DEF Hands, TypeOK, OpenReview, AwaitsReview
    <3>3. QED
      BY <2>5, <3>1, <3>2 DEF WatchOf
  <2>6. ASSUME Approve(p), p \in Reviewers, pc'[p] = "approved" PROVE WatchOf(p)'
    <3>1. PICK a \in InHand : Hands(p, a) /\ a.entry = at[p].entry
      BY <2>6, JobInHand DEF Approve
    <3>2. at'[p] = a /\ pc[p] = "reviewing" /\ UNCHANGED stepRuns
      BY <2>6, <3>1 DEF Hands, TypeOK, Approve
    <3>3. QED
      BY <1>0, <2>6, <3>1, <3>2 DEF WatchOf
  <2>7. CASE pc'[p] \notin {"checked", "reviewing", "approved", "finish"}
    BY <2>7 DEF WatchOf
  <2>8. QED
    BY <2>1, <2>2, <2>3, <2>4, <2>5, <2>6, <2>7, StaysOrActs, PlaceChanges
<1>4. QED
  BY <1>1, <1>2, <1>3 DEF WatchInv

-----------------------------------------------------------------------------
(* A review is acted on once by each reviewer.                             *)

(* A reviewer may still approve the step run they look at.  The approvals  *)
(* of a step's runs that are spent: of one that awaits its review, those   *)
(* of the reviewers who have approved it and are about to bind the batch;  *)
(* of any other, all but those of the reviewers who have it on screen.     *)
Spent(k, v) ==
  IF AwaitsReview(k) THEN pc[v] = "approved" /\ at[v].entry = k
                     ELSE ~(pc[v] = "reviewing" /\ at[v].entry = k)
SpentOf(r, s) == {z \in StepRunsOf(r, s) \X Reviewers : Spent(z[1], z[2])}

CountOf(r, s) == Cardinality(JobsOf(r, s)) <= Cardinality(SpentOf(r, s)) + aborts
CountInv == \A r \in Runs, s \in Steps : Kind[s] = "review" => CountOf(r, s)

(* The sets counted are finite. *)
LEMMA RowsFinite ==
  ASSUME TypeOK, NEW r, NEW s
  PROVE  /\ IsFiniteSet(JobsOf(r, s)) /\ Cardinality(JobsOf(r, s)) \in Nat
         /\ IsFiniteSet(StepRunsOf(r, s)) /\ Cardinality(StepRunsOf(r, s)) \in Nat
         /\ IsFiniteSet(Reviewers) /\ Cardinality(Reviewers) \in Nat
         /\ IsFiniteSet(SpentOf(r, s)) /\ Cardinality(SpentOf(r, s)) \in Nat
         /\ Cardinality(SpentOf(r, s)) <= Cardinality(Reviewers) * Cardinality(StepRunsOf(r, s))
<1>1. /\ Len(jobs) \in Nat /\ DOMAIN jobs = 1..Len(jobs)
      /\ Len(stepRuns) \in Nat /\ DOMAIN stepRuns = 1..Len(stepRuns)
  BY DEF TypeOK
<1>2. IsFiniteSet(DOMAIN jobs) /\ IsFiniteSet(DOMAIN stepRuns)
  BY <1>1, FS_Interval
<1>3. /\ JobsOf(r, s) \subseteq DOMAIN jobs /\ StepRunsOf(r, s) \subseteq DOMAIN stepRuns
      /\ SpentOf(r, s) \subseteq StepRunsOf(r, s) \X Reviewers
  BY DEF JobsOf, StepRunsOf, SpentOf
<1>4. IsFiniteSet(JobsOf(r, s)) /\ IsFiniteSet(StepRunsOf(r, s)) /\ IsFiniteSet(Reviewers)
  BY <1>2, <1>3, FS_Subset, WorkflowAssumption DEF WorkflowAssumption
<1>5. /\ Cardinality(JobsOf(r, s)) \in Nat /\ Cardinality(StepRunsOf(r, s)) \in Nat
      /\ Cardinality(Reviewers) \in Nat
  BY <1>4, FS_CardinalityType
<1>6. /\ IsFiniteSet(StepRunsOf(r, s) \X Reviewers)
      /\ Cardinality(StepRunsOf(r, s) \X Reviewers) =
           Cardinality(StepRunsOf(r, s)) * Cardinality(Reviewers)
  BY <1>4, FS_Product
<1>7. /\ IsFiniteSet(SpentOf(r, s))
      /\ Cardinality(SpentOf(r, s)) <= Cardinality(StepRunsOf(r, s) \X Reviewers)
  BY <1>3, <1>6, FS_Subset
<1>8. Cardinality(SpentOf(r, s)) \in Nat
  BY <1>7, FS_CardinalityType
<1>9. QED
  BY <1>4, <1>5, <1>6, <1>7, <1>8

(* An approval that is spent stays so, unless it is cut off. *)
CutOff(v) == pc[v] = "approved" /\ Abort(v)

LEMMA SpentStays ==
  ASSUME TypeOK, HandInv, [Next]_vars, NEW k \in DOMAIN stepRuns, NEW v \in Reviewers, Spent(k, v)
  PROVE  Spent(k, v)' \/ (CutOff(v) /\ at[v].entry = k)
<1>0. v \in Agents
  BY DEF Agents
<1>1. ~AwaitsReview(k) => ~AwaitsReview(k)'
  <2>1. \A ok : Outcome(ok) # "awaiting_review"
    BY DEF Outcome
  <2>2. QED
    BY <2>1, RowChanges DEF SetsRow, AwaitsReview
<1>2. ASSUME pc'[v] = "reviewing", at'[v].entry = k
      PROVE  Stays(v) \/ (AwaitsReview(k) /\ pc[v] = "loop")
  <2>1. ASSUME NEW l \in DOMAIN stepRuns, OpenReview(v, l)
        PROVE  AwaitsReview(k) /\ pc[v] = "loop"
    <3>1. PICK a \in InHand : Hands(v, a) /\ a.entry = l
      BY <2>1, OpenReviewDoes
    <3>2. at'[v] = a
      BY <1>0, <3>1 DEF Hands, TypeOK
    <3>3. QED
      BY <1>2, <2>1, <3>1, <3>2 DEF OpenReview
  <2>2. ASSUME Acts(v) PROVE Stays(v) \/ \E l \in DOMAIN stepRuns : OpenReview(v, l)
    BY <1>0, <1>2, <2>2, PlaceChanges
  <2>3. Stays(v) \/ Acts(v)
    BY <1>0, StaysOrActs
  <2>4. QED
    BY <2>1, <2>2, <2>3
<1>3. ASSUME pc[v] = "approved", at[v].entry = k, AwaitsReview(k)'
      PROVE  (pc'[v] = "approved" /\ at'[v].entry = k) \/ CutOff(v)
  <2>1. ~BindBatch(v)
    <3>1. ASSUME BindBatch(v) PROVE FALSE
      BY <1>3, <3>1, BindBatchDoes DEF SetsRow, AwaitsReview
    <3>2. QED
      BY <3>1
  <2>2. CASE Stays(v)
    BY <1>3, <2>2 DEF Stays
  <2>3. CASE Acts(v)
    BY <1>3, <2>1, <2>3, DisjointAgents
       DEF CutOff, Acts, Tick, Review, Advance, ListQueued, TakeQueued, FinishWithoutSteps, ListRunning,
           OpenReview, CannotApprove, Approve, Reject, CannotStart, Prefill, AwaitReview, EnqueueJob,
           InsertStepRun, StepVanished, FinishCurrentStep, FailStep, PrefillRollsBack
  <2>4. QED
    BY <1>0, <2>2, <2>3, StaysOrActs
<1>4. CASE AwaitsReview(k)
  <2>1. pc[v] = "approved" /\ at[v].entry = k
    BY <1>4 DEF Spent
  <2>2. CASE AwaitsReview(k)'
    BY <1>3, <2>1, <2>2 DEF Spent
  <2>3. CASE ~AwaitsReview(k)'
    BY <1>2, <2>1, <2>3 DEF Spent, Stays
  <2>4. QED
    BY <2>2, <2>3
<1>5. CASE ~AwaitsReview(k)
  BY <1>1, <1>2, <1>5 DEF Spent, Stays
<1>6. QED
  BY <1>4, <1>5

LEMMA SpentGrows ==
  ASSUME TypeOK, HandInv, [Next]_vars, NEW r, NEW s, NEW z \in SpentOf(r, s)
  PROVE  z \in SpentOf(r, s)' \/ \E v \in Reviewers : CutOff(v) /\ z = <<at[v].entry, v>>
<1>1. PICK k \in StepRunsOf(r, s), v \in Reviewers : z = <<k, v>> /\ Spent(k, v)
  BY DEF SpentOf
<1>2. k \in DOMAIN stepRuns /\ k \in StepRunsOf(r, s)'
  BY <1>1, RowsAreKept DEF StepRunsOf, RowsKept
<1>3. CASE Spent(k, v)'
  BY <1>1, <1>2, <1>3 DEF SpentOf
<1>4. CASE CutOff(v) /\ at[v].entry = k
  BY <1>1, <1>4
<1>5. QED
  BY <1>1, <1>2, <1>3, <1>4, SpentStays

LEMMA StepCount ==
  ASSUME TypeOK, HandInv, CountInv, [Next]_vars
  PROVE  CountInv'
<1>0. TypeOK' /\ HandInv'
  BY StepHands
<1> SUFFICES ASSUME NEW r \in Runs, NEW s \in Steps, Kind[s] = "review" PROVE CountOf(r, s)'
  BY DEF CountInv
<1> DEFINE J == JobsOf(r, s)  S == SpentOf(r, s)
<1>1. /\ CountOf(r, s) /\ IsFiniteSet(J) /\ IsFiniteSet(S) /\ IsFiniteSet(S')
      /\ Cardinality(J) \in Nat /\ Cardinality(S) \in Nat /\ Cardinality(J') \in Nat
      /\ Cardinality(S') \in Nat /\ aborts \in Nat /\ aborts' \in Nat
  <2>1. CountOf(r, s) /\ aborts \in Nat /\ aborts' \in Nat
    BY <1>0 DEF CountInv, TypeOK, WorkflowAssumption
  <2>2. /\ Cardinality(J') \in Nat /\ IsFiniteSet(S') /\ Cardinality(S') \in Nat
    <3>1. /\ Len(jobs') \in Nat /\ DOMAIN jobs' = 1..Len(jobs')
          /\ Len(stepRuns') \in Nat /\ DOMAIN stepRuns' = 1..Len(stepRuns')
      BY <1>0 DEF TypeOK
    <3>2. IsFiniteSet(DOMAIN jobs') /\ IsFiniteSet(DOMAIN stepRuns') /\ IsFiniteSet(Reviewers)
      BY <3>1, FS_Interval, WorkflowAssumption DEF WorkflowAssumption
    <3>3. IsFiniteSet((DOMAIN stepRuns') \X Reviewers)
      BY <3>2, FS_Product
    <3>4. J' \subseteq DOMAIN jobs' /\ S' \subseteq (DOMAIN stepRuns') \X Reviewers
      BY DEF JobsOf, SpentOf, StepRunsOf
    <3>5. IsFiniteSet(J') /\ IsFiniteSet(S')
      BY <3>2, <3>3, <3>4, FS_Subset
    <3>6. QED
      BY <3>5, FS_CardinalityType
  <2>3. QED
    BY <2>1, <2>2, RowsFinite
<1>2. aborts <= aborts' /\ ((\E p \in Agents : Abort(p)) => aborts' = aborts + 1)
  <2>1. UNCHANGED aborts \/ \E p \in Agents : Abort(p)
    BY DEF Next, vars, boundVars, EnqueueWorkflowRun, JobEnds, ReadNextOrder, AddStep, DeleteStep,
           ReorderSteps, Edit, Tick, ListQueued, TakeQueued, FinishWithoutSteps, ListRunning,
           NothingToDecide, ReadOutcome, CommitOutcome, EndTick, Review, OpenReview, CannotApprove,
           Approve, BindBatch, Reject, Advance, CannotStart, Prefill, AwaitReview, EnqueueJob,
           InsertStepRun, StepVanished, FinishCurrentStep, FailStep, PrefillRollsBack
  <2>2. \A p \in Agents : Abort(p) => aborts' = aborts + 1
    BY DEF Abort
  <2>3. QED
    BY <1>1, <2>1, <2>2
<1>3. ASSUME NEW v \in Reviewers, Approve(v), at[v].run = r, at[v].step = s PROVE CountOf(r, s)'
  <2>0. v \in Agents /\ pc[v] = "reviewing" /\ UNCHANGED <<stepRuns, aborts>>
    BY <1>3 DEF Approve, Agents, boundVars
  <2>1. AddsJob(r, s)
    BY <1>3, ApproveDoes
  <2>2. PICK n : n = Len(jobs) + 1
    OBVIOUS
  <2>3. Cardinality(J') = Cardinality(J) + 1
    <3>1. J' = J \union {n} /\ n \notin J
      BY <2>1, <2>2 DEF AddsJob, JobsOf
    <3> HIDE DEF J
    <3>2. Cardinality(J \union {n}) = Cardinality(J) + 1
      BY <1>1, <3>1, FS_AddElement
    <3>3. QED
      BY <1>1, <3>1, <3>2
  <2>4. PICK k \in StepRunsOf(r, s) : k = at[v].entry
    BY <1>3, <2>0 DEF HandInv, HandOf, StepRunsOf
  <2>5. <<k, v>> \notin S
    BY <2>0, <2>4 DEF SpentOf, Spent
  <2>6. <<k, v>> \in S'
    <3>1. PICK b \in InHand : Hands(v, b) /\ b.entry = at[v].entry
      BY <1>3, <2>0, JobInHand DEF Approve
    <3>2. pc'[v] = "approved" /\ at'[v] = b
      BY <1>3, <2>0, <3>1 DEF Approve, Goto, Hands, TypeOK
    <3>3. k \in StepRunsOf(r, s)' /\ Spent(k, v)'
      BY <2>0, <2>4, <3>1, <3>2 DEF StepRunsOf, Spent
    <3>4. QED
      BY <3>3 DEF SpentOf
  <2>7. S \subseteq S'
    <3>1. \A w \in Reviewers : ~CutOff(w)
      BY <1>1, <2>0 DEF CutOff, Abort
    <3>2. QED
      BY <3>1, SpentGrows
  <2>8. Cardinality(S) + 1 <= Cardinality(S')
    <3>1. S \union {<<k, v>>} \subseteq S'
      BY <2>6, <2>7
    <3> HIDE DEF S
    <3>2. Cardinality(S \union {<<k, v>>}) = Cardinality(S) + 1
      BY <1>1, <2>5, FS_AddElement
    <3>3. QED
      BY <1>1, <3>1, <3>2, FS_Subset
  <2>9. QED
    BY <1>1, <1>2, <2>3, <2>8 DEF CountOf
<1>4. ASSUME ~ \E v \in Reviewers : Approve(v) /\ at[v].run = r /\ at[v].step = s
      PROVE  Cardinality(J') = Cardinality(J)
  <2>1. J' = J
    <3>1. CASE DOMAIN jobs' = DOMAIN jobs
      BY <3>1, JobChanges DEF JobsOf
    <3>2. ASSUME NEW p \in Agents, EnqueueJob(p), AddsJob(at[p].run, at[p].step) PROVE J' = J
      <4>1. at[p].step # s
        BY <3>2 DEF EnqueueJob
      <4>2. QED
        BY <3>2, <4>1 DEF AddsJob, JobsOf
    <3>3. ASSUME NEW p \in Reviewers, Approve(p), AddsJob(at[p].run, at[p].step) PROVE J' = J
      <4>1. at[p].run # r \/ at[p].step # s
        BY <1>4, <3>3
      <4>2. QED
        BY <3>3, <4>1 DEF AddsJob, JobsOf
    <3>4. QED
      BY <3>1, <3>2, <3>3, JobChanges
  <2>2. QED
    BY <2>1
<1>5. ASSUME ~ \E v \in Reviewers : CutOff(v) PROVE Cardinality(S) <= Cardinality(S')
  <2>1. S \subseteq S'
    BY <1>5, SpentGrows
  <2> HIDE DEF S
  <2>2. QED
    BY <1>1, <2>1, FS_Subset
<1>6. ASSUME NEW v \in Reviewers, CutOff(v) PROVE Cardinality(S) <= Cardinality(S') + 1
  <2>1. PICK z : z = <<at[v].entry, v>>
    OBVIOUS
  <2>2. S \ {z} \subseteq S'
    <3>1. \A w \in Reviewers : CutOff(w) => w = v
      BY <1>6 DEF CutOff, Abort, TypeOK, Agents
    <3>2. QED
      BY <2>1, <3>1, SpentGrows
  <2> HIDE DEF S
  <2>3. /\ IsFiniteSet(S \ {z})
        /\ Cardinality(S \ {z}) = IF z \in S THEN Cardinality(S) - 1 ELSE Cardinality(S)
    BY <1>1, FS_RemoveElement
  <2>4. Cardinality(S \ {z}) <= Cardinality(S')
    BY <1>1, <2>2, FS_Subset
  <2>5. QED
    BY <1>1, <2>3, <2>4
<1>7. CASE \E v \in Reviewers : Approve(v) /\ at[v].run = r /\ at[v].step = s
  BY <1>3, <1>7
<1>8. CASE /\ ~ \E v \in Reviewers : Approve(v) /\ at[v].run = r /\ at[v].step = s
           /\ ~ \E v \in Reviewers : CutOff(v)
  BY <1>1, <1>2, <1>4, <1>5, <1>8 DEF CountOf
<1>9. CASE /\ ~ \E v \in Reviewers : Approve(v) /\ at[v].run = r /\ at[v].step = s
           /\ \E v \in Reviewers : CutOff(v)
  <2>1. aborts' = aborts + 1
    BY <1>2, <1>9 DEF CutOff, Agents
  <2>2. QED
    BY <1>1, <1>4, <1>6, <1>9, <2>1 DEF CountOf
<1>10. QED
  BY <1>7, <1>8, <1>9

(* However often it is tapped, and by however many, an approval enqueues   *)
(* one build per reviewer at most for its step run, and one more for every *)
(* approval that was cut off.                                              *)
THEOREM ReviewsAreActedOnOnce == Spec => []ApprovedOnce
<1> DEFINE IInv == TypeOK /\ HandInv /\ CountInv
<1>1. Init => IInv
  <2> SUFFICES ASSUME Init PROVE IInv
    OBVIOUS
  <2>1. TypeOK /\ HandInv
    BY InitHands
  <2>2. ASSUME NEW r \in Runs, NEW s \in Steps PROVE CountOf(r, s)
    <3>1. JobsOf(r, s) = {}
      BY DEF Init, JobsOf
    <3>2. Cardinality(SpentOf(r, s)) \in Nat /\ aborts = 0
      BY <2>1, RowsFinite DEF Init
    <3>3. QED
      BY <3>1, <3>2, FS_EmptySet DEF CountOf
  <2>3. QED
    BY <2>1, <2>2 DEF CountInv
<1>2. IInv /\ [Next]_vars => IInv'
  BY StepHands, StepCount
<1>3. IInv => ApprovedOnce
  <2> SUFFICES ASSUME IInv, NEW r \in Runs, NEW s \in Steps, Kind[s] = "review"
               PROVE  Cardinality(JobsOf(r, s)) <=
                        Cardinality(Reviewers) * Cardinality(StepRunsOf(r, s)) + aborts
    BY DEF ApprovedOnce
  <2>1. CountOf(r, s) /\ aborts \in Nat
    BY DEF CountInv, TypeOK, WorkflowAssumption
  <2>2. PICK m \in Nat : m = Cardinality(Reviewers) * Cardinality(StepRunsOf(r, s))
    BY RowsFinite
  <2>3. /\ Cardinality(JobsOf(r, s)) \in Nat /\ Cardinality(SpentOf(r, s)) \in Nat
        /\ Cardinality(SpentOf(r, s)) <= m
    BY <2>2, RowsFinite
  <2>4. QED
    BY <2>1, <2>2, <2>3 DEF CountOf
<1>4. QED
  BY <1>1, <1>2, <1>3, PTL DEF Spec

-----------------------------------------------------------------------------
(* Theorems about who acts on a run, and when: one agent at a time, from   *)
(* the moment it is queued until it has ended.                             *)

(* One agent at a time acts on a run.                                      *)

(* What an agent knows of the run it acts on and of those it has listed.   *)
OwnOf(p) ==
  /\ phase[p] = "starting" => \A r \in Listed(p) : runStatus[r] = "queued"
  /\ phase[p] = "checking" => \A r \in Listed(p) : runStatus[r] \notin Pending
  /\ Busy(p) => \/ runStatus[at[p].run] = "running"
                \/ runStatus[at[p].run] = "queued" /\ pc[p] = "start" /\ p \in Procs
  /\ pc[p] \in {"start", "prefilled", "started", "failing", "finish"} =>
       \A k \in RowsOf(at[p].run) : Over(k)
  /\ pc[p] \notin {"loop", "start"} => currentStep[at[p].run] = at[p].step
  /\ OneRun /\ pc[p] = "start" /\ runStatus[at[p].run] = "queued" => at[p].run \in held[p]

(* Nobody else acts on a run one agent acts on, or is about to start.      *)
AloneInv ==
  /\ \A p, q \in Agents : Busy(p) /\ Busy(q) /\ at[p].run = at[q].run => p = q
  /\ \A p, q \in Agents : phase[p] = "starting" /\ Busy(q) => at[q].run \notin Listed(p)

(* A run that has not started has left no trace; one that has is at the    *)
(* step of its one open step run, if there is one.                         *)
RunOf(r) ==
  /\ runStatus[r] \in Pending =>
       /\ RowsOf(r) = {} /\ r \notin hasFailed /\ currentStep[r] = NoStep
       /\ \A j \in DOMAIN jobs : jobs[j].run # r
  /\ \A k, l \in RowsOf(r) : ~Over(k) /\ ~Over(l) => k = l
  /\ \A k \in RowsOf(r) :
       ~Over(k) => runStatus[r] = "running" /\ currentStep[r] = stepRuns[k].step
  /\ notices[r] = IF runStatus[r] \in Ended THEN 1 ELSE 0

OwnInv  == \A p \in Agents : OwnOf(p)
RunInv  == \A r \in Runs : RunOf(r)
FlowInv == TypeOK /\ HandInv /\ LockInv /\ WatchInv /\ OwnInv /\ AloneInv /\ RunInv

(* What a step may do to the database when it acts on run r only.          *)
Touches(r) ==
  /\ \A x \in Runs \ {r} :
       /\ runStatus'[x] = runStatus[x] /\ currentStep'[x] = currentStep[x]
       /\ x \in hasFailed' <=> x \in hasFailed
       /\ notices'[x] = notices[x]
  /\ DOMAIN stepRuns \subseteq DOMAIN stepRuns' /\ DOMAIN jobs \subseteq DOMAIN jobs'
  /\ \A k \in DOMAIN stepRuns : stepRuns[k].run # r => stepRuns'[k] = stepRuns[k]
  /\ \A k \in DOMAIN stepRuns' \ DOMAIN stepRuns : stepRuns'[k].run = r
  /\ \A j \in DOMAIN jobs : jobs'[j].run = jobs[j].run /\ jobs'[j].step = jobs[j].step
  /\ \A j \in DOMAIN jobs' \ DOMAIN jobs : jobs'[j].run = r

LEMMA ActsTouches ==
  ASSUME TypeOK, HandInv, gitFailures' = 0, NEW p \in Agents, Acts(p)
  PROVE  \E r \in Runs \union {NoRun} :
           /\ Touches(r)
           /\ \/ r = NoRun
              \/ Busy(p) /\ at[p].run = r
              \/ pc[p] = "loop" /\ phase[p] = "starting" /\ r \in Listed(p)
           /\ r \in Runs /\ runStatus'[r] \in Pending => runStatus'[r] = runStatus[r]
<1> DEFINE Goal == \E r \in Runs \union {NoRun} :
           /\ Touches(r)
           /\ \/ r = NoRun
              \/ Busy(p) /\ at[p].run = r
              \/ pc[p] = "loop" /\ phase[p] = "starting" /\ r \in Listed(p)
           /\ r \in Runs /\ runStatus'[r] \in Pending => runStatus'[r] = runStatus[r]
<1>a. ASSUME UNCHANGED <<runVars, stepRuns, jobs>> PROVE Goal
  <2>1. Touches(NoRun)
    BY <1>a DEF Touches, runVars
  <2>2. QED
    BY <2>1 DEF WorkflowAssumption
<1>b. ASSUME pc[p] # "loop" PROVE at[p].run \in Runs /\ at[p].step \in Steps
  BY <1>b, Hand
<1> HIDE DEF Goal
<1>1. ASSUME ListQueued(p), p \in Procs
      PROVE  Goal
  BY <1>a, <1>1 DEF ListQueued
<1>2. ASSUME NEW r \in Runs, TakeQueued(p, r), p \in Procs
      PROVE  Goal
  BY <1>a, <1>2 DEF TakeQueued
<1>3. ASSUME NEW r \in Runs, FinishWithoutSteps(p, r), p \in Procs
      PROVE  Goal
  <2>1. pc[p] = "loop" /\ phase[p] = "starting" /\ r \in Listed(p)
    BY <1>3, IdleType DEF FinishWithoutSteps, HandInv, HandOf, Listed, WorkflowAssumption
  <2>2. Touches(r)
    BY <1>3 DEF FinishWithoutSteps, Touches, TypeOK
  <2>3. runStatus'[r] \notin Pending
    BY <1>3 DEF FinishWithoutSteps, Pending, TypeOK
  <2>4. QED
    BY <2>1, <2>2, <2>3 DEF Goal
<1>4. ASSUME ListRunning(p), p \in Procs
      PROVE  Goal
  BY <1>a, <1>4 DEF ListRunning
<1>5. ASSUME NEW r \in Runs, NothingToDecide(p, r), p \in Procs
      PROVE  Goal
  BY <1>a, <1>5 DEF NothingToDecide
<1>6. ASSUME NEW r \in Runs, ReadOutcome(p, r), p \in Procs
      PROVE  Goal
  BY <1>a, <1>6 DEF ReadOutcome
<1>7. ASSUME CommitOutcome(p), p \in Procs
      PROVE  Goal
  <2>1. at[p].run \in Runs /\ Busy(p)
    BY <1>b, <1>7 DEF CommitOutcome, Busy
  <2>2. Touches(at[p].run)
    <3>1. SetsRow(at[p].entry, Outcome(at[p].ok), stepRuns[at[p].entry].job)
      BY <1>7, CommitOutcomeDoes
    <3>2. UNCHANGED <<runVars, jobs>>
      BY <1>7 DEF CommitOutcome
    <3>3. QED
      BY <3>1, <3>2, <2>1, Hand, <1>7 DEF Touches, runVars, SetsRow, CommitOutcome
  <2>3. runStatus'[at[p].run] \in Pending => runStatus'[at[p].run] = runStatus[at[p].run]
    BY <1>7 DEF CommitOutcome, runVars
  <2>4. QED
    BY <2>1, <2>2, <2>3 DEF Goal
<1>8. ASSUME EndTick(p), p \in Procs
      PROVE  Goal
  BY <1>a, <1>8 DEF EndTick
<1>9. ASSUME NEW k \in DOMAIN stepRuns, OpenReview(p, k), p \in Reviewers
      PROVE  Goal
  BY <1>a, <1>9 DEF OpenReview
<1>10. ASSUME CannotApprove(p), p \in Reviewers
      PROVE  Goal
  BY <1>a, <1>10 DEF CannotApprove
<1>11. ASSUME Approve(p), p \in Reviewers
      PROVE  Goal
  <2>1. at[p].run \in Runs /\ Busy(p)
    BY <1>b, <1>11 DEF Approve, Busy
  <2>2. Touches(at[p].run)
    <3>1. AddsJob(at[p].run, at[p].step) /\ UNCHANGED <<stepRuns, runVars>>
      BY <1>11, ApproveDoes DEF Approve
    <3>2. QED
      BY <3>1 DEF Touches, runVars, AddsJob
  <2>3. runStatus'[at[p].run] \in Pending => runStatus'[at[p].run] = runStatus[at[p].run]
    BY <1>11 DEF Approve, runVars
  <2>4. QED
    BY <2>1, <2>2, <2>3 DEF Goal
<1>12. ASSUME BindBatch(p), p \in Reviewers
      PROVE  Goal
  <2>1. at[p].run \in Runs /\ Busy(p)
    BY <1>b, <1>12 DEF BindBatch, Busy
  <2>2. Touches(at[p].run)
    <3>1. SetsRow(at[p].entry, "running", at[p].job)
      BY <1>12, BindBatchDoes
    <3>2. UNCHANGED <<runVars, jobs>>
      BY <1>12 DEF BindBatch
    <3>3. QED
      BY <3>1, <3>2, <2>1, Hand, <1>12 DEF Touches, runVars, SetsRow, BindBatch
  <2>3. runStatus'[at[p].run] \in Pending => runStatus'[at[p].run] = runStatus[at[p].run]
    BY <1>12 DEF BindBatch, runVars
  <2>4. QED
    BY <2>1, <2>2, <2>3 DEF Goal
<1>13. ASSUME Reject(p), p \in Reviewers
      PROVE  Goal
  <2>1. at[p].run \in Runs /\ Busy(p)
    BY <1>b, <1>13 DEF Reject, Busy
  <2>2. Touches(at[p].run)
    <3>1. SetsRow(at[p].entry, "failed", stepRuns[at[p].entry].job)
      BY <1>13, RejectDoes
    <3>2. UNCHANGED <<runVars, jobs>>
      BY <1>13 DEF Reject
    <3>3. QED
      BY <3>1, <3>2, <2>1, Hand, <1>13 DEF Touches, runVars, SetsRow, Reject
  <2>3. runStatus'[at[p].run] \in Pending => runStatus'[at[p].run] = runStatus[at[p].run]
    BY <1>13 DEF Reject, runVars
  <2>4. QED
    BY <2>1, <2>2, <2>3 DEF Goal
<1>14. ASSUME CannotStart(p)
      PROVE  Goal
  <2>1. at[p].run \in Runs /\ Busy(p)
    BY <1>b, <1>14 DEF CannotStart, Busy
  <2>2. Touches(at[p].run)
    <3>1. UNCHANGED <<stepRuns, jobs, hasFailed, notices>>
      BY <1>14 DEF CannotStart
    <3>2. /\ runStatus' = [runStatus EXCEPT ![at[p].run] = "running"]
          /\ currentStep' = [currentStep EXCEPT ![at[p].run] = at[p].step]
      BY <1>14 DEF CannotStart, WriteRun
    <3>3. QED
      BY <2>1, <3>1, <3>2 DEF Touches, TypeOK
  <2>3. runStatus'[at[p].run] \in Pending => runStatus'[at[p].run] = runStatus[at[p].run]
    BY <2>1, <1>14 DEF CannotStart, WriteRun, Pending, TypeOK
  <2>4. QED
    BY <2>1, <2>2, <2>3 DEF Goal
<1>15. ASSUME Prefill(p)
      PROVE  Goal
  <2>1. at[p].run \in Runs /\ Busy(p)
    BY <1>b, <1>15 DEF Prefill, Busy
  <2>2. Touches(at[p].run)
    <3>1. UNCHANGED <<stepRuns, jobs, hasFailed, notices>>
      BY <1>15 DEF Prefill
    <3>2. /\ runStatus' = [runStatus EXCEPT ![at[p].run] = "running"]
          /\ currentStep' = [currentStep EXCEPT ![at[p].run] = at[p].step]
      BY <1>15 DEF Prefill, WriteRun
    <3>3. QED
      BY <2>1, <3>1, <3>2 DEF Touches, TypeOK
  <2>3. runStatus'[at[p].run] \in Pending => runStatus'[at[p].run] = runStatus[at[p].run]
    BY <2>1, <1>15 DEF Prefill, WriteRun, Pending, TypeOK
  <2>4. QED
    BY <2>1, <2>2, <2>3 DEF Goal
<1>16. ASSUME AwaitReview(p)
      PROVE  Goal
  <2>1. at[p].run \in Runs /\ Busy(p)
    BY <1>b, <1>16 DEF AwaitReview, Busy
  <2>2. Touches(at[p].run)
    <3>1. AddsRow(at[p].run, at[p].step, "awaiting_review", 0)
      BY <1>16, AwaitReviewDoes
    <3>2. UNCHANGED <<runVars, jobs>>
      BY <1>16 DEF AwaitReview
    <3>3. QED
      BY <3>1, <3>2, <2>1, Hand, <1>16 DEF Touches, runVars, AddsRow, AwaitReview
  <2>3. runStatus'[at[p].run] \in Pending => runStatus'[at[p].run] = runStatus[at[p].run]
    BY <1>16 DEF AwaitReview, runVars
  <2>4. QED
    BY <2>1, <2>2, <2>3 DEF Goal
<1>17. ASSUME EnqueueJob(p)
      PROVE  Goal
  <2>1. at[p].run \in Runs /\ Busy(p)
    BY <1>b, <1>17 DEF EnqueueJob, Busy
  <2>2. Touches(at[p].run)
    <3>1. AddsJob(at[p].run, at[p].step) /\ UNCHANGED <<stepRuns, hasFailed, notices>>
      BY <1>17, EnqueueJobDoes DEF EnqueueJob
    <3>2. \/ UNCHANGED <<runStatus, currentStep>>
          \/ /\ runStatus' = [runStatus EXCEPT ![at[p].run] = "running"]
             /\ currentStep' = [currentStep EXCEPT ![at[p].run] = at[p].step]
      BY <1>17 DEF EnqueueJob, WriteRun
    <3>3. \A x \in Runs \ {at[p].run} : runStatus'[x] = runStatus[x] /\ currentStep'[x] = currentStep[x]
      BY <3>2, <2>1 DEF TypeOK
    <3>4. QED
      BY <2>1, <3>1, <3>3 DEF Touches, AddsJob
  <2>3. runStatus'[at[p].run] \in Pending => runStatus'[at[p].run] = runStatus[at[p].run]
    BY <2>1, <1>17 DEF EnqueueJob, WriteRun, Pending, TypeOK
  <2>4. QED
    BY <2>1, <2>2, <2>3 DEF Goal
<1>18. ASSUME InsertStepRun(p)
      PROVE  Goal
  <2>1. at[p].run \in Runs /\ Busy(p)
    BY <1>b, <1>18 DEF InsertStepRun, Busy
  <2>2. Touches(at[p].run)
    <3>1. AddsRow(at[p].run, at[p].step, "running", at[p].job)
      BY <1>18, InsertStepRunDoes
    <3>2. UNCHANGED <<runVars, jobs>>
      BY <1>18 DEF InsertStepRun
    <3>3. QED
      BY <3>1, <3>2, <2>1, Hand, <1>18 DEF Touches, runVars, AddsRow, InsertStepRun
  <2>3. runStatus'[at[p].run] \in Pending => runStatus'[at[p].run] = runStatus[at[p].run]
    BY <1>18 DEF InsertStepRun, runVars
  <2>4. QED
    BY <2>1, <2>2, <2>3 DEF Goal
<1>19. ASSUME StepVanished(p)
      PROVE  Goal
  BY <1>a, <1>19 DEF StepVanished
<1>20. ASSUME FinishCurrentStep(p)
      PROVE  Goal
  <2>1. at[p].run \in Runs /\ Busy(p)
    BY <1>b, <1>20 DEF FinishCurrentStep, Busy
  <2>2. Touches(at[p].run)
    <3>1. FinishStep(p, at[p].ok) /\ at[p].ok \in BOOLEAN
      BY <1>20, Hand DEF FinishCurrentStep
    <3>2. /\ UNCHANGED <<currentStep, jobs>>
          /\ hasFailed' = hasFailed \/ hasFailed' = hasFailed \union {at[p].run}
          /\ \/ UNCHANGED <<runStatus, notices>>
             \/ /\ \E st \in Ended : runStatus' = [runStatus EXCEPT ![at[p].run] = st]
                /\ notices' = [notices EXCEPT ![at[p].run] = @ + 1]
      BY <1>20, <2>1, <3>1, FinishDoes DEF EndsRun, GoesOn, FinishCurrentStep
    <3>3. \A x \in Runs \ {at[p].run} :
            /\ runStatus'[x] = runStatus[x] /\ notices'[x] = notices[x] /\ currentStep'[x] = currentStep[x]
            /\ x \in hasFailed' <=> x \in hasFailed
      BY <3>2, <2>1 DEF TypeOK
    <3>4. UNCHANGED stepRuns
      BY <1>20 DEF FinishCurrentStep
    <3>5. QED
      BY <2>1, <3>2, <3>3, <3>4 DEF Touches, AddsRow
  <2>3. runStatus'[at[p].run] \in Pending => runStatus'[at[p].run] = runStatus[at[p].run]
    <3>1. FinishStep(p, at[p].ok) /\ at[p].ok \in BOOLEAN
      BY <1>20, Hand DEF FinishCurrentStep
    <3>2. \/ UNCHANGED runStatus
          \/ \E st \in Ended : runStatus' = [runStatus EXCEPT ![at[p].run] = st]
      BY <2>1, <3>1, FinishDoes DEF EndsRun, GoesOn
    <3>3. QED
      BY <2>1, <3>2 DEF TypeOK, Ended, Pending
  <2>4. QED
    BY <2>1, <2>2, <2>3 DEF Goal
<1>21. ASSUME FailStep(p)
      PROVE  Goal
  <2>1. at[p].run \in Runs /\ Busy(p)
    BY <1>b, <1>21 DEF FailStep, Busy
  <2>2. Touches(at[p].run)
    <3>1. FinishStep(p, FALSE) /\ at[p].ok \in BOOLEAN
      BY <1>21, Hand DEF FailStep
    <3>2. /\ UNCHANGED <<currentStep, jobs>>
          /\ hasFailed' = hasFailed \/ hasFailed' = hasFailed \union {at[p].run}
          /\ \/ UNCHANGED <<runStatus, notices>>
             \/ /\ \E st \in Ended : runStatus' = [runStatus EXCEPT ![at[p].run] = st]
                /\ notices' = [notices EXCEPT ![at[p].run] = @ + 1]
      BY <1>21, <2>1, <3>1, FinishDoes DEF EndsRun, GoesOn, FailStep
    <3>3. \A x \in Runs \ {at[p].run} :
            /\ runStatus'[x] = runStatus[x] /\ notices'[x] = notices[x] /\ currentStep'[x] = currentStep[x]
            /\ x \in hasFailed' <=> x \in hasFailed
      BY <3>2, <2>1 DEF TypeOK
    <3>4. AddsRow(at[p].run, at[p].step, "failed", 0)
      BY <1>21, FailStepDoes DEF FailStep
    <3>5. QED
      BY <2>1, <3>2, <3>3, <3>4 DEF Touches, AddsRow
  <2>3. runStatus'[at[p].run] \in Pending => runStatus'[at[p].run] = runStatus[at[p].run]
    <3>1. FinishStep(p, FALSE) /\ at[p].ok \in BOOLEAN
      BY <1>21, Hand DEF FailStep
    <3>2. \/ UNCHANGED runStatus
          \/ \E st \in Ended : runStatus' = [runStatus EXCEPT ![at[p].run] = st]
      BY <2>1, <3>1, FinishDoes DEF EndsRun, GoesOn
    <3>3. QED
      BY <2>1, <3>2 DEF TypeOK, Ended, Pending
  <2>4. QED
    BY <2>1, <2>2, <2>3 DEF Goal
<1>22. ASSUME PrefillRollsBack(p)
      PROVE  Goal
  BY <1>22 DEF PrefillRollsBack, TypeOK
<1>23. ASSUME Abort(p)
      PROVE  Goal
  BY <1>a, <1>23 DEF Abort
<1>24. QED
  BY <1>1, <1>2, <1>3, <1>4, <1>5, <1>6, <1>7, <1>8, <1>9, <1>10, <1>11, <1>12, <1>13, <1>14, <1>15, <1>16, <1>17, <1>18, <1>19, <1>20, <1>21, <1>22, <1>23
     DEF Acts, Tick, Review, Advance, Goal

(* The runs a step does not touch. *)
LEMMA UntouchedRuns ==
  ASSUME TypeOK, RowsKept, NEW r, Touches(r), NEW x \in Runs, x # r
  PROVE  /\ RowsOf(x)' = RowsOf(x)
         /\ \A k \in RowsOf(x) : stepRuns'[k] = stepRuns[k]
         /\ RunOf(x) => RunOf(x)'
<1>1. RowsOf(x)' = RowsOf(x) /\ \A k \in RowsOf(x) : stepRuns'[k] = stepRuns[k]
  BY DEF Touches, RowsOf, RowsKept
<1>2. (\A j \in DOMAIN jobs : jobs[j].run # x) => \A j \in DOMAIN jobs' : jobs'[j].run # x
  BY DEF Touches
<1>3. /\ runStatus'[x] = runStatus[x] /\ currentStep'[x] = currentStep[x]
      /\ x \in hasFailed' <=> x \in hasFailed
      /\ notices'[x] = notices[x]
  BY DEF Touches
<1>4. ASSUME RunOf(x) PROVE RunOf(x)'
  <2>1. \A k \in RowsOf(x) : Over(k)' <=> Over(k)
    BY <1>1 DEF Over
  <2>2. (runStatus[x] \in Pending =>
          /\ RowsOf(x) = {} /\ x \notin hasFailed /\ currentStep[x] = NoStep
          /\ \A j \in DOMAIN jobs : jobs[j].run # x)'
    BY <1>1, <1>2, <1>3, <1>4 DEF RunOf, Pending
  <2>3. QED
    BY <1>1, <1>3, <1>4, <2>1, <2>2 DEF RunOf
<1>5. QED
  BY <1>1, <1>4

(* The other agents keep what they know. *)
LEMMA OthersOwn ==
  ASSUME FlowInv, RowsKept, Exclusive, gitFailures' = 0, NEW p \in Agents, Acts(p),
         NEW q \in Agents \ {p}
  PROVE  /\ OwnOf(q)'
         /\ Busy(q) => runStatus'[at[q].run] = runStatus[at[q].run]
<1>1. PICK r \in Runs \union {NoRun} :
        /\ Touches(r)
        /\ \/ r = NoRun
           \/ Busy(p) /\ at[p].run = r
           \/ pc[p] = "loop" /\ phase[p] = "starting" /\ r \in Listed(p)
        /\ r \in Runs /\ runStatus'[r] \in Pending => runStatus'[r] = runStatus[r]
  BY ActsTouches DEF FlowInv
<1>2. UNCHANGED <<phase[q], pc[q], todo[q], held[q], at[q]>>
  BY OneAgent DEF OthersRest, FlowInv
<1>3. UNCHANGED Listed(q) /\ Listed(q) \subseteq Runs
  BY <1>2 DEF Listed, FlowInv, TypeOK
<1>4. ASSUME Busy(q) PROVE at[q].run # r /\ at[q].run \in Runs
  <2>1. at[q].run \in Runs
    BY <1>4 DEF Busy, FlowInv, HandInv, HandOf
  <2>2. QED
    BY <1>1, <1>4, <2>1 DEF FlowInv, AloneInv, WorkflowAssumption
<1>5. ASSUME phase[q] = "starting" PROVE r \notin Listed(q)
  <2>1. CASE r = NoRun
    BY <1>3, <2>1 DEF WorkflowAssumption
  <2>2. CASE Busy(p) /\ at[p].run = r
    BY <1>5, <2>2 DEF FlowInv, AloneInv
  <2>3. CASE r \in Listed(p)
    BY <2>3, ListedApart DEF FlowInv
  <2>4. QED
    BY <1>1, <2>1, <2>2, <2>3
<1>6. OwnOf(q) /\ HandOf(q)
  BY DEF FlowInv, OwnInv, WatchInv, HandInv
<1>7. \A x \in Listed(q) : \/ runStatus'[x] = runStatus[x]
                           \/ phase[q] # "starting" /\ runStatus'[x] \notin Pending
  BY <1>1, <1>3, <1>5 DEF Touches
<1>8. CASE ~Busy(q)
  BY <1>2, <1>3, <1>6, <1>7, <1>8 DEF OwnOf, WatchOf, Busy
<1>9. CASE Busy(q)
  <2>0. PICK x \in Runs : x = at[q].run /\ x # r
    BY <1>4, <1>9
  <2>1. /\ RowsOf(x)' = RowsOf(x)
        /\ \A k \in RowsOf(x) : stepRuns'[k] = stepRuns[k]
        /\ runStatus'[x] = runStatus[x] /\ currentStep'[x] = currentStep[x]
    <3>1. x \in Runs /\ x # r /\ TypeOK /\ Touches(r)
      BY <1>1, <2>0 DEF FlowInv
    <3>2. RowsOf(x)' = RowsOf(x) /\ \A k \in RowsOf(x) : stepRuns'[k] = stepRuns[k]
      BY <3>1, UntouchedRuns
    <3>3. QED
      BY <3>1, <3>2 DEF Touches
  <2>2. pc[q] \in {"checked", "finish", "reviewing", "approved"} => at[q].entry \in RowsOf(x)
    BY <1>6, <2>0 DEF HandOf, RowsOf
  <2>3. phase[q] = "starting" => \A y \in Listed(q) : runStatus'[y] = "queued"
    BY <1>6, <1>7 DEF OwnOf, WatchOf
  <2>4. phase[q] = "checking" => \A y \in Listed(q) : runStatus'[y] \notin Pending
    BY <1>6, <1>7 DEF OwnOf, WatchOf
  <2>5. \A k \in RowsOf(x) : Over(k)' <=> Over(k)
    BY <2>1 DEF Over
  <2>6. QED
    BY <1>2, <1>3, <1>6, <1>9, <2>0, <2>1, <2>2, <2>3, <2>4, <2>5 DEF OwnOf, WatchOf, Busy
<1>10. QED
  BY <1>8, <1>9

(* The agent that acts knows what it needs. *)
LEMMA ActsOwn ==
  ASSUME FlowInv, RowsKept, gitFailures' = 0, TypeOK', NEW p \in Agents, Acts(p)
  PROVE  OwnOf(p)'
<1>0. /\ TypeOK /\ HandInv /\ OwnOf(p) /\ WatchOf(p) /\ HandOf(p) /\ \A r \in Runs : RunOf(r)
      /\ at[p] \in InHand /\ Listed(p) \subseteq Runs /\ LockInv
  BY Hand DEF FlowInv, OwnInv, WatchInv, HandInv, RunInv, Listed, TypeOK
<1>a. ASSUME pc'[p] = "loop",
             \/ phase'[p] = "idle"
             \/ /\ phase'[p] = phase[p] /\ Listed(p)' \subseteq Listed(p)
                /\ \A x \in Listed(p)' : runStatus'[x] = runStatus[x]
      PROVE  OwnOf(p)'
  BY <1>0, <1>a DEF OwnOf, WatchOf, Busy
<1>b. ASSUME Return(p), Busy(p), \A x \in Runs \ {at[p].run} : runStatus'[x] = runStatus[x]
      PROVE  OwnOf(p)'
  <2>1. pc'[p] = "loop" /\ phase'[p] = phase[p] /\ todo'[p] = todo[p] \ {at[p].run}
    BY <1>0, <1>b DEF Return, TypeOK
  <2>2. Listed(p)' \subseteq todo[p] \ {at[p].run}
    BY <2>1 DEF Listed
  <2>3. QED
    BY <1>0, <1>a, <1>b, <2>1, <2>2 DEF Listed
<1>c. ASSUME NEW where, where \in Pcs \ {"loop"}, Goto(p, where), Busy(p),
             at'[p].run = at[p].run, at'[p].step = at[p].step, at'[p].entry = at[p].entry,
             \A x \in Runs \ {at[p].run} : runStatus'[x] = runStatus[x],
             runStatus'[at[p].run] = "running", currentStep'[at[p].run] = at[p].step,
             where \in {"prefilled", "started", "failing", "finish"} =>
               \A k \in RowsOf(at[p].run)' : Over(k)',
             where # "start"
      PROVE  OwnOf(p)'
  <2>1. pc'[p] = where /\ phase'[p] = phase[p] /\ todo'[p] = todo[p] /\ where # "loop"
    BY <1>0, <1>c DEF Goto, TypeOK
  <2>2. Listed(p)' = Listed(p) /\ \A x \in Listed(p) : runStatus'[x] = runStatus[x]
    BY <1>0, <1>c, <2>1 DEF Listed
  <2>3. RowsOf(at[p].run)' = {k \in DOMAIN stepRuns' : stepRuns'[k].run = at'[p].run}
    BY <1>c DEF RowsOf
  <2>4. /\ (phase[p] = "starting" => \A r \in Listed(p) : runStatus[r] = "queued")'
        /\ (phase[p] = "checking" => \A r \in Listed(p) : runStatus[r] \notin Pending)'
    BY <1>0, <2>1, <2>2 DEF OwnOf, WatchOf, Pending
  <2>5. (pc[p] \in {"start", "prefilled", "started", "failing", "finish"} =>
         \A k \in RowsOf(at[p].run) : Over(k))'
    BY <1>c, <2>1
  <2>6. QED
    BY <1>c, <2>1, <2>4, <2>5 DEF OwnOf, WatchOf, Busy
<1>1. ASSUME ListQueued(p), p \in Procs
      PROVE  OwnOf(p)'
  <2>1. /\ pc'[p] = "loop" /\ Listed(p)' \subseteq Select(p, "queued") /\ phase'[p] = "starting"
        /\ UNCHANGED runStatus
    BY <1>0, <1>1, DisjointAgents DEF ListQueued, Listed, HandOf, TypeOK, runVars
  <2>2. QED
    BY <2>1 DEF OwnOf, WatchOf, Busy, Select, Pending
<1>2. ASSUME NEW r \in Runs, TakeQueued(p, r), p \in Procs
      PROVE  OwnOf(p)'
  <2>1. PICK a \in InHand : Hands(p, a) /\ a.run = r /\ a.step \in Steps
    BY <1>2, TakeQueuedDoes
  <2>2. /\ pc'[p] = "start" /\ phase'[p] = "starting" /\ phase[p] = "starting" /\ at'[p].run = r
        /\ Listed(p)' \subseteq Listed(p) /\ r \in Listed(p) /\ UNCHANGED <<runStatus, stepRuns, held>>
    BY SMTT(30), <1>0, <1>2, <2>1, IdleType DEF TakeQueued, Listed, Hands, Goto, HandOf, TypeOK, runVars, WorkflowAssumption
  <2>3. runStatus[r] = "queued" /\ RowsOf(r) = {}
    BY <1>0, <2>2 DEF OwnOf, WatchOf, RunOf, Pending
  <2>4. RowsOf(at[p].run)' = {}
    BY <2>2, <2>3 DEF RowsOf
  <2>5. phase[p] = "starting" => \A x \in Listed(p)' : runStatus'[x] = "queued"
    BY <1>0, <2>2 DEF OwnOf, WatchOf
  <2>6. QED
    BY <1>0, <1>2, <2>2, <2>3, <2>4, <2>5 DEF OwnOf, LockInv
<1>3. ASSUME NEW r \in Runs, FinishWithoutSteps(p, r), p \in Procs
      PROVE  OwnOf(p)'
  <2>1. /\ pc'[p] = "loop" /\ phase'[p] = phase[p] /\ Listed(p)' \subseteq Listed(p) \ {r}
        /\ \A x \in Runs \ {r} : runStatus'[x] = runStatus[x]
    BY <1>0, <1>3 DEF FinishWithoutSteps, Listed, TypeOK
  <2>2. QED
    BY <1>0, <1>a, <2>1
<1>4. ASSUME ListRunning(p), p \in Procs
      PROVE  OwnOf(p)'
  <2>1. /\ pc'[p] = "loop" /\ Listed(p)' \subseteq Select(p, "running") /\ phase'[p] = "checking"
        /\ UNCHANGED runStatus
    BY <1>0, <1>4, DisjointAgents DEF ListRunning, Listed, HandOf, TypeOK, runVars
  <2>2. QED
    BY <2>1 DEF OwnOf, WatchOf, Busy, Select, Pending
<1>5. ASSUME NEW r \in Runs, NothingToDecide(p, r), p \in Procs
      PROVE  OwnOf(p)'
  <2>1. /\ pc'[p] = "loop" /\ phase'[p] = phase[p] /\ Listed(p)' \subseteq Listed(p)
        /\ UNCHANGED runStatus
    BY <1>0, <1>5 DEF NothingToDecide, Listed, TypeOK, runVars
  <2>2. QED
    BY <1>a, <2>1
<1>6. ASSUME NEW r \in Runs, ReadOutcome(p, r), p \in Procs
      PROVE  OwnOf(p)'
  <2> DEFINE k == CurrentStepRun(r)
  <2>1. /\ k \in DOMAIN stepRuns /\ stepRuns[k].run = r /\ stepRuns[k].step = currentStep[r]
        /\ stepRuns[k].status = "running"
        /\ \E a \in InHand : /\ Hands(p, a) /\ a.run = r /\ a.step = stepRuns[k].step
                             /\ a.entry = k /\ a.step \in Steps
    BY <1>0, <1>6, ReadOutcomeDoes
  <2>2. PICK a \in InHand : /\ Hands(p, a) /\ a.run = r /\ a.step = stepRuns[k].step
                            /\ a.entry = k /\ a.step \in Steps
    BY <2>1
  <2>3. PICK e : e = k
    OBVIOUS
  <2> HIDE DEF k
  <2>4. /\ pc'[p] = "checked" /\ phase'[p] = "checking" /\ phase[p] = "checking" /\ at'[p] = a
        /\ Listed(p)' \subseteq Listed(p) /\ UNCHANGED <<runStatus, currentStep, stepRuns>>
    <3>1. /\ phase[p] = "checking" /\ pc[p] = "loop" /\ Goto(p, "checked")
          /\ UNCHANGED <<runStatus, currentStep, stepRuns>>
      BY <1>6 DEF ReadOutcome, runVars
    <3>2. at[p] = Idle
      BY <1>0, <3>1 DEF HandOf
    <3>3. QED
      BY <1>0, <2>2, <3>1, <3>2, IdleType DEF Listed, Hands, Goto, TypeOK, WorkflowAssumption
  <2>5. runStatus[r] = "running"
    <3>1. e \in RowsOf(r) /\ ~Over(e)
      BY <2>1, <2>3 DEF RowsOf, Over
    <3>2. QED
      BY <1>0, <3>1 DEF RunOf
  <2>6. \A x \in Listed(p)' : runStatus'[x] \notin Pending
    BY <1>0, <2>4 DEF OwnOf, WatchOf
  <2>7. QED
    BY <2>1, <2>2, <2>4, <2>5, <2>6 DEF OwnOf, WatchOf, Busy
<1>7. ASSUME CommitOutcome(p), p \in Procs
      PROVE  OwnOf(p)'
  <2>1. SetsRow(at[p].entry, Outcome(at[p].ok), stepRuns[at[p].entry].job)
    BY <1>0, <1>7, CommitOutcomeDoes
  <2>2. /\ Goto(p, "finish") /\ pc[p] = "checked" /\ UNCHANGED <<runStatus, currentStep, at>>
    BY <1>7 DEF CommitOutcome, runVars
  <2>3. \A k \in RowsOf(at[p].run)' : Over(k)'
    <3>1. at[p].entry \in RowsOf(at[p].run) /\ ~Over(at[p].entry)
      BY <1>0, <2>2 DEF OwnOf, WatchOf, HandOf, RowsOf, Over
    <3>2. at[p].run \in Runs
      BY <1>0, <2>2 DEF HandOf
    <3>3. \A k \in RowsOf(at[p].run) : k # at[p].entry => Over(k)
      BY <1>0, <3>1, <3>2 DEF RunOf
    <3>4. Outcome(at[p].ok) \in {"success", "failed"}
      BY DEF Outcome
    <3>5. QED
      BY <2>1, <2>2, <3>3, <3>4 DEF SetsRow, RowsOf, Over
  <2>4. /\ Busy(p) /\ runStatus'[at[p].run] = "running" /\ currentStep'[at[p].run] = at[p].step
        /\ \A x \in Runs \ {at[p].run} : runStatus'[x] = runStatus[x]
        /\ "finish" \in Pcs \ {"loop"}
    BY <1>0, <2>2 DEF OwnOf, WatchOf, Busy, Pcs
  <2>5. QED
    BY <1>c, <2>2, <2>3, <2>4
<1>8. ASSUME EndTick(p), p \in Procs
      PROVE  OwnOf(p)'
  <2>1. phase'[p] = "idle" /\ pc'[p] = "loop"
    BY <1>0, <1>8 DEF EndTick, TypeOK, HandOf
  <2>2. QED
    BY <1>a, <2>1
<1>9. ASSUME NEW k \in DOMAIN stepRuns, OpenReview(p, k), p \in Reviewers
      PROVE  OwnOf(p)'
  <2>1. PICK a \in InHand : /\ Hands(p, a) /\ a.run = stepRuns[k].run /\ a.step = stepRuns[k].step
                            /\ a.entry = k /\ a.run \in Runs /\ a.step \in Steps
    BY <1>0, <1>9, OpenReviewDoes
  <2>2. /\ pc'[p] = "reviewing" /\ phase'[p] = "idle" /\ at'[p] = a
        /\ UNCHANGED <<runStatus, currentStep, stepRuns>>
    BY <1>0, <1>9, <2>1 DEF OpenReview, Hands, Goto, HandOf, TypeOK, runVars
  <2>3. stepRuns[k].status = "awaiting_review" /\ k \in RowsOf(a.run) /\ ~Over(k)
    BY <1>9, <2>1 DEF OpenReview, AwaitsReview, RowsOf, Over
  <2>4. runStatus[a.run] = "running" /\ currentStep[a.run] = a.step
    BY <1>0, <2>1, <2>3 DEF RunOf
  <2>5. QED
    BY <2>1, <2>2, <2>3, <2>4 DEF OwnOf, WatchOf, Busy
<1>10. ASSUME CannotApprove(p), p \in Reviewers
      PROVE  OwnOf(p)'
  <2>1. Return(p) /\ Busy(p) /\ UNCHANGED runStatus
    BY <1>10 DEF CannotApprove, Busy, runVars
  <2>2. QED
    BY <1>b, <2>1
<1>11. ASSUME Approve(p), p \in Reviewers
      PROVE  OwnOf(p)'
  <2>1. PICK a \in InHand : /\ Hands(p, a) /\ a.run = at[p].run /\ a.step = at[p].step
                            /\ a.entry = at[p].entry
    BY <1>0, <1>11, JobInHand DEF Approve
  <2>2. Goto(p, "approved") /\ pc[p] = "reviewing" /\ UNCHANGED <<runStatus, currentStep, stepRuns>>
    BY <1>11 DEF Approve, runVars
  <2>3. at'[p] = a
    BY <1>0, <2>1 DEF Hands, TypeOK
  <2>4. /\ Busy(p) /\ runStatus'[at[p].run] = "running" /\ currentStep'[at[p].run] = at[p].step
        /\ \A x \in Runs \ {at[p].run} : runStatus'[x] = runStatus[x]
        /\ "approved" \in Pcs \ {"loop"} /\ stepRuns'[at[p].entry].status = "awaiting_review"
    BY <1>0, <2>2 DEF OwnOf, WatchOf, Busy, Pcs
  <2>5. QED
    BY <1>c, <2>1, <2>2, <2>3, <2>4
<1>12. ASSUME BindBatch(p), p \in Reviewers
      PROVE  OwnOf(p)'
  <2>1. Return(p) /\ Busy(p) /\ UNCHANGED runStatus
    BY <1>12 DEF BindBatch, Busy, runVars
  <2>2. QED
    BY <1>b, <2>1
<1>13. ASSUME Reject(p), p \in Reviewers
      PROVE  OwnOf(p)'
  <2>1. SetsRow(at[p].entry, "failed", stepRuns[at[p].entry].job)
    BY <1>0, <1>13, RejectDoes
  <2>2. Goto(p, "finish") /\ pc[p] = "reviewing" /\ UNCHANGED <<runStatus, currentStep>>
    BY <1>13 DEF Reject, runVars
  <2>3. PICK a \in InHand : /\ Hands(p, a) /\ a.run = at[p].run /\ a.step = at[p].step
                            /\ a.entry = at[p].entry
    BY <1>0, <1>13, RejectInHand
  <2>4. at'[p] = a
    BY <1>0, <2>3 DEF Hands, TypeOK
  <2>5. \A k \in RowsOf(at[p].run)' : Over(k)'
    <3>1. at[p].entry \in RowsOf(at[p].run) /\ ~Over(at[p].entry)
      BY <1>0, <2>2 DEF OwnOf, WatchOf, HandOf, RowsOf, Over
    <3>2. at[p].run \in Runs
      BY <1>0, <2>2 DEF HandOf
    <3>3. \A k \in RowsOf(at[p].run) : k # at[p].entry => Over(k)
      BY <1>0, <3>1, <3>2 DEF RunOf
    <3>4. RowsOf(at[p].run)' = RowsOf(at[p].run)
      BY <2>1, <2>3, <2>4 DEF SetsRow, RowsOf
    <3>5. QED
      BY <2>1, <3>3, <3>4 DEF SetsRow, RowsOf, Over
  <2>6. /\ Busy(p) /\ runStatus'[at[p].run] = "running" /\ currentStep'[at[p].run] = at[p].step
        /\ \A x \in Runs \ {at[p].run} : runStatus'[x] = runStatus[x]
        /\ "finish" \in Pcs \ {"loop"}
    BY <1>0, <2>2 DEF OwnOf, WatchOf, Busy, Pcs
  <2>7. QED
    BY <1>c, <2>2, <2>3, <2>4, <2>5, <2>6
<1>14. ASSUME CannotStart(p)
      PROVE  OwnOf(p)'
  <2>1. Goto(p, "failing") /\ pc[p] = "start" /\ UNCHANGED <<at, stepRuns>>
    BY <1>14 DEF CannotStart
  <2>2. /\ Busy(p) /\ runStatus'[at[p].run] = "running" /\ currentStep'[at[p].run] = at[p].step
        /\ \A x \in Runs \ {at[p].run} : runStatus'[x] = runStatus[x]
        /\ "failing" \in Pcs \ {"loop"}
    BY <1>0, <1>14, <2>1 DEF CannotStart, WriteRun, HandOf, TypeOK, Busy, Pcs
  <2>3. \A k \in RowsOf(at[p].run)' : Over(k)'
    BY <1>0, <2>1 DEF OwnOf, WatchOf, RowsOf, Over
  <2>4. QED
    BY <1>c, <2>1, <2>2, <2>3
<1>15. ASSUME Prefill(p)
      PROVE  OwnOf(p)'
  <2>1. Goto(p, "prefilled") /\ pc[p] = "start" /\ UNCHANGED <<at, stepRuns>>
    BY <1>15 DEF Prefill
  <2>2. /\ Busy(p) /\ runStatus'[at[p].run] = "running" /\ currentStep'[at[p].run] = at[p].step
        /\ \A x \in Runs \ {at[p].run} : runStatus'[x] = runStatus[x]
        /\ "prefilled" \in Pcs \ {"loop"}
    BY <1>0, <1>15, <2>1 DEF Prefill, WriteRun, HandOf, TypeOK, Busy, Pcs
  <2>3. \A k \in RowsOf(at[p].run)' : Over(k)'
    BY <1>0, <2>1 DEF OwnOf, WatchOf, RowsOf, Over
  <2>4. QED
    BY <1>c, <2>1, <2>2, <2>3
<1>16. ASSUME AwaitReview(p)
      PROVE  OwnOf(p)'
  <2>1. Return(p) /\ Busy(p) /\ UNCHANGED runStatus
    BY <1>16 DEF AwaitReview, Busy, runVars
  <2>2. QED
    BY <1>b, <2>1
<1>17. ASSUME EnqueueJob(p)
      PROVE  OwnOf(p)'
  <2>1. PICK a \in InHand : /\ Hands(p, a) /\ a.run = at[p].run /\ a.step = at[p].step
                            /\ a.entry = at[p].entry
    BY <1>0, <1>17, JobInHand DEF EnqueueJob
  <2>2. Goto(p, "started") /\ pc[p] \in {"start", "prefilled"} /\ UNCHANGED stepRuns
    BY <1>17 DEF EnqueueJob
  <2>3. at'[p] = a /\ "started" \in Pcs \ {"loop"} /\ Busy(p)
    BY <1>0, <2>1, <2>2 DEF Hands, TypeOK, Pcs, Busy
  <2>4. /\ runStatus'[at[p].run] = "running" /\ currentStep'[at[p].run] = at[p].step
        /\ \A x \in Runs \ {at[p].run} : runStatus'[x] = runStatus[x]
    <3>1. CASE pc[p] = "start" /\ WriteRun(p)
      BY <1>0, <3>1 DEF WriteRun, HandOf, TypeOK
    <3>2. CASE pc[p] = "prefilled" /\ UNCHANGED <<runStatus, currentStep>>
      BY <1>0, <3>2 DEF OwnOf, WatchOf, Busy
    <3>3. QED
      BY <1>17, <3>1, <3>2 DEF EnqueueJob
  <2>5. RowsOf(at[p].run)' = RowsOf(at[p].run)
    BY <2>1, <2>2, <2>3 DEF RowsOf
  <2>6. \A k \in RowsOf(at[p].run)' : Over(k)'
    BY <1>0, <2>2, <2>5 DEF OwnOf, WatchOf, Over
  <2>7. QED
    BY <1>c, <2>1, <2>2, <2>3, <2>4, <2>6
<1>18. ASSUME InsertStepRun(p)
      PROVE  OwnOf(p)'
  <2>1. Return(p) /\ Busy(p) /\ UNCHANGED runStatus
    BY <1>18 DEF InsertStepRun, Busy, runVars
  <2>2. QED
    BY <1>b, <2>1
<1>19. ASSUME StepVanished(p)
      PROVE  OwnOf(p)'
  <2>1. phase'[p] = "idle" /\ pc'[p] = "loop"
    BY <1>0, <1>19 DEF StepVanished, TypeOK, HandOf
  <2>2. QED
    BY <1>a, <2>1
<1>20. ASSUME FinishCurrentStep(p)
      PROVE  OwnOf(p)'
  <2>1. /\ at[p].run \in Runs /\ at[p].ok \in BOOLEAN /\ FinishStep(p, at[p].ok) /\ Busy(p) /\ pc[p] = "finish"
    BY <1>0, <1>20, Hand DEF FinishCurrentStep, Busy
  <2>2. (\E st \in Ended : EndsRun(p, st)) \/ \E t \in Steps : GoesOn(p, t)
    <3>1. \A f : FinalStatus(f) \in Ended /\ "failed" \in Ended
      BY DEF FinalStatus, Ended
    <3>2. QED
      BY <1>0, <2>1, <3>1, FinishDoes
  <2>3. ASSUME NEW st \in Ended, EndsRun(p, st) PROVE OwnOf(p)'
    <3>1. Return(p) /\ \A x \in Runs \ {at[p].run} : runStatus'[x] = runStatus[x]
      BY <1>0, <2>1, <2>3 DEF EndsRun, TypeOK
    <3>2. QED
      BY <1>b, <2>1, <3>1
  <2>4. ASSUME NEW t \in Steps, GoesOn(p, t) PROVE OwnOf(p)'
    <3>1. PICK a \in InHand : Hands(p, a) /\ a.run = at[p].run /\ a.step = t
      BY <2>4 DEF GoesOn
    <3>2. /\ pc'[p] = "start" /\ phase'[p] = phase[p] /\ todo'[p] = todo[p] /\ at'[p] = a
          /\ UNCHANGED runStatus
      BY <1>0, <2>4, <3>1 DEF GoesOn, Goto, Hands, TypeOK
    <3>3. Listed(p)' = Listed(p) /\ runStatus[at[p].run] = "running"
      BY <1>0, <2>1, <3>1, <3>2 DEF Listed, OwnOf, WatchOf
    <3>4. \A k \in RowsOf(at[p].run)' : Over(k)'
      <4>1. UNCHANGED stepRuns
        BY <1>20 DEF FinishCurrentStep
      <4>2. QED
        BY <1>0, <2>1, <3>1, <3>2, <4>1 DEF OwnOf, WatchOf, RowsOf, Over
    <3>5. /\ (phase[p] = "starting" => \A r \in Listed(p) : runStatus[r] = "queued")'
          /\ (phase[p] = "checking" => \A r \in Listed(p) : runStatus[r] \notin Pending)'
      BY <1>0, <3>2, <3>3 DEF OwnOf, WatchOf
    <3>6. QED
      BY <3>1, <3>2, <3>3, <3>4, <3>5 DEF OwnOf, WatchOf
  <2>5. QED
    BY <2>2, <2>3, <2>4
<1>21. ASSUME FailStep(p)
      PROVE  OwnOf(p)'
  <2>1. /\ at[p].run \in Runs /\ at[p].ok \in BOOLEAN /\ FinishStep(p, FALSE) /\ Busy(p) /\ pc[p] = "failing"
    BY <1>0, <1>21, Hand DEF FailStep, Busy
  <2>2. (\E st \in Ended : EndsRun(p, st)) \/ \E t \in Steps : GoesOn(p, t)
    <3>1. \A f : FinalStatus(f) \in Ended /\ "failed" \in Ended
      BY DEF FinalStatus, Ended
    <3>2. QED
      BY <1>0, <2>1, <3>1, FinishDoes
  <2>3. ASSUME NEW st \in Ended, EndsRun(p, st) PROVE OwnOf(p)'
    <3>1. Return(p) /\ \A x \in Runs \ {at[p].run} : runStatus'[x] = runStatus[x]
      BY <1>0, <2>1, <2>3 DEF EndsRun, TypeOK
    <3>2. QED
      BY <1>b, <2>1, <3>1
  <2>4. ASSUME NEW t \in Steps, GoesOn(p, t) PROVE OwnOf(p)'
    <3>1. PICK a \in InHand : Hands(p, a) /\ a.run = at[p].run /\ a.step = t
      BY <2>4 DEF GoesOn
    <3>2. /\ pc'[p] = "start" /\ phase'[p] = phase[p] /\ todo'[p] = todo[p] /\ at'[p] = a
          /\ UNCHANGED runStatus
      BY <1>0, <2>4, <3>1 DEF GoesOn, Goto, Hands, TypeOK
    <3>3. Listed(p)' = Listed(p) /\ runStatus[at[p].run] = "running"
      BY <1>0, <2>1, <3>1, <3>2 DEF Listed, OwnOf, WatchOf
    <3>4. \A k \in RowsOf(at[p].run)' : Over(k)'
      <4>1. AddsRow(at[p].run, at[p].step, "failed", 0)
        BY <1>0, <1>21, FailStepDoes
      <4>2. QED
        BY <1>0, <2>1, <3>1, <3>2, <4>1 DEF OwnOf, WatchOf, RowsOf, Over, AddsRow
    <3>5. /\ (phase[p] = "starting" => \A r \in Listed(p) : runStatus[r] = "queued")'
          /\ (phase[p] = "checking" => \A r \in Listed(p) : runStatus[r] \notin Pending)'
      BY <1>0, <3>2, <3>3 DEF OwnOf, WatchOf
    <3>6. QED
      BY <3>1, <3>2, <3>3, <3>4, <3>5 DEF OwnOf, WatchOf
  <2>5. QED
    BY <2>2, <2>3, <2>4
<1>22. ASSUME PrefillRollsBack(p)
      PROVE  OwnOf(p)'
  BY <1>0, <1>22 DEF PrefillRollsBack, TypeOK
<1>23. ASSUME Abort(p)
      PROVE  OwnOf(p)'
  <2>1. phase'[p] = "idle" /\ pc'[p] = "loop"
    BY <1>0, <1>23 DEF Abort, TypeOK, HandOf
  <2>2. QED
    BY <1>a, <2>1
<1>24. QED
  BY <1>1, <1>2, <1>3, <1>4, <1>5, <1>6, <1>7, <1>8, <1>9, <1>10, <1>11, <1>12, <1>13, <1>14, <1>15, <1>16, <1>17, <1>18, <1>19, <1>20, <1>21, <1>22, <1>23
     DEF Acts, Tick, Review, Advance

(* The runs are as they should be after an agent's step. *)
LEMMA ActsRun ==
  ASSUME FlowInv, RowsKept, gitFailures' = 0, TypeOK', NEW p \in Agents, Acts(p)
  PROVE  RunInv'
<1>0. /\ TypeOK /\ HandInv /\ OwnOf(p) /\ WatchOf(p) /\ HandOf(p) /\ \A r \in Runs : RunOf(r)
  BY DEF FlowInv, OwnInv, WatchInv, HandInv, RunInv
<1>a. ASSUME UNCHANGED <<runVars, stepRuns, jobs>> PROVE RunInv'
  BY <1>0, <1>a DEF RunInv, RunOf, RowsOf, Over, runVars
<1>b. ASSUME NEW r \in Runs, r = at[p].run, Busy(p),
             runStatus'[r] \notin Pending, notices'[r] = IF runStatus'[r] \in Ended THEN 1 ELSE 0,
             NEW e, \A k \in RowsOf(r)' : k # e => Over(k)',
             e \in RowsOf(r)' => Over(e)' \/ (runStatus'[r] = "running" /\ currentStep'[r] = stepRuns'[e].step)
      PROVE  RunInv'
  <2>1. RunOf(r)'
    BY <1>b DEF RunOf
  <2>2. PICK x \in Runs \union {NoRun} :
          /\ Touches(x)
          /\ \/ x = NoRun
             \/ Busy(p) /\ at[p].run = x
             \/ pc[p] = "loop" /\ phase[p] = "starting" /\ x \in Listed(p)
    BY <1>0, ActsTouches
  <2>3. ASSUME NEW y \in Runs \ {r} PROVE RunOf(y)'
    <3>1. y # x
      BY <1>b, <2>2 DEF Busy, WorkflowAssumption
    <3>2. QED
      BY <1>0, <2>2, <3>1, UntouchedRuns
  <2>4. QED
    BY <2>1, <2>3 DEF RunInv
<1>c. ASSUME Busy(p) PROVE /\ at[p].run \in Runs /\ runStatus[at[p].run] \in {"queued", "running"}
                           /\ notices[at[p].run] = 0
                           /\ pc[p] # "start" => runStatus[at[p].run] = "running"
  BY <1>0, <1>c DEF OwnOf, WatchOf, HandOf, RunOf, Busy, Ended
<1>d. "running" \notin Pending \union Ended /\ "queued" \notin Ended
  BY DEF Pending, Ended
<1>e. ASSUME pc[p] \in {"checked", "reviewing", "approved"}
      PROVE  \A k \in RowsOf(at[p].run) : k # at[p].entry => Over(k)
  <2>1. at[p].entry \in RowsOf(at[p].run) /\ ~Over(at[p].entry) /\ at[p].run \in Runs
    BY <1>0, <1>e DEF OwnOf, WatchOf, HandOf, RowsOf, Over
  <2>2. QED
    BY <1>0, <2>1 DEF RunOf
<1>1. ASSUME ListQueued(p), p \in Procs
      PROVE  RunInv'
  BY <1>a, <1>1 DEF ListQueued
<1>2. ASSUME NEW r \in Runs, TakeQueued(p, r), p \in Procs
      PROVE  RunInv'
  BY <1>a, <1>2 DEF TakeQueued
<1>3. ASSUME NEW r \in Runs, FinishWithoutSteps(p, r), p \in Procs
      PROVE  RunInv'
  <2>1. /\ r \in Listed(p) /\ phase[p] = "starting" /\ UNCHANGED <<currentStep, hasFailed, stepRuns, jobs>>
        /\ runStatus' = [runStatus EXCEPT ![r] = "success"]
        /\ notices' = [notices EXCEPT ![r] = @ + 1]
    BY <1>0, <1>3, IdleType DEF FinishWithoutSteps, Listed, HandOf, WorkflowAssumption
  <2>2. runStatus[r] = "queued"
    BY <1>0, <2>1 DEF OwnOf, WatchOf
  <2>3. RowsOf(r) = {} /\ notices[r] = 0
    BY <1>0, <1>d, <2>2 DEF RunOf, Pending
  <2>4. ASSUME NEW x \in Runs PROVE RunOf(x)'
    <3>1. RowsOf(x)' = RowsOf(x) /\ \A k : Over(k)' <=> Over(k)
      BY <2>1 DEF RowsOf, Over
    <3>2. CASE x = r
      <4>1. runStatus'[r] = "success" /\ notices'[r] = 1
        BY <1>0, <2>1, <2>3 DEF TypeOK
      <4>2. QED
        BY <2>3, <3>1, <3>2, <4>1 DEF RunOf, Pending, Ended
    <3>3. CASE x # r
      <4>1. runStatus'[x] = runStatus[x] /\ notices'[x] = notices[x]
        BY <1>0, <2>1, <3>3 DEF TypeOK
      <4>2. QED
        BY <1>0, <2>1, <3>1, <4>1 DEF RunOf, Over
    <3>4. QED
      BY <3>2, <3>3
  <2>5. QED
    BY <2>4 DEF RunInv
<1>4. ASSUME ListRunning(p), p \in Procs
      PROVE  RunInv'
  BY <1>a, <1>4 DEF ListRunning
<1>5. ASSUME NEW r \in Runs, NothingToDecide(p, r), p \in Procs
      PROVE  RunInv'
  BY <1>a, <1>5 DEF NothingToDecide
<1>6. ASSUME NEW r \in Runs, ReadOutcome(p, r), p \in Procs
      PROVE  RunInv'
  BY <1>a, <1>6 DEF ReadOutcome
<1>7. ASSUME CommitOutcome(p), p \in Procs
      PROVE  RunInv'
  <2>1. PICK r \in Runs : r = at[p].run
    BY <1>c, <1>7 DEF CommitOutcome, Busy
  <2>2. Busy(p) /\ pc[p] = "checked" /\ UNCHANGED <<runStatus, currentStep, notices>>
    BY <1>7 DEF CommitOutcome, Busy, runVars
  <2>3. SetsRow(at[p].entry, Outcome(at[p].ok), stepRuns[at[p].entry].job)
    BY <1>0, <1>7, CommitOutcomeDoes
  <2>4. PICK e : e = at[p].entry
    OBVIOUS
  <2>5. \A k \in RowsOf(r)' : k # e => Over(k)'
    BY <1>e, <2>1, <2>2, <2>3, <2>4 DEF SetsRow, RowsOf, Over
  <2>6. Over(e)'
    BY <2>3, <2>4 DEF SetsRow, Over, Outcome
  <2>7. QED
    BY <1>b, <1>c, <1>d, <2>1, <2>2, <2>5, <2>6
<1>8. ASSUME EndTick(p), p \in Procs
      PROVE  RunInv'
  BY <1>a, <1>8 DEF EndTick
<1>9. ASSUME NEW k \in DOMAIN stepRuns, OpenReview(p, k), p \in Reviewers
      PROVE  RunInv'
  BY <1>a, <1>9 DEF OpenReview
<1>10. ASSUME CannotApprove(p), p \in Reviewers
      PROVE  RunInv'
  BY <1>a, <1>10 DEF CannotApprove
<1>11. ASSUME Approve(p), p \in Reviewers
      PROVE  RunInv'
  <2>1. PICK r \in Runs : r = at[p].run
    BY <1>c, <1>11 DEF Approve, Busy
  <2>2. Busy(p) /\ pc[p] = "reviewing" /\ UNCHANGED <<runStatus, currentStep, stepRuns, notices>>
    BY <1>11 DEF Approve, Busy, runVars
  <2>3. PICK e : e = at[p].entry
    OBVIOUS
  <2>4. \A k \in RowsOf(r)' : k # e => Over(k)'
    BY <1>e, <2>1, <2>2, <2>3 DEF RowsOf, Over
  <2>5. runStatus'[r] = "running" /\ currentStep'[r] = stepRuns'[e].step
    BY <1>0, <1>c, <2>1, <2>2, <2>3 DEF OwnOf, WatchOf, HandOf
  <2>6. QED
    BY <1>b, <1>c, <1>d, <2>1, <2>2, <2>4, <2>5
<1>12. ASSUME BindBatch(p), p \in Reviewers
      PROVE  RunInv'
  <2>1. PICK r \in Runs : r = at[p].run
    BY <1>c, <1>12 DEF BindBatch, Busy
  <2>2. Busy(p) /\ pc[p] = "approved" /\ UNCHANGED <<runStatus, currentStep, notices>>
    BY <1>12 DEF BindBatch, Busy, runVars
  <2>3. SetsRow(at[p].entry, "running", at[p].job)
    BY <1>0, <1>12, BindBatchDoes
  <2>4. PICK e : e = at[p].entry
    OBVIOUS
  <2>5. \A k \in RowsOf(r)' : k # e => Over(k)'
    BY <1>e, <2>1, <2>2, <2>3, <2>4 DEF SetsRow, RowsOf, Over
  <2>6. runStatus'[r] = "running" /\ currentStep'[r] = stepRuns'[e].step
    BY <1>0, <1>c, <2>1, <2>2, <2>3, <2>4 DEF SetsRow, OwnOf, WatchOf, HandOf
  <2>7. QED
    BY <1>b, <1>c, <1>d, <2>1, <2>2, <2>5, <2>6
<1>13. ASSUME Reject(p), p \in Reviewers
      PROVE  RunInv'
  <2>1. PICK r \in Runs : r = at[p].run
    BY <1>c, <1>13 DEF Reject, Busy
  <2>2. Busy(p) /\ pc[p] = "reviewing" /\ UNCHANGED <<runStatus, currentStep, notices>>
    BY <1>13 DEF Reject, Busy, runVars
  <2>3. SetsRow(at[p].entry, "failed", stepRuns[at[p].entry].job)
    BY <1>0, <1>13, RejectDoes
  <2>4. PICK e : e = at[p].entry
    OBVIOUS
  <2>5. \A k \in RowsOf(r)' : k # e => Over(k)'
    BY <1>e, <2>1, <2>2, <2>3, <2>4 DEF SetsRow, RowsOf, Over
  <2>6. Over(e)'
    BY <2>3, <2>4 DEF SetsRow, Over
  <2>7. QED
    BY <1>b, <1>c, <1>d, <2>1, <2>2, <2>5, <2>6
<1>14. ASSUME CannotStart(p)
      PROVE  RunInv'
  <2>1. PICK r \in Runs : r = at[p].run
    BY <1>c, <1>14 DEF CannotStart, Busy
  <2>2. Busy(p) /\ pc[p] \in {"start", "prefilled"} /\ UNCHANGED <<stepRuns, notices>>
    BY <1>14 DEF CannotStart, Busy
  <2>3. runStatus'[r] = "running"
    BY <1>0, <1>c, <1>14, <2>1, <2>2 DEF CannotStart, WriteRun, TypeOK
  <2>4. \A k \in RowsOf(r)' : Over(k)'
    BY <1>0, <2>1, <2>2 DEF OwnOf, WatchOf, RowsOf, Over
  <2>5. QED
    BY <1>b, <1>c, <1>d, <2>1, <2>2, <2>3, <2>4
<1>15. ASSUME Prefill(p)
      PROVE  RunInv'
  <2>1. PICK r \in Runs : r = at[p].run
    BY <1>c, <1>15 DEF Prefill, Busy
  <2>2. Busy(p) /\ pc[p] \in {"start", "prefilled"} /\ UNCHANGED <<stepRuns, notices>>
    BY <1>15 DEF Prefill, Busy
  <2>3. runStatus'[r] = "running"
    BY <1>0, <1>c, <1>15, <2>1, <2>2 DEF Prefill, WriteRun, TypeOK
  <2>4. \A k \in RowsOf(r)' : Over(k)'
    BY <1>0, <2>1, <2>2 DEF OwnOf, WatchOf, RowsOf, Over
  <2>5. QED
    BY <1>b, <1>c, <1>d, <2>1, <2>2, <2>3, <2>4
<1>16. ASSUME AwaitReview(p)
      PROVE  RunInv'
  <2>1. PICK r \in Runs : r = at[p].run
    BY <1>c, <1>16 DEF AwaitReview, Busy
  <2>2. Busy(p) /\ pc[p] = "prefilled" /\ UNCHANGED <<runStatus, currentStep, notices>>
    BY <1>16 DEF AwaitReview, Busy, runVars
  <2>3. AddsRow(at[p].run, at[p].step, "awaiting_review", 0)
    BY <1>0, <1>16, AwaitReviewDoes
  <2>4. PICK e : e = Len(stepRuns) + 1
    OBVIOUS
  <2>5. \A k \in RowsOf(r)' : k # e => Over(k)'
    BY <1>0, <2>1, <2>2, <2>3, <2>4 DEF AddsRow, OwnOf, WatchOf, RowsOf, Over
  <2>6. runStatus'[r] = "running" /\ currentStep'[r] = stepRuns'[e].step
    BY <1>0, <1>c, <2>1, <2>2, <2>3, <2>4 DEF AddsRow, OwnOf, WatchOf
  <2>7. QED
    BY <1>b, <1>c, <1>d, <2>1, <2>2, <2>5, <2>6
<1>17. ASSUME EnqueueJob(p)
      PROVE  RunInv'
  <2>1. PICK r \in Runs : r = at[p].run
    BY <1>c, <1>17 DEF EnqueueJob, Busy
  <2>2. Busy(p) /\ pc[p] \in {"start", "prefilled"} /\ UNCHANGED <<stepRuns, notices>>
    BY <1>17 DEF EnqueueJob, Busy
  <2>3. runStatus'[r] = "running"
    BY <1>0, <1>c, <1>17, <2>1, <2>2 DEF EnqueueJob, WriteRun, TypeOK
  <2>4. \A k \in RowsOf(r)' : Over(k)'
    BY <1>0, <2>1, <2>2 DEF OwnOf, WatchOf, RowsOf, Over
  <2>5. QED
    BY <1>b, <1>c, <1>d, <2>1, <2>2, <2>3, <2>4
<1>18. ASSUME InsertStepRun(p)
      PROVE  RunInv'
  <2>1. PICK r \in Runs : r = at[p].run
    BY <1>c, <1>18 DEF InsertStepRun, Busy
  <2>2. Busy(p) /\ pc[p] = "started" /\ UNCHANGED <<runStatus, currentStep, notices>>
    BY <1>18 DEF InsertStepRun, Busy, runVars
  <2>3. AddsRow(at[p].run, at[p].step, "running", at[p].job)
    BY <1>0, <1>18, InsertStepRunDoes
  <2>4. PICK e : e = Len(stepRuns) + 1
    OBVIOUS
  <2>5. \A k \in RowsOf(r)' : k # e => Over(k)'
    BY <1>0, <2>1, <2>2, <2>3, <2>4 DEF AddsRow, OwnOf, WatchOf, RowsOf, Over
  <2>6. runStatus'[r] = "running" /\ currentStep'[r] = stepRuns'[e].step
    BY <1>0, <1>c, <2>1, <2>2, <2>3, <2>4 DEF AddsRow, OwnOf, WatchOf
  <2>7. QED
    BY <1>b, <1>c, <1>d, <2>1, <2>2, <2>5, <2>6
<1>19. ASSUME StepVanished(p)
      PROVE  RunInv'
  BY <1>a, <1>19 DEF StepVanished
<1>20. ASSUME FinishCurrentStep(p)
      PROVE  RunInv'
  <2>1. /\ at[p].run \in Runs /\ at[p].ok \in BOOLEAN /\ FinishStep(p, at[p].ok) /\ Busy(p) /\ pc[p] = "finish"
    BY <1>0, <1>20, Hand DEF FinishCurrentStep, Busy
  <2>2. PICK r \in Runs : r = at[p].run
    BY <2>1
  <2>3. (\E st \in Ended : EndsRun(p, st)) \/ \E t \in Steps : GoesOn(p, t)
    <3>1. \A f : FinalStatus(f) \in Ended /\ "failed" \in Ended
      BY DEF FinalStatus, Ended
    <3>2. QED
      BY <1>0, <2>1, <3>1, FinishDoes
  <2>4. /\ runStatus'[r] = "running" \/ runStatus'[r] \in Ended
        /\ notices'[r] = IF runStatus'[r] \in Ended THEN 1 ELSE 0
    <3>1. ASSUME NEW st \in Ended, EndsRun(p, st) PROVE runStatus'[r] = st /\ notices'[r] = 1
      BY <1>0, <1>c, <2>1, <2>2, <3>1 DEF EndsRun, TypeOK
    <3>2. ASSUME NEW t \in Steps, GoesOn(p, t) PROVE runStatus'[r] = "running" /\ notices'[r] = 0
      BY <1>0, <1>c, <2>1, <2>2, <3>2 DEF GoesOn
    <3>3. QED
      BY <1>d, <2>3, <3>1, <3>2
  <2>5. runStatus'[r] \notin Pending
    BY <2>4 DEF Ended, Pending
  <2>6. \A k \in RowsOf(r)' : Over(k)'
    <3>1. UNCHANGED stepRuns
      BY <1>20 DEF FinishCurrentStep
    <3>2. QED
      BY <1>0, <2>1, <2>2, <3>1 DEF OwnOf, WatchOf, RowsOf, Over
  <2>7. QED
    BY <1>b, <2>1, <2>2, <2>4, <2>5, <2>6
<1>21. ASSUME FailStep(p)
      PROVE  RunInv'
  <2>1. /\ at[p].run \in Runs /\ at[p].ok \in BOOLEAN /\ FinishStep(p, FALSE) /\ Busy(p) /\ pc[p] = "failing"
    BY <1>0, <1>21, Hand DEF FailStep, Busy
  <2>2. PICK r \in Runs : r = at[p].run
    BY <2>1
  <2>3. (\E st \in Ended : EndsRun(p, st)) \/ \E t \in Steps : GoesOn(p, t)
    <3>1. \A f : FinalStatus(f) \in Ended /\ "failed" \in Ended
      BY DEF FinalStatus, Ended
    <3>2. QED
      BY <1>0, <2>1, <3>1, FinishDoes
  <2>4. /\ runStatus'[r] = "running" \/ runStatus'[r] \in Ended
        /\ notices'[r] = IF runStatus'[r] \in Ended THEN 1 ELSE 0
    <3>1. ASSUME NEW st \in Ended, EndsRun(p, st) PROVE runStatus'[r] = st /\ notices'[r] = 1
      BY <1>0, <1>c, <2>1, <2>2, <3>1 DEF EndsRun, TypeOK
    <3>2. ASSUME NEW t \in Steps, GoesOn(p, t) PROVE runStatus'[r] = "running" /\ notices'[r] = 0
      BY <1>0, <1>c, <2>1, <2>2, <3>2 DEF GoesOn
    <3>3. QED
      BY <1>d, <2>3, <3>1, <3>2
  <2>5. runStatus'[r] \notin Pending
    BY <2>4 DEF Ended, Pending
  <2>6. \A k \in RowsOf(r)' : Over(k)'
    <3>1. AddsRow(at[p].run, at[p].step, "failed", 0)
      BY <1>0, <1>21, FailStepDoes
    <3>2. QED
      BY <1>0, <2>1, <2>2, <3>1 DEF OwnOf, WatchOf, RowsOf, Over, AddsRow
  <2>7. QED
    BY <1>b, <2>1, <2>2, <2>4, <2>5, <2>6
<1>22. ASSUME PrefillRollsBack(p)
      PROVE  RunInv'
  BY <1>0, <1>22 DEF PrefillRollsBack, TypeOK
<1>23. ASSUME Abort(p)
      PROVE  RunInv'
  BY <1>a, <1>23 DEF Abort
<1>24. QED
  BY <1>1, <1>2, <1>3, <1>4, <1>5, <1>6, <1>7, <1>8, <1>9, <1>10, <1>11, <1>12, <1>13, <1>14, <1>15, <1>16, <1>17, <1>18, <1>19, <1>20, <1>21, <1>22, <1>23
     DEF Acts, Tick, Review, Advance

(* Nobody else comes to act on the run an agent takes up. *)
LEMMA ActsAlone ==
  ASSUME FlowInv, Exclusive, OneReviewer, gitFailures' = 0, TypeOK', NEW p \in Agents, Acts(p)
  PROVE  AloneInv'
<1>0. /\ TypeOK /\ HandInv /\ OwnOf(p) /\ WatchOf(p) /\ HandOf(p) /\ \A r \in Runs : RunOf(r)
      /\ at[p] \in InHand /\ Listed(p) \subseteq Runs /\ AloneInv /\ LockInv
      /\ \A q \in Agents : OwnOf(q) /\ WatchOf(q) /\ HandOf(q)
  BY Hand DEF FlowInv, OwnInv, WatchInv, HandInv, RunInv, Listed, TypeOK
<1>o. \A q \in Agents \ {p} : UNCHANGED <<phase[q], pc[q], todo[q], at[q]>>
  BY <1>0, OneAgent DEF OthersRest
<1>a. ASSUME NEW r, pc'[p] # "loop" => at'[p].run = r,
             \A q \in Agents \ {p} :
               /\ Busy(p)' /\ Busy(q) => r # at[q].run
               /\ phase'[p] = "starting" /\ Busy(q) => at[q].run \notin Listed(p)'
               /\ phase[q] = "starting" /\ Busy(p)' => r \notin Listed(q)
      PROVE  AloneInv'
  <2>1. \A q \in Agents \ {p} : /\ Busy(q)' <=> Busy(q)
                                /\ Listed(q)' = Listed(q) /\ at'[q] = at[q] /\ phase'[q] = phase[q]
    BY <1>o DEF Busy, Listed
  <2>2. Busy(p)' => at'[p].run = r /\ at'[p].run \notin Listed(p)'
    BY <1>a DEF Busy, Listed
  <2>3. ASSUME NEW x \in Agents, NEW y \in Agents, Busy(x)', Busy(y)', at'[x].run = at'[y].run
        PROVE  x = y
    BY <1>0, <1>a, <2>1, <2>2, <2>3 DEF AloneInv
  <2>4. ASSUME NEW x \in Agents, NEW y \in Agents, phase'[x] = "starting", Busy(y)'
        PROVE  at'[y].run \notin Listed(x)'
    <3>1. CASE x = p /\ y = p
      BY <2>2, <2>4, <3>1
    <3>2. CASE x = p /\ y # p
      BY <1>a, <2>1, <2>4, <3>2
    <3>3. CASE x # p /\ y = p
      BY <1>a, <2>1, <2>2, <2>4, <3>3
    <3>4. CASE x # p /\ y # p
      BY <1>0, <2>1, <2>4, <3>4 DEF AloneInv
    <3>5. QED
      BY <3>1, <3>2, <3>3, <3>4
  <2>5. QED
    BY <2>3, <2>4 DEF AloneInv
<1>b. ASSUME Busy(p)' => Busy(p) /\ at'[p].run = at[p].run,
             phase'[p] = "starting" => phase[p] = "starting" /\ Listed(p)' \subseteq Listed(p)
      PROVE  AloneInv'
  <2>1. PICK r : r = at[p].run
    OBVIOUS
  <2>2. QED
    BY <1>0, <1>a, <1>b, <2>1 DEF AloneInv, Busy
<1>c. ASSUME Return(p), Busy(p) PROVE AloneInv'
  <2>1. pc'[p] = "loop" /\ phase'[p] = phase[p] /\ todo'[p] = todo[p] \ {at[p].run}
    BY <1>0, <1>c DEF Return, TypeOK
  <2>2. QED
    BY <1>b, <2>1 DEF Listed, Busy
<1>d. ASSUME NEW where, Goto(p, where), Busy(p), at'[p].run = at[p].run PROVE AloneInv'
  BY <1>b, <1>d DEF Listed, Goto
<1>e. ASSUME NEW r \in Runs, NEW k \in RowsOf(r), ~Over(k), NEW q \in Agents, Busy(q), at[q].run = r
      PROVE  \/ pc[q] = "checked" /\ at[q].entry = k
             \/ pc[q] \in {"reviewing", "approved"} /\ at[q].entry = k
  <2>1. pc[q] \in {"checked", "reviewing", "approved"}
    <3>1. pc[q] \in Pcs /\ pc[q] # "loop"
      BY <1>0, <1>e DEF Busy, TypeOK
    <3>2. pc[q] \notin {"start", "prefilled", "started", "failing", "finish"}
      BY <1>0, <1>e DEF OwnOf, WatchOf
    <3>3. QED
      BY <3>1, <3>2 DEF Pcs
  <2>2. at[q].entry \in RowsOf(r) /\ ~Over(at[q].entry)
    BY <1>0, <1>e, <2>1 DEF OwnOf, WatchOf, HandOf, RowsOf, Over
  <2>3. QED
    BY <1>0, <1>e, <2>1, <2>2 DEF RunOf
<1>1. ASSUME ListQueued(p), p \in Procs
      PROVE  AloneInv'
  <2>1. /\ pc'[p] = "loop" /\ Listed(p)' \subseteq Select(p, "queued")
    BY <1>0, <1>1, DisjointAgents DEF ListQueued, Listed, HandOf, TypeOK
  <2>2. ASSUME NEW q \in Agents \ {p}, Busy(q) PROVE at[q].run \notin Select(p, "queued")
    <3>1. SUFFICES ASSUME at[q].run \in Select(p, "queued") PROVE FALSE
      OBVIOUS
    <3>2. runStatus[at[q].run] = "queued" /\ at[q].run \notin held[q]
      BY <3>1 DEF Select, Free
    <3>3. pc[q] = "start" /\ q \in Procs
      BY <1>0, <2>2, <3>2 DEF OwnOf, WatchOf
    <3>4. CASE OneProcess
      BY <1>1, <3>3, <3>4 DEF OneProcess
    <3>5. CASE OneRun
      BY <1>0, <3>2, <3>3, <3>5 DEF OwnOf
    <3>6. QED
      BY <3>4, <3>5 DEF Exclusive
  <2>3. QED
    BY <1>a, <2>1, <2>2 DEF Busy
<1>2. ASSUME NEW r \in Runs, TakeQueued(p, r), p \in Procs
      PROVE  AloneInv'
  <2>1. PICK a \in InHand : Hands(p, a) /\ a.run = r /\ a.step \in Steps
    BY <1>2, TakeQueuedDoes
  <2>2. /\ phase[p] = "starting" /\ at'[p].run = r
        /\ Listed(p)' \subseteq Listed(p) /\ r \in Listed(p)
    BY SMTT(30), <1>0, <1>2, <2>1, IdleType DEF TakeQueued, Listed, Hands, Goto, HandOf, TypeOK, WorkflowAssumption
  <2>3. \A q \in Agents \ {p} : r \notin Listed(q)
    BY <1>0, <2>2, ListedApart
  <2>4. \A q \in Agents : Busy(q) => at[q].run \notin Listed(p)
    BY <1>0, <2>2 DEF AloneInv
  <2>5. QED
    BY <1>a, <2>2, <2>3, <2>4
<1>3. ASSUME NEW r \in Runs, FinishWithoutSteps(p, r), p \in Procs
      PROVE  AloneInv'
  <2>1. pc'[p] = "loop" /\ phase'[p] = phase[p] /\ Listed(p)' \subseteq Listed(p)
    BY <1>0, <1>3 DEF FinishWithoutSteps, Listed, TypeOK
  <2>2. QED
    BY <1>b, <2>1 DEF Busy
<1>4. ASSUME ListRunning(p), p \in Procs
      PROVE  AloneInv'
  <2>1. phase'[p] = "checking" /\ pc'[p] = "loop"
    BY <1>0, <1>4 DEF ListRunning, TypeOK
  <2>2. QED
    BY <1>b, <2>1 DEF Busy
<1>5. ASSUME NEW r \in Runs, NothingToDecide(p, r), p \in Procs
      PROVE  AloneInv'
  <2>1. pc'[p] = "loop" /\ phase'[p] = phase[p] /\ Listed(p)' \subseteq Listed(p)
    BY <1>0, <1>5 DEF NothingToDecide, Listed, TypeOK
  <2>2. QED
    BY <1>b, <2>1 DEF Busy
<1>6. ASSUME NEW r \in Runs, ReadOutcome(p, r), p \in Procs
      PROVE  AloneInv'
  <2> DEFINE k == CurrentStepRun(r)
  <2>1. /\ k \in DOMAIN stepRuns /\ stepRuns[k].run = r /\ stepRuns[k].status = "running"
        /\ \E a \in InHand : Hands(p, a) /\ a.run = r
    BY <1>0, <1>6, ReadOutcomeDoes
  <2>2. PICK a \in InHand : Hands(p, a) /\ a.run = r
    BY <2>1
  <2>3. PICK e : e = k
    OBVIOUS
  <2> HIDE DEF k
  <2>4. phase'[p] = "checking" /\ phase[p] = "checking" /\ at'[p].run = r /\ r \in Listed(p)
    <3>1. phase[p] = "checking" /\ pc[p] = "loop" /\ Goto(p, "checked") /\ r \in todo[p]
      BY <1>6 DEF ReadOutcome
    <3>2. at[p] = Idle
      BY <1>0, <3>1 DEF HandOf
    <3>3. QED
      BY <1>0, <2>2, <3>1, <3>2, IdleType DEF Listed, Hands, Goto, TypeOK, WorkflowAssumption
  <2>5. \A q \in Agents \ {p} : r \notin Listed(q)
    BY <1>0, <2>4, ListedApart
  <2>6. ASSUME NEW q \in Agents \ {p}, Busy(q) PROVE at[q].run # r
    <3>1. SUFFICES ASSUME at[q].run = r PROVE FALSE
      OBVIOUS
    <3>2. e \in RowsOf(r) /\ ~Over(e) /\ stepRuns[e].status = "running"
      BY <2>1, <2>3 DEF RowsOf, Over
    <3>3. \/ pc[q] = "checked"
          \/ pc[q] \in {"reviewing", "approved"} /\ at[q].entry = e
      BY <1>e, <2>6, <3>1, <3>2
    <3>4. CASE pc[q] \in {"reviewing", "approved"} /\ at[q].entry = e
      BY <1>0, <3>2, <3>4 DEF OwnOf, WatchOf
    <3>5. CASE pc[q] = "checked"
      <4>1. q \in Procs
        BY <1>0, <3>5 DEF HandOf
      <4>2. CASE OneProcess
        BY <1>6, <4>1, <4>2 DEF OneProcess
      <4>3. CASE OneRun
        BY <1>0, <2>4, <3>1, <3>5, <4>3 DEF LockInv
      <4>4. QED
        BY <4>2, <4>3 DEF Exclusive
    <3>6. QED
      BY <3>3, <3>4, <3>5
  <2>7. QED
    BY <1>a, <2>4, <2>5, <2>6
<1>7. ASSUME CommitOutcome(p), p \in Procs
      PROVE  AloneInv'
  <2>1. Goto(p, "finish") /\ Busy(p) /\ UNCHANGED at
    BY <1>7 DEF CommitOutcome, Busy
  <2>2. QED
    BY <1>d, <2>1
<1>8. ASSUME EndTick(p), p \in Procs
      PROVE  AloneInv'
  <2>1. phase'[p] = "idle" /\ pc'[p] = "loop"
    BY <1>0, <1>8 DEF EndTick, TypeOK, HandOf
  <2>2. QED
    BY <1>b, <2>1 DEF Busy
<1>9. ASSUME NEW k \in DOMAIN stepRuns, OpenReview(p, k), p \in Reviewers
      PROVE  AloneInv'
  <2>1. PICK a \in InHand : Hands(p, a) /\ a.run = stepRuns[k].run /\ a.run \in Runs
    BY <1>0, <1>9, OpenReviewDoes
  <2>2. PICK r \in Runs : r = stepRuns[k].run
    BY <2>1
  <2>3. phase'[p] = "idle" /\ at'[p].run = r
    BY <1>0, <1>9, <2>1, <2>2 DEF OpenReview, Hands, Goto, HandOf, TypeOK
  <2>4. stepRuns[k].status = "awaiting_review" /\ k \in RowsOf(r) /\ ~Over(k)
    BY <1>9, <2>2 DEF OpenReview, AwaitsReview, RowsOf, Over
  <2>5. ASSUME NEW q \in Agents \ {p}, Busy(q) PROVE at[q].run # r
    <3>1. SUFFICES ASSUME at[q].run = r PROVE FALSE
      OBVIOUS
    <3>2. \/ pc[q] = "checked" /\ at[q].entry = k
          \/ pc[q] \in {"reviewing", "approved"}
      BY <1>e, <2>4, <2>5, <3>1
    <3>3. CASE pc[q] = "checked" /\ at[q].entry = k
      BY <1>0, <2>4, <3>3 DEF OwnOf, WatchOf
    <3>4. CASE pc[q] \in {"reviewing", "approved"}
      BY <1>0, <1>9, <3>4 DEF HandOf, OneReviewer
    <3>5. QED
      BY <3>2, <3>3, <3>4
  <2>6. ASSUME NEW q \in Agents \ {p}, phase[q] = "starting" PROVE r \notin Listed(q)
    <3>1. runStatus[r] = "running"
      BY <1>0, <2>4 DEF RunOf
    <3>2. QED
      BY <1>0, <2>6, <3>1 DEF OwnOf, WatchOf
  <2>7. QED
    BY <1>a, <2>3, <2>5, <2>6
<1>10. ASSUME CannotApprove(p), p \in Reviewers
      PROVE  AloneInv'
  <2>1. Return(p) /\ Busy(p)
    BY <1>10 DEF CannotApprove, Busy
  <2>2. QED
    BY <1>c, <2>1
<1>11. ASSUME Approve(p), p \in Reviewers
      PROVE  AloneInv'
  <2>1. PICK a \in InHand : Hands(p, a) /\ a.run = at[p].run
    BY <1>0, <1>11, JobInHand DEF Approve
  <2>2. Goto(p, "approved") /\ Busy(p)
    BY <1>11 DEF Approve, Busy
  <2>3. at'[p].run = at[p].run
    BY <1>0, <2>1 DEF Hands, TypeOK
  <2>4. QED
    BY <1>d, <2>2, <2>3
<1>12. ASSUME BindBatch(p), p \in Reviewers
      PROVE  AloneInv'
  <2>1. Return(p) /\ Busy(p)
    BY <1>12 DEF BindBatch, Busy
  <2>2. QED
    BY <1>c, <2>1
<1>13. ASSUME Reject(p), p \in Reviewers
      PROVE  AloneInv'
  <2>1. PICK a \in InHand : Hands(p, a) /\ a.run = at[p].run
    BY <1>0, <1>13, RejectInHand
  <2>2. Goto(p, "finish") /\ Busy(p)
    BY <1>13 DEF Reject, Busy
  <2>3. at'[p].run = at[p].run
    BY <1>0, <2>1 DEF Hands, TypeOK
  <2>4. QED
    BY <1>d, <2>2, <2>3
<1>14. ASSUME CannotStart(p)
      PROVE  AloneInv'
  <2>1. Goto(p, "failing") /\ Busy(p) /\ UNCHANGED at
    BY <1>14 DEF CannotStart, Busy
  <2>2. QED
    BY <1>d, <2>1
<1>15. ASSUME Prefill(p)
      PROVE  AloneInv'
  <2>1. Goto(p, "prefilled") /\ Busy(p) /\ UNCHANGED at
    BY <1>15 DEF Prefill, Busy
  <2>2. QED
    BY <1>d, <2>1
<1>16. ASSUME AwaitReview(p)
      PROVE  AloneInv'
  <2>1. Return(p) /\ Busy(p)
    BY <1>16 DEF AwaitReview, Busy
  <2>2. QED
    BY <1>c, <2>1
<1>17. ASSUME EnqueueJob(p)
      PROVE  AloneInv'
  <2>1. PICK a \in InHand : Hands(p, a) /\ a.run = at[p].run
    BY <1>0, <1>17, JobInHand DEF EnqueueJob
  <2>2. Goto(p, "started") /\ Busy(p)
    BY <1>17 DEF EnqueueJob, Busy
  <2>3. at'[p].run = at[p].run
    BY <1>0, <2>1 DEF Hands, TypeOK
  <2>4. QED
    BY <1>d, <2>2, <2>3
<1>18. ASSUME InsertStepRun(p)
      PROVE  AloneInv'
  <2>1. Return(p) /\ Busy(p)
    BY <1>18 DEF InsertStepRun, Busy
  <2>2. QED
    BY <1>c, <2>1
<1>19. ASSUME StepVanished(p)
      PROVE  AloneInv'
  <2>1. phase'[p] = "idle" /\ pc'[p] = "loop"
    BY <1>0, <1>19 DEF StepVanished, TypeOK, HandOf
  <2>2. QED
    BY <1>b, <2>1 DEF Busy
<1>20. ASSUME FinishCurrentStep(p)
      PROVE  AloneInv'
  <2>1. /\ at[p].run \in Runs /\ at[p].ok \in BOOLEAN /\ FinishStep(p, at[p].ok) /\ Busy(p)
    BY <1>0, <1>20, Hand DEF FinishCurrentStep, Busy
  <2>2. Return(p) \/ \E t \in Steps : GoesOn(p, t)
    BY <1>0, <2>1, FinishDoes DEF EndsRun
  <2>3. ASSUME NEW t \in Steps, GoesOn(p, t) PROVE AloneInv'
    <3>1. Goto(p, "start") /\ at'[p].run = at[p].run
      BY <1>0, <2>3 DEF GoesOn, Hands, TypeOK
    <3>2. QED
      BY <1>d, <2>1, <3>1
  <2>4. QED
    BY <1>c, <2>1, <2>2, <2>3
<1>21. ASSUME FailStep(p)
      PROVE  AloneInv'
  <2>1. /\ at[p].run \in Runs /\ at[p].ok \in BOOLEAN /\ FinishStep(p, FALSE) /\ Busy(p)
    BY <1>0, <1>21, Hand DEF FailStep, Busy
  <2>2. Return(p) \/ \E t \in Steps : GoesOn(p, t)
    BY <1>0, <2>1, FinishDoes DEF EndsRun
  <2>3. ASSUME NEW t \in Steps, GoesOn(p, t) PROVE AloneInv'
    <3>1. Goto(p, "start") /\ at'[p].run = at[p].run
      BY <1>0, <2>3 DEF GoesOn, Hands, TypeOK
    <3>2. QED
      BY <1>d, <2>1, <3>1
  <2>4. QED
    BY <1>c, <2>1, <2>2, <2>3
<1>22. ASSUME PrefillRollsBack(p)
      PROVE  AloneInv'
  BY <1>0, <1>22 DEF PrefillRollsBack, TypeOK
<1>23. ASSUME Abort(p)
      PROVE  AloneInv'
  <2>1. phase'[p] = "idle" /\ pc'[p] = "loop"
    BY <1>0, <1>23 DEF Abort, TypeOK, HandOf
  <2>2. QED
    BY <1>b, <2>1 DEF Busy
<1>24. QED
  BY <1>1, <1>2, <1>3, <1>4, <1>5, <1>6, <1>7, <1>8, <1>9, <1>10, <1>11, <1>12, <1>13, <1>14, <1>15, <1>16, <1>17, <1>18, <1>19, <1>20, <1>21, <1>22, <1>23
     DEF Acts, Tick, Review, Advance

(* Whatever happens without an agent. *)
LEMMA SystemFlow ==
  ASSUME FlowInv, System
  PROVE  /\ AloneInv' /\ OwnInv' /\ RunInv'
         /\ \A r \in Runs : \/ runStatus'[r] = runStatus[r] /\ currentStep'[r] = currentStep[r]
                            \/ runStatus[r] = "none"
         /\ UNCHANGED <<stepRuns, notices, hasFailed>>
         /\ DOMAIN jobs' = DOMAIN jobs
         /\ \A j \in DOMAIN jobs : jobs'[j].run = jobs[j].run /\ jobs'[j].step = jobs[j].step
<1>1. UNCHANGED agentVars
  BY SystemRests
<1>2. UNCHANGED <<currentStep, stepRuns, notices, hasFailed>>
  BY DEF System, EnqueueWorkflowRun, JobEnds, ReadNextOrder, AddStep, DeleteStep, ReorderSteps, Edit, vars, runVars
<1>3. \/ UNCHANGED runStatus
      \/ \E r \in Runs : runStatus[r] = "none" /\ runStatus' = [runStatus EXCEPT ![r] = "queued"]
  BY DEF System, EnqueueWorkflowRun, JobEnds, ReadNextOrder, AddStep, DeleteStep, ReorderSteps, Edit, vars, runVars
<1>4. \A r \in Runs : \/ runStatus'[r] = runStatus[r]
                      \/ runStatus[r] = "none" /\ runStatus'[r] = "queued"
  BY <1>3 DEF FlowInv, TypeOK
<1>5. /\ DOMAIN jobs' = DOMAIN jobs
      /\ \A j \in DOMAIN jobs : jobs'[j].run = jobs[j].run /\ jobs'[j].step = jobs[j].step
  <2>1. CASE \E j \in DOMAIN jobs : JobEnds(j)
    BY <2>1, JobEndsDoes DEF FlowInv
  <2>2. CASE UNCHANGED jobs
    BY <2>2
  <2>3. QED
    BY <2>1, <2>2
       DEF System, EnqueueWorkflowRun, ReadNextOrder, AddStep, DeleteStep, ReorderSteps, Edit, vars
<1>6. ASSUME NEW q \in Agents PROVE OwnOf(q)' /\ (Busy(q) => runStatus'[at[q].run] = runStatus[at[q].run])
  <2>1. UNCHANGED <<phase[q], pc[q], Listed(q), held[q], at[q]>> /\ Listed(q) \subseteq Runs
    BY <1>1 DEF agentVars, Listed, FlowInv, TypeOK
  <2>2. OwnOf(q) /\ HandOf(q)
    BY DEF FlowInv, OwnInv, WatchInv, HandInv
  <2>3. ASSUME Busy(q) PROVE at[q].run \in Runs /\ runStatus'[at[q].run] = runStatus[at[q].run]
    BY <1>4, <2>2, <2>3 DEF OwnOf, WatchOf, HandOf, Busy
  <2>4. phase[q] = "starting" => \A r \in Listed(q) : runStatus'[r] = "queued"
    BY <1>4, <2>1, <2>2 DEF OwnOf, WatchOf
  <2>5. phase[q] = "checking" => \A r \in Listed(q) : runStatus'[r] \notin Pending
    BY <1>4, <2>1, <2>2 DEF OwnOf, WatchOf, Pending
  <2>6. QED
    BY <1>2, <2>1, <2>2, <2>3, <2>4, <2>5 DEF OwnOf, WatchOf, Busy, RowsOf, Over
<1>7. ASSUME NEW r \in Runs PROVE RunOf(r)'
  <2>1. RunOf(r) /\ RowsOf(r)' = RowsOf(r) /\ \A k : Over(k)' <=> Over(k)
    BY <1>2 DEF FlowInv, RunInv, RowsOf, Over
  <2>2. (\A j \in DOMAIN jobs : jobs[j].run # r) => \A j \in DOMAIN jobs' : jobs'[j].run # r
    BY <1>5
  <2>3. QED
    BY <1>2, <1>4, <2>1, <2>2 DEF RunOf, Pending, Ended
<1>8. AloneInv'
  BY <1>1 DEF FlowInv, AloneInv, agentVars, Busy, Listed
<1>9. QED
  BY <1>2, <1>4, <1>5, <1>6, <1>7, <1>8 DEF OwnInv, RunInv

LEMMA StepFlow ==
  ASSUME FlowInv, Exclusive, OneReviewer, gitFailures' = 0, [Next]_vars
  PROVE  FlowInv'
<1>1. TypeOK' /\ HandInv' /\ RowsKept /\ LockInv' /\ WatchInv'
  BY StepHands, RowsAreKept, StepLock, StepWatch DEF FlowInv
<1>2. CASE System
  BY <1>1, <1>2, SystemFlow DEF FlowInv
<1>3. ASSUME NEW p \in Agents, Acts(p) PROVE FlowInv'
  <2>1. OwnInv'
    BY <1>1, <1>3, ActsOwn, OthersOwn DEF OwnInv
  <2>2. AloneInv' /\ RunInv'
    BY <1>1, <1>3, ActsAlone, ActsRun
  <2>3. QED
    BY <1>1, <2>1, <2>2 DEF FlowInv
<1>4. QED
  BY <1>2, <1>3, StepCases

LEMMA InitFlow == Init => FlowInv
<1> SUFFICES ASSUME Init PROVE FlowInv
  OBVIOUS
<1>1. TypeOK /\ HandInv
  BY InitHands
<1>2. LockInv /\ WatchInv /\ AloneInv /\ OwnInv
  BY DEF Init, LockInv, WatchInv, AloneInv, OwnInv, OwnOf, WatchOf, Busy, Listed
<1>3. RunInv
  BY DEF Init, RunInv, RunOf, RowsOf, Ended, Pending
<1>4. QED
  BY <1>1, <1>2, <1>3 DEF FlowInv

LEMMA FailuresGrow ==
  ASSUME TypeOK, [Next]_vars
  PROVE  gitFailures' = 0 => gitFailures = 0
<1>1. \/ UNCHANGED gitFailures
      \/ \E p \in Agents : PrefillRollsBack(p)
  BY ZenonT(30) DEF Next, vars, boundVars, EnqueueWorkflowRun, JobEnds, ReadNextOrder, AddStep, DeleteStep,
         ReorderSteps, Edit, Tick, ListQueued, TakeQueued, FinishWithoutSteps, ListRunning,
         NothingToDecide, ReadOutcome, CommitOutcome, EndTick, Review, OpenReview, CannotApprove,
         Approve, BindBatch, Reject, Advance, CannotStart, Prefill, AwaitReview, EnqueueJob,
         InsertStepRun, StepVanished, FinishCurrentStep, FailStep, Abort
<1>2. QED
  BY <1>1 DEF PrefillRollsBack, TypeOK

(* One agent at a time acts on a run, when one transaction takes the rows, *)
(* one reviewer reviews and no start was rolled back.                      *)
THEOREM FlowHolds ==
  ASSUME Exclusive, OneReviewer
  PROVE  Spec => [](gitFailures = 0 => FlowInv)
<1> DEFINE IInv == TypeOK /\ HandInv /\ (gitFailures = 0 => FlowInv)
<1>1. ASSUME IInv, [Next]_vars PROVE IInv'
  <2>1. TypeOK' /\ HandInv'
    BY <1>1, StepHands
  <2>2. gitFailures' = 0 => FlowInv'
    BY <1>1, FailuresGrow, StepFlow
  <2>3. QED
    BY <2>1, <2>2
<1>2. QED
  BY <1>1, InitFlow, InitHands, PTL DEF Spec

(* A run whose step awaits a review waits at that step: no orchestrator    *)
(* moves it on before _tick sees the review's outcome.                     *)
THEOREM AwaitingRunsRest ==
  ASSUME Exclusive, OneReviewer, NoRollbacks
  PROVE  Spec => []AwaitingRunsWait
<1>1. FlowInv => AwaitingRunsWait
  <2> SUFFICES ASSUME FlowInv, NEW k \in DOMAIN stepRuns, stepRuns[k].status = "awaiting_review"
               PROVE  /\ runStatus[stepRuns[k].run] = "running"
                      /\ currentStep[stepRuns[k].run] = stepRuns[k].step
    BY DEF AwaitingRunsWait
  <2>1. stepRuns[k].run \in Runs
    <3>1. stepRuns[k] \in StepRunRow
      BY DEF FlowInv, TypeOK
    <3>2. QED
      BY <3>1 DEF StepRunRow
  <2>2. k \in RowsOf(stepRuns[k].run) /\ ~Over(k)
    BY DEF RowsOf, Over
  <2>3. QED
    BY <2>1, <2>2 DEF FlowInv, RunInv, RunOf
<1>2. TypeOK => gitFailures = 0
  BY DEF TypeOK, NoRollbacks
<1>3. QED
  BY <1>1, <1>2, FlowHolds, WorkflowTypeCorrect, PTL

(* A run that has ended is never reopened, and no job is enqueued for it.  *)
THEOREM EndedRunsAreClosed ==
  ASSUME Exclusive, OneReviewer, NoRollbacks
  PROVE  Spec => EndedRunsRest
<1> DEFINE Rests == \A r \in Runs :
                      runStatus[r] \in Ended =>
                        /\ runStatus'[r] = runStatus[r]
                        /\ \A j \in DOMAIN jobs' \ DOMAIN jobs : jobs'[j].run # r
<1>1. ASSUME TypeOK, TypeOK', gitFailures = 0 => FlowInv, [Next]_vars PROVE Rests
  <2>0. FlowInv /\ gitFailures' = 0
    BY <1>1 DEF TypeOK, NoRollbacks
  <2> SUFFICES ASSUME NEW r \in Runs, runStatus[r] \in Ended
               PROVE  /\ runStatus'[r] = runStatus[r]
                      /\ \A j \in DOMAIN jobs' \ DOMAIN jobs : jobs'[j].run # r
    OBVIOUS
  <2>1. CASE System
    BY <2>0, <2>1, SystemFlow DEF Ended
  <2>2. ASSUME NEW p \in Agents, Acts(p)
        PROVE  /\ runStatus'[r] = runStatus[r]
               /\ \A j \in DOMAIN jobs' \ DOMAIN jobs : jobs'[j].run # r
    <3>1. PICK x \in Runs \union {NoRun} :
            /\ Touches(x)
            /\ \/ x = NoRun
               \/ Busy(p) /\ at[p].run = x
               \/ pc[p] = "loop" /\ phase[p] = "starting" /\ x \in Listed(p)
      BY <2>0, <2>2, ActsTouches DEF FlowInv
    <3>2. x # r
      BY <2>0, <3>1 DEF FlowInv, OwnInv, OwnOf, WatchOf, Ended, WorkflowAssumption
    <3>3. QED
      BY <3>1, <3>2 DEF Touches
  <2>3. QED
    BY <1>1, <2>1, <2>2, StepCases
<1>2. Spec => [][Rests]_vars
  BY <1>1, FlowHolds, WorkflowTypeCorrect, PTL DEF Spec
<1>3. QED
  BY <1>2 DEF EndedRunsRest
=============================================================================
