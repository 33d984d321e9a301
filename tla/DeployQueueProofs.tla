--------------------------- MODULE DeployQueueProofs ---------------------------
(* Theorems about DeployQueue, for every fleet, every set of runs and      *)
(* executions, every bound and every failure.                              *)
EXTENDS DeployQueue, FiniteSetTheorems, TLAPS

USE DeployAssumption

-----------------------------------------------------------------------------
(* The inductive invariant behind the theorems that need no assumption on  *)
(* heartbeats.                                                             *)

(* A claimer holds the lock on a row that is still queued, and no two      *)
(* claimers hold the same one: an update that would skip a locked row      *)
(* waits for the claim.                                                    *)
ClaimInv ==
  /\ \A p \in Procs :
       pc[p] = "claiming" => job[p] \in Executions /\ status[job[p]] = "queued"
  /\ \A p, q \in Procs :
       pc[p] = "claiming" /\ pc[q] = "claiming" /\ job[p] = job[q] => p = q

(* An owner's row is running, or was failed by the reaper or skipped by an *)
(* update; and an owner shares its row with nobody.                        *)
OwnerInv ==
  /\ \A p \in Procs :
       Owns(p) => job[p] \in Executions /\ status[job[p]] \in {"running", "failed", "skipped"}
  /\ \A p, q \in Procs : Owns(p) /\ Owns(q) /\ job[p] = job[q] => p = q

RowInv ==
  /\ \A e, f \in Executions : status[e] = "running" /\ status[f] = "running" => e = f
  /\ \A e \in stale : status[e] = "running"
  /\ \A e \in Executions : runStatus[RunOf[e]] = "none" => status[e] = "none"

(* What an update of a run is about, and what it has read: rows it will    *)
(* skip have left "none", and if it will end the run, every row it does    *)
(* not skip is done, and stays so.                                         *)
UpdateInv ==
  /\ \A p \in Procs :
       pc[p] \in {"reaped", "finishing", "updating"} =>
         job[p] \in Executions /\ status[job[p]] \notin {"none", "queued"}
  /\ \A p \in Procs :
       pc[p] = "updating" =>
         /\ pend[p].now # "none"
         /\ \A e \in pend[p].skips : status[e] # "none"
         /\ pend[p].now \in Terminal =>
              \A e \in Executions :
                RunOf[e] = RunOf[job[p]] => status[e] \in Done \union {"none"} \/ e \in pend[p].skips

EndedInv ==
  \A e \in Executions : runStatus[RunOf[e]] \in Terminal => status[e] \in Done \union {"none"}

(* Once the start of a run is announced, one of its rows was claimed and   *)
(* has been counted.                                                       *)
StartedInv ==
  \A r \in Runs :
    \/ started[r] = 0
    \/ /\ started[r] = 1
       /\ \E e \in Executions :
            /\ RunOf[e] = r /\ status[e] \notin {"none", "queued"}
            /\ \A q \in Procs : pc[q] = "claimed" => job[q] # e

SafeInv == TypeOK /\ ClaimInv /\ OwnerInv /\ RowInv /\ UpdateInv /\ EndedInv /\ StartedInv

-----------------------------------------------------------------------------
(* An aggregate is a status of an existing run, and a terminal one only    *)
(* when nothing runs and nothing is queued behind no failure.              *)
LEMMA AggregateType ==
  ASSUME NEW S \in SUBSET ExecutionStatus
  PROVE  /\ Aggregate(S) \in RunStatus \ {"none"}
         /\ Aggregate(S) \in Terminal => "running" \notin S /\ ("failed" \in S \/ S = {"success"})
BY DEF Aggregate, RunStatus, Terminal

LEMMA NoPendType == NoPend \in Pend
BY DEF Pend, NoPend, RunStatus

(* What ReadRun reads: it skips only queued rows of the run, and if the    *)
(* run ends, the others are done.                                          *)
LEMMA ReadRunReads ==
  ASSUME TypeOK, NEW r \in Runs, NEW now, now = Aggregate(StatusesAfter(r))
  PROVE  /\ now \in RunStatus \ {"none"}
         /\ CalledOff(r) \in SUBSET Executions
         /\ \A e \in CalledOff(r) : RunOf[e] = r /\ status[e] = "queued"
         /\ now \in Terminal =>
              \A e \in Executions :
                RunOf[e] = r => status[e] \in Done \union {"none"} \/ e \in CalledOff(r)
<1> DEFINE S == StatusesAfter(r)
<1>1. /\ CalledOff(r) \in SUBSET Executions
      /\ \A e \in CalledOff(r) : RunOf[e] = r /\ status[e] = "queued"
  BY DEF CalledOff, ExecutionsOf
<1>2. S \in SUBSET ExecutionStatus
  BY DEF StatusesAfter, ExecutionsOf, TypeOK, ExecutionStatus
<1>3. now \in RunStatus \ {"none"}
  BY <1>2, AggregateType
<1>4. ASSUME now \in Terminal, NEW e \in Executions, RunOf[e] = r, status[e] # "none",
             e \notin CalledOff(r)
      PROVE  status[e] \in Done
  <2>1. e \in ExecutionsOf(r)
    BY <1>4 DEF ExecutionsOf
  <2>2. status[e] \in S
    BY <1>4, <2>1 DEF StatusesAfter
  <2>3. "running" \notin S /\ ("failed" \in S \/ S = {"success"})
    BY <1>2, <1>4, AggregateType
  <2>4. CASE S = {"success"}
    BY <2>2, <2>4 DEF Done
  <2>5. CASE "failed" \in S
    <3>1. \E f \in ExecutionsOf(r) : status[f] = "failed"
      BY <2>5 DEF StatusesAfter
    <3>2. status[e] # "queued"
      BY <1>4, <2>1, <3>1 DEF CalledOff
    <3>3. status[e] # "running"
      BY <2>2, <2>3
    <3>4. QED
      BY <1>4, <3>2, <3>3 DEF TypeOK, ExecutionStatus, Done
  <2>6. QED
    BY <2>3, <2>4, <2>5
<1>5. QED
  BY <1>1, <1>3, <1>4

(* The count that announces a run's start singles its row out. *)
LEMMA FirstIsOnly ==
  ASSUME NEW e \in Executions, NEW f \in Executions, RunOf[e] = RunOf[f], FirstOfRun(RunOf[e]),
         status[e] \notin {"none", "queued"}, status[f] \notin {"none", "queued"}
  PROVE  e = f
<1> DEFINE S == {x \in ExecutionsOf(RunOf[e]) : status[x] # "queued"}
<1>1. S \in SUBSET Executions
  BY DEF ExecutionsOf
<1>2. IsFiniteSet(S)
  BY <1>1, FS_Subset
<1>3. Cardinality(S) = 1
  BY DEF FirstOfRun
<1>4. PICK x : S = {x}
  BY <1>2, <1>3, FS_Singleton
<1>5. e \in S /\ f \in S
  BY DEF ExecutionsOf
<1>6. QED
  BY <1>4, <1>5

LEMMA InitSafe == Init => SafeInv
BY NoPendType
   DEF Init, SafeInv, TypeOK, ClaimInv, OwnerInv, RowInv, UpdateInv, EndedInv, StartedInv, Owns,
       OwnerPcs, ExecutionStatus, RunStatus, Terminal, Pcs, ShortPcs, Maybe

LEMMA StepSafe == SafeInv /\ [Next]_vars => SafeInv'
<1> SUFFICES ASSUME SafeInv, [Next]_vars PROVE SafeInv'
  OBVIOUS
<1> USE DEF SafeInv, TypeOK, ClaimInv, OwnerInv, RowInv, UpdateInv, EndedInv, StartedInv,
            Owns, OwnerPcs, ShortPcs, Pcs, ExecutionStatus, RunStatus, Terminal, Done, Maybe,
            dbVars, worldVars, procVars, boundVars
<1>1. ASSUME NEW r \in Runs, EnqueueDeploymentRun(r) PROVE SafeInv'
  <2> DEFINE Mine  == {e \in Executions : RunOf[e] = r}
             Taken == IF ActionOf[r] = "deploy" THEN Mine
                      ELSE {e \in Mine : CurrentlyDeployed(TargetOf[e])}
  <2>1. /\ runStatus[r] = "none" /\ runStatus' = [runStatus EXCEPT ![r] = "queued"]
        /\ status' = [e \in Executions |-> IF e \in Taken THEN "queued" ELSE status[e]]
        /\ UNCHANGED <<stale, worldVars, procVars, boundVars>>
    BY <1>1 DEF EnqueueDeploymentRun
  <2>2. Taken \subseteq Mine
    OBVIOUS
  <2>3. \A t : CurrentDeployment(t) \in Maybe
    BY DEF CurrentDeployment
  <2>4. source' \in [Executions -> Maybe]
    BY <1>1, <2>3 DEF EnqueueDeploymentRun
  <2> HIDE DEF Taken
  <2>5. \A e \in Executions : /\ e \in Taken => RunOf[e] = r /\ status[e] = "none" /\ status'[e] = "queued"
                              /\ e \notin Taken => status'[e] = status[e]
    BY <2>1, <2>2
  <2>6. TypeOK'
    BY <2>1, <2>4
  <2>7. ClaimInv' /\ OwnerInv' /\ RowInv'
    BY <2>1, <2>5
  <2>8. UpdateInv'
    <3>1. UNCHANGED <<pc, job, pend>>
      BY <2>1
    <3>2. \A e \in Executions : status[e] # "none" => RunOf[e] # r /\ status'[e] = status[e]
      BY <2>1, <2>5
    <3>3. \A p \in Procs :
            pc[p] \in {"reaped", "finishing", "updating"} =>
              /\ RunOf[job[p]] # r
              /\ \A e \in Executions : RunOf[e] = RunOf[job[p]] => status'[e] = status[e]
      BY <2>5, <3>2
    <3>4. \A p \in Procs : pend[p].skips \subseteq Executions
      BY DEF Pend
    <3>5. QED
      BY <3>1, <3>2, <3>3, <3>4
  <2>9. EndedInv' /\ StartedInv'
    BY <2>1, <2>5
  <2>10. QED
    BY <2>6, <2>7, <2>8, <2>9
<1>2. ASSUME NEW p \in Procs, NEW e \in Executions, ReapStaleRunningJob(p, e) PROVE SafeInv'
  BY <1>2 DEF ReapStaleRunningJob, Reapable, Running
<1>3. ASSUME NEW p \in Procs, NothingToReap(p) PROVE SafeInv'
  BY <1>3 DEF NothingToReap
<1>4. ASSUME NEW p \in Procs, NothingToClaim(p) PROVE SafeInv'
  BY <1>4 DEF NothingToClaim
<1>5. ASSUME NEW p \in Procs, NEW e \in Executions, SelectQueued(p, e) PROVE SafeInv'
  BY <1>5 DEF SelectQueued, Oldest, Locked
<1>6. ASSUME NEW p \in Procs, LoseClaim(p) PROVE SafeInv'
  BY <1>6 DEF LoseClaim
<1>7. ASSUME NEW p \in Procs, WinClaim(p) PROVE SafeInv'
  BY <1>7 DEF WinClaim, IndexFree, Running
<1>8. ASSUME NEW p \in Procs, CountStarted(p) PROVE SafeInv'
  BY SMTT(30), <1>8, FirstIsOnly DEF CountStarted
<1>9. ASSUME NEW p \in Procs, StartRun(p) PROVE SafeInv'
  BY <1>9 DEF StartRun
<1>10. ASSUME NEW p \in Procs, ResolveManifest(p) PROVE SafeInv'
  BY <1>10 DEF ResolveManifest
<1>11. ASSUME NEW p \in Procs, DeleteManifest(p) PROVE SafeInv'
  BY <1>11 DEF DeleteManifest
<1>12. ASSUME NEW p \in Procs, ApplyManifest(p) PROVE SafeInv'
  BY <1>12 DEF ApplyManifest
<1>13. ASSUME NEW p \in Procs, PublishSuccess(p) PROVE SafeInv'
  BY <1>13 DEF PublishSuccess, PublishStatus
<1>14. ASSUME NEW p \in Procs, PublishFailure(p) PROVE SafeInv'
  BY <1>14 DEF PublishFailure, PublishStatus
<1>15. ASSUME NEW p \in Procs, ReadRun(p) PROVE SafeInv'
  <2> DEFINE r    == RunOf[job[p]]
             now  == Aggregate(StatusesAfter(r))
             read == [wasTerminal |-> runStatus[r] \in Terminal,
                      dirty       |-> runStatus[r] # now,
                      now         |-> now,
                      skips       |-> CalledOff(r)]
  <2>1. /\ pc[p] \in {"reaped", "finishing"} /\ pc' = [pc EXCEPT ![p] = "updating"]
        /\ pend' = [pend EXCEPT ![p] = read]
        /\ UNCHANGED <<dbVars, worldVars, job, current, boundVars>>
    BY <1>15 DEF ReadRun
  <2>2. r \in Runs
    BY <2>1
  <2>3. /\ now \in RunStatus \ {"none"}
        /\ CalledOff(r) \in SUBSET Executions
        /\ \A e \in CalledOff(r) : RunOf[e] = r /\ status[e] = "queued"
        /\ now \in Terminal =>
             \A e \in Executions :
               RunOf[e] = r => status[e] \in Done \union {"none"} \/ e \in CalledOff(r)
    BY <2>2, ReadRunReads
  <2>4. read.now = now /\ read.skips = CalledOff(r)
    OBVIOUS
  <2>5. read \in Pend
    BY <2>3 DEF Pend
  <2> HIDE DEF read, now
  <2>6. TypeOK' /\ ClaimInv' /\ OwnerInv' /\ RowInv' /\ EndedInv' /\ StartedInv'
    BY <2>1, <2>5
  <2>7. UpdateInv'
    BY <2>1, <2>3, <2>4
  <2>8. QED
    BY <2>6, <2>7
<1>16. ASSUME NEW p \in Procs, CommitRun(p) PROVE SafeInv'
  <2> DEFINE r == RunOf[job[p]]
  <2>1. /\ pc[p] = "updating" /\ pend[p].skips \intersect Locked = {}
        /\ status' = [e \in Executions |-> IF e \in pend[p].skips THEN "skipped" ELSE status[e]]
        /\ stale' = stale \ pend[p].skips
        /\ runStatus' = IF pend[p].dirty THEN [runStatus EXCEPT ![r] = pend[p].now] ELSE runStatus
        /\ finished' \in [Runs -> Nat]
        /\ pc'[p] \in {"claim", "poll"} /\ pc' = [pc EXCEPT ![p] = pc'[p]]
        /\ job' = [job EXCEPT ![p] = NoExecution]
        /\ current' = [current EXCEPT ![p] = NoExecution]
        /\ pend' = [pend EXCEPT ![p] = NoPend]
        /\ UNCHANGED <<source, live, started, touched, last, boundVars>>
    BY <1>16 DEF CommitRun, SkipsWait, Release, AfterUpdate
  <2>2. /\ pend[p].skips \subseteq Executions /\ pend[p].now \in RunStatus \ {"none"} /\ r \in Runs
        /\ \A e \in pend[p].skips : status[e] # "none"
    BY <2>1 DEF Pend
  <2>3. TypeOK'
    BY SMTT(30), <2>1, <2>2, NoPendType
  <2>4. ClaimInv'
    BY <2>1, <2>2 DEF Locked
  <2>5. OwnerInv'
    BY <2>1, <2>2
  <2>6. RowInv'
    BY <2>1, <2>2
  <2>7. UpdateInv'
    <3>1. \A q \in Procs : pc'[q] \in {"reaped", "finishing", "updating"} =>
            pc[q] = pc'[q] /\ job'[q] = job[q] /\ pend'[q] = pend[q]
      BY <2>1
    <3>2. ASSUME NEW e \in Executions
          PROVE  status'[e] = status[e] \/ (status[e] # "none" /\ status'[e] = "skipped")
      <4>1. status'[e] = IF e \in pend[p].skips THEN "skipped" ELSE status[e]
        BY <2>1
      <4>2. e \in pend[p].skips => status[e] # "none"
        BY <2>2
      <4>3. QED
        BY <4>1, <4>2
    <3>3. \A q \in Procs : pend[q].skips \subseteq Executions
      BY DEF Pend
    <3>4. QED
      BY <3>1, <3>2, <3>3
  <2>8. EndedInv'
    BY <2>1, <2>2
  <2>9. StartedInv'
    <3>1. started' = started /\ \A q \in Procs : pc'[q] = "claimed" => pc[q] = "claimed" /\ job'[q] = job[q]
      BY <2>1
    <3>2. \A e \in Executions :
            status[e] \notin {"none", "queued"} => status'[e] \notin {"none", "queued"}
      BY <2>1
    <3>3. QED
      BY <3>1, <3>2
  <2>10. QED
    BY <2>3, <2>4, <2>5, <2>6, <2>7, <2>8, <2>9
<1>17. ASSUME NEW e \in Executions, HeartbeatExpires(e) PROVE SafeInv'
  BY <1>17 DEF HeartbeatExpires, Running
<1>18. ASSUME NEW p \in Procs, HeartbeatTick(p) PROVE SafeInv'
  BY <1>18 DEF HeartbeatTick
<1>19. ASSUME NEW p \in Procs, Crash(p) PROVE SafeInv'
  BY <1>19, NoPendType DEF Crash, Release
<1>20. ASSUME NEW p \in Procs, LoseFailure(p) PROVE SafeInv'
  BY SMTT(30), <1>20 DEF LoseFailure
<1>21. ASSUME NEW p \in Procs, DbError(p) PROVE SafeInv'
  BY <1>21, NoPendType DEF DbError, Release, AfterException
<1>22. CASE UNCHANGED vars
  BY <1>22 DEF vars
<1>23. QED
  BY <1>1, <1>2, <1>3, <1>4, <1>5, <1>6, <1>7, <1>8, <1>9, <1>10, <1>11, <1>12, <1>13,
     <1>14, <1>15, <1>16, <1>17, <1>18, <1>19, <1>20, <1>21, <1>22 DEF Next, PollThread

LEMMA AlwaysSafe == Spec => []SafeInv
<1>1. Init => SafeInv
  BY InitSafe
<1>2. SafeInv /\ [Next]_vars => SafeInv'
  BY StepSafe
<1>3. QED
  BY <1>1, <1>2, PTL DEF Spec

-----------------------------------------------------------------------------
(* The rows and locals of the deployment workers keep their types. *)
THEOREM TypeCorrect == Spec => []TypeOK
<1>1. SafeInv => TypeOK
  BY DEF SafeInv
<1>2. QED
  BY <1>1, AlwaysSafe, PTL

(* However late heartbeats are and whatever is skipped under its owner,    *)
(* one row is 'running' and no execution is worked on by two processes.    *)
THEOREM OneOwner == Spec => []OneOwnerPerExecution
<1>1. SafeInv => OneOwnerPerExecution
  BY DEF SafeInv, OwnerInv, RowInv, OneOwnerPerExecution, Running
<1>2. QED
  BY <1>1, AlwaysSafe, PTL

(* A run that has ended has no execution left to run, and its start was    *)
(* announced once at most, whoever aggregates it.                          *)
THEOREM EndedRunsAreDone == Spec => []TerminalRunsAreDone
<1>1. SafeInv => TerminalRunsAreDone
  <2> SUFFICES ASSUME SafeInv, NEW r \in Runs
               PROVE  /\ runStatus[r] \in Terminal => \A e \in ExecutionsOf(r) : status[e] \in Done
                      /\ started[r] <= 1
    BY DEF TerminalRunsAreDone
  <2>1. runStatus[r] \in Terminal => \A e \in ExecutionsOf(r) : status[e] \in Done
    BY DEF SafeInv, EndedInv, ExecutionsOf
  <2>2. started[r] <= 1
    BY DEF SafeInv, StartedInv
  <2>3. QED
    BY <2>1, <2>2
<1>2. QED
  BY <1>1, AlwaysSafe, PTL

-----------------------------------------------------------------------------
(* The steps that write an execution's status, and what they write over. *)
LEMMA StatusWrites ==
  ASSUME SafeInv, [Next]_vars, NEW e \in Executions, status'[e] # status[e]
  PROVE  \/ /\ status[e] = "none" /\ status'[e] = "queued"
            /\ runStatus[RunOf[e]] = "none"
         \/ /\ status[e] = "queued" /\ status'[e] = "running"
            /\ \A f \in Executions : status[f] # "running"
         \/ /\ status[e] = "running" /\ status'[e] = "failed"
            /\ e \in stale /\ \E p \in Procs : ReapStaleRunningJob(p, e)
         \/ /\ status[e] \in {"running", "failed", "skipped"} /\ status'[e] \in {"success", "failed"}
            /\ \E p \in Procs : Owns(p) /\ job[p] = e /\ (PublishSuccess(p) \/ PublishFailure(p))
         \/ /\ status[e] # "none" /\ status'[e] = "skipped"
            /\ \E p \in Procs : CommitRun(p) /\ e \in pend[p].skips
<1> USE DEF SafeInv, TypeOK, dbVars, procVars, boundVars
<1>1. ASSUME NEW r \in Runs, EnqueueDeploymentRun(r)
      PROVE  status[e] = "none" /\ status'[e] = "queued" /\ runStatus[RunOf[e]] = "none"
  BY <1>1 DEF EnqueueDeploymentRun, RowInv
<1>2. ASSUME NEW p \in Procs, NEW f \in Executions, ReapStaleRunningJob(p, f)
      PROVE  /\ f = e /\ status[e] = "running" /\ status'[e] = "failed" /\ e \in stale
  BY <1>2 DEF ReapStaleRunningJob, Reapable, Running, RowInv
<1>3. ASSUME NEW p \in Procs, WinClaim(p)
      PROVE  /\ status[e] = "queued" /\ status'[e] = "running"
             /\ \A f \in Executions : status[f] # "running"
  BY <1>3 DEF WinClaim, ClaimInv, IndexFree, Running
<1>4. ASSUME NEW p \in Procs, PublishSuccess(p) \/ PublishFailure(p)
      PROVE  /\ Owns(p) /\ job[p] = e
             /\ status[e] \in {"running", "failed", "skipped"} /\ status'[e] \in {"success", "failed"}
  BY <1>4 DEF PublishSuccess, PublishFailure, PublishStatus, OwnerInv, Owns, OwnerPcs
<1>5. ASSUME NEW p \in Procs, CommitRun(p)
      PROVE  status[e] # "none" /\ status'[e] = "skipped" /\ e \in pend[p].skips
  <2>1. pc[p] = "updating" /\ status'[e] = IF e \in pend[p].skips THEN "skipped" ELSE status[e]
    BY <1>5 DEF CommitRun
  <2>2. QED
    BY <2>1 DEF UpdateInv
<1>6. ASSUME NEW p \in Procs, PollThread(p)
      PROVE  \/ \E f \in Executions : ReapStaleRunningJob(p, f)
             \/ WinClaim(p) \/ CommitRun(p)
             \/ PublishSuccess(p) \/ PublishFailure(p)
  BY <1>6 DEF PollThread, NothingToReap, NothingToClaim, SelectQueued, LoseClaim, CountStarted,
     StartRun, ResolveManifest, DeleteManifest, ApplyManifest, ReadRun
<1>7. \/ \E r \in Runs : EnqueueDeploymentRun(r)
      \/ \E p \in Procs : PollThread(p)
  BY DEF Next, vars, HeartbeatExpires, HeartbeatTick, Crash, LoseFailure, DbError
<1>8. QED
  BY <1>1, <1>2, <1>3, <1>4, <1>5, <1>6, <1>7

(* No execution that was claimed, skipped or finished returns to the queue *)
(* or is claimed again: no manifest is applied twice for one request.      *)
THEOREM NothingIsRunTwice == Spec => NothingRunsTwice
<1>1. SafeInv /\ [Next]_vars =>
        [\A e \in Executions :
           status[e] \in {"running"} \union Done =>
             /\ status'[e] \in {"running"} \union Done
             /\ status'[e] = "running" => status[e] = "running"]_vars
  BY StatusWrites DEF Done
<1>2. QED
  BY <1>1, AlwaysSafe, PTL DEF Spec, NothingRunsTwice

-----------------------------------------------------------------------------
(* With heartbeats on time, an owner's row is running and fresh unless it  *)
(* was skipped: its owner is never taken for dead.                         *)

FreshInv ==
  \A p \in Procs : Owns(p) => status[job[p]] \in {"running", "skipped"} /\ job[p] \notin stale

LEMMA StepFresh ==
  ASSUME ~LateHeartbeats
  PROVE  SafeInv /\ FreshInv /\ [Next]_vars => FreshInv'
<1> SUFFICES ASSUME SafeInv, FreshInv, [Next]_vars, NEW q \in Procs, Owns(q)'
             PROVE  (status[job[q]] \in {"running", "skipped"} /\ job[q] \notin stale)'
  BY DEF FreshInv
<1> USE DEF SafeInv, TypeOK, FreshInv, Owns, OwnerPcs, dbVars, worldVars, procVars, boundVars
<1> DEFINE Goal == (status[job[q]] \in {"running", "skipped"} /\ job[q] \notin stale)'
<1>1. ASSUME NEW r \in Runs, EnqueueDeploymentRun(r) PROVE Goal
  <2>1. Owns(q) /\ job'[q] = job[q] /\ stale' = stale
    BY <1>1 DEF EnqueueDeploymentRun
  <2>2. RunOf[job[q]] # r
    BY <1>1, <2>1 DEF EnqueueDeploymentRun, RowInv, OwnerInv
  <2>3. status'[job[q]] = status[job[q]]
    BY <1>1, <2>1, <2>2 DEF EnqueueDeploymentRun, OwnerInv
  <2>4. QED
    BY <2>1, <2>3
<1>2. ASSUME NEW p \in Procs, NEW e \in Executions, ReapStaleRunningJob(p, e) PROVE Goal
  BY <1>2 DEF ReapStaleRunningJob, Reapable, Running
<1>3. ASSUME NEW p \in Procs, NothingToReap(p) \/ NothingToClaim(p) \/ LoseClaim(p) PROVE Goal
  BY <1>3 DEF NothingToReap, NothingToClaim, LoseClaim
<1>4. ASSUME NEW p \in Procs, NEW e \in Executions, SelectQueued(p, e) PROVE Goal
  BY <1>4 DEF SelectQueued, Oldest
<1>5. ASSUME NEW p \in Procs, WinClaim(p) PROVE Goal
  BY <1>5 DEF WinClaim, ClaimInv, RowInv
<1>6. ASSUME NEW p \in Procs, CountStarted(p) \/ StartRun(p) \/ ResolveManifest(p) PROVE Goal
  BY <1>6 DEF CountStarted, StartRun, ResolveManifest
<1>7. ASSUME NEW p \in Procs, DeleteManifest(p) \/ ApplyManifest(p) PROVE Goal
  BY <1>7 DEF DeleteManifest, ApplyManifest
<1>8. ASSUME NEW p \in Procs, PublishSuccess(p) \/ PublishFailure(p) PROVE Goal
  BY <1>8 DEF PublishSuccess, PublishFailure, PublishStatus, OwnerInv
<1>9. ASSUME NEW p \in Procs, ReadRun(p) PROVE Goal
  BY <1>9 DEF ReadRun
<1>10. ASSUME NEW p \in Procs, CommitRun(p) PROVE Goal
  <2>1. /\ status' = [e \in Executions |-> IF e \in pend[p].skips THEN "skipped" ELSE status[e]]
        /\ stale' = stale \ pend[p].skips
        /\ Owns(q) /\ job'[q] = job[q]
    BY <1>10 DEF CommitRun, Release, AfterUpdate
  <2>2. QED
    BY <2>1 DEF OwnerInv
<1>11. ASSUME NEW e \in Executions, HeartbeatExpires(e) PROVE Goal
  BY <1>11 DEF HeartbeatExpires, Running
<1>12. ASSUME NEW p \in Procs, HeartbeatTick(p) PROVE Goal
  BY <1>12 DEF HeartbeatTick
<1>13. ASSUME NEW p \in Procs, Crash(p) \/ LoseFailure(p) \/ DbError(p) PROVE Goal
  BY <1>13 DEF Crash, LoseFailure, DbError, Release, AfterException
<1>14. CASE UNCHANGED vars
  BY <1>14 DEF vars
<1>15. QED
  BY <1>1, <1>2, <1>3, <1>4, <1>5, <1>6, <1>7, <1>8, <1>9, <1>10, <1>11, <1>12, <1>13, <1>14
     DEF Next, PollThread

LEMMA AlwaysFresh ==
  ASSUME ~LateHeartbeats PROVE Spec => [](SafeInv /\ FreshInv)
<1>1. Init => FreshInv
  BY DEF Init, FreshInv, Owns, OwnerPcs
<1>2. SafeInv /\ FreshInv /\ [Next]_vars => FreshInv'
  BY StepFresh
<1>3. QED
  BY <1>1, <1>2, AlwaysSafe, PTL DEF Spec

(* Deployments are serialized over the fleet as long as heartbeats are on  *)
(* time, but for the row of an owner that an update wrote 'skipped' over.  *)
THEOREM OverlapNeedsSkip ==
  ASSUME ~LateHeartbeats PROVE Spec => []OverlapOnlyBySkip
<1>1. SafeInv /\ FreshInv => OverlapOnlyBySkip
  BY DEF SafeInv, FreshInv, OwnerInv, RowInv, OverlapOnlyBySkip
<1>2. QED
  BY <1>1, AlwaysFresh, PTL

-----------------------------------------------------------------------------
(* As long as nothing crashes and the database answers, the thread that    *)
(* wrote or found a failure still has its update of the run to make, and   *)
(* will skip every row of the run that is queued.                          *)

Pending(p, e) == \/ pc[p] \in {"reaped", "finishing"}
                 \/ pc[p] = "updating" /\ e \in pend[p].skips

CallOffInv ==
  crashes = 0 /\ dbErrors = 0 =>
    \A e, f \in Executions :
      RunOf[e] = RunOf[f] /\ status[f] = "failed" /\ status[e] = "queued" =>
        \E p \in Procs : job[p] = f /\ Pending(p, e)

(* A step after which a row is pending still leaves its thread pending     *)
(* unless it is the thread's update, which skips the row, or a failure.    *)
LEMMA StaysPending ==
  ASSUME SafeInv, [Next]_vars, NEW p \in Procs, NEW e \in Executions, NEW f \in Executions,
         RunOf[e] = RunOf[f], status[f] = "failed", status[e] = "queued", status'[e] = "queued",
         job[p] = f, Pending(p, e), crashes' = 0, dbErrors' = 0
  PROVE  job'[p] = f /\ Pending(p, e)'
<1> USE DEF SafeInv, TypeOK, Pending, dbVars, worldVars, procVars, boundVars
<1> DEFINE Goal == job'[p] = f /\ Pending(p, e)'
<1>1. CASE ReadRun(p)
  <2>1. e \in CalledOff(RunOf[job[p]])
    BY DEF CalledOff, ExecutionsOf
  <2>2. pc'[p] = "updating" /\ job'[p] = f /\ pend'[p].skips = CalledOff(RunOf[job[p]])
    BY <1>1 DEF ReadRun
  <2>3. QED
    BY <2>1, <2>2
<1>2. CASE CommitRun(p)
  BY <1>2 DEF CommitRun
<1>3. ASSUME NEW q \in Procs, PollThread(q), q # p PROVE Goal
  <2>1. pc'[p] = pc[p] /\ job'[p] = job[p] /\ pend'[p] = pend[p]
    BY <1>3 DEF PollThread, ReapStaleRunningJob, NothingToReap, NothingToClaim, SelectQueued,
       LoseClaim, WinClaim, CountStarted, StartRun, ResolveManifest, DeleteManifest,
       ApplyManifest, PublishSuccess, PublishFailure, PublishStatus, ReadRun, CommitRun, Release
  <2>2. QED
    BY <2>1
<1>4. ASSUME PollThread(p), ~ReadRun(p), ~CommitRun(p) PROVE Goal
  BY <1>4 DEF PollThread, ReapStaleRunningJob, NothingToReap, NothingToClaim, SelectQueued,
     LoseClaim, WinClaim, CountStarted, StartRun, ResolveManifest, DeleteManifest,
     ApplyManifest, PublishSuccess, PublishFailure
<1>5. ASSUME NEW q \in Procs, Crash(q) \/ LoseFailure(q) \/ DbError(q) PROVE FALSE
  BY <1>5 DEF Crash, LoseFailure, DbError
<1>6. ASSUME \/ \E r \in Runs : EnqueueDeploymentRun(r)
             \/ \E g \in Executions : HeartbeatExpires(g)
             \/ \E q \in Procs : HeartbeatTick(q)
             \/ UNCHANGED vars
      PROVE  Goal
  BY <1>6 DEF EnqueueDeploymentRun, HeartbeatExpires, HeartbeatTick, vars
<1>7. QED
  BY <1>1, <1>2, <1>3, <1>4, <1>5, <1>6 DEF Next

(* The bounds on failures are never reset. *)
LEMMA FailuresCount ==
  ASSUME SafeInv, [Next]_vars, crashes' = 0, dbErrors' = 0
  PROVE  crashes = 0 /\ dbErrors = 0
<1> USE DEF SafeInv, TypeOK, boundVars
<1>1. ASSUME NEW p \in Procs, PollThread(p) PROVE UNCHANGED boundVars
  BY <1>1 DEF PollThread, ReapStaleRunningJob, NothingToReap, NothingToClaim, SelectQueued,
     LoseClaim, WinClaim, CountStarted, StartRun, ResolveManifest, DeleteManifest,
     ApplyManifest, PublishSuccess, PublishFailure, PublishStatus, ReadRun, CommitRun
<1>2. ASSUME NEW p \in Procs, Crash(p) \/ LoseFailure(p) \/ DbError(p) PROVE FALSE
  BY <1>2 DEF Crash, LoseFailure, DbError
<1>3. QED
  BY <1>1, <1>2 DEF Next, vars, EnqueueDeploymentRun, HeartbeatExpires, HeartbeatTick

LEMMA StepCallOff == SafeInv /\ CallOffInv /\ [Next]_vars => CallOffInv'
<1> SUFFICES ASSUME SafeInv, CallOffInv, [Next]_vars, crashes' = 0, dbErrors' = 0,
                    NEW e \in Executions, NEW f \in Executions,
                    RunOf[e] = RunOf[f], status'[f] = "failed", status'[e] = "queued"
             PROVE  \E p \in Procs : job'[p] = f /\ Pending(p, e)'
  BY DEF CallOffInv
<1>1. crashes = 0 /\ dbErrors = 0
  BY FailuresCount
<1>2. CASE status[f] = "failed" /\ status[e] = "queued"
  <2>1. PICK p \in Procs : job[p] = f /\ Pending(p, e)
    BY <1>1, <1>2 DEF CallOffInv
  <2>2. QED
    BY <1>2, <2>1, StaysPending
<1>3. CASE status[e] # "queued"
  <2>1. status[e] = "none" /\ runStatus[RunOf[e]] = "none"
    BY <1>3, StatusWrites
  <2>2. status[f] = "none"
    BY <2>1 DEF SafeInv, RowInv
  <2>3. QED
    BY <2>2, StatusWrites
<1>4. CASE status[f] # "failed" /\ status[e] = "queued"
  <2>1. PICK p \in Procs : \/ ReapStaleRunningJob(p, f)
                           \/ job[p] = f /\ (PublishSuccess(p) \/ PublishFailure(p))
    BY <1>4, StatusWrites
  <2>2. pc'[p] \in {"reaped", "finishing"} /\ job'[p] = f
    BY <2>1 DEF ReapStaleRunningJob, PublishSuccess, PublishFailure, PublishStatus, SafeInv, TypeOK
  <2>3. QED
    BY <2>2 DEF Pending
<1>5. QED
  BY <1>2, <1>3, <1>4

(* The window in which an execution of a failed run is still claimed is    *)
(* the one between the commit of the failure and the update of the run.    *)
THEOREM ClaimsEndAtUpdate == Spec => ClaimedOnlyBeforeSkip
<1>1. Init => CallOffInv
  BY DEF Init, CallOffInv
<1>2. SafeInv /\ CallOffInv /\ [Next]_vars => CallOffInv'
  BY StepCallOff
<1>3. SafeInv /\ CallOffInv /\ [Next]_vars =>
        [\A e, f \in Executions :
           /\ RunOf[e] = RunOf[f]
           /\ status[f] = "failed" /\ status[e] = "queued" /\ status'[e] = "running"
           => (\E p \in Procs : job[p] = f) \/ crashes + dbErrors > 0]_vars
  <2> SUFFICES ASSUME SafeInv, CallOffInv, crashes + dbErrors = 0,
                      NEW e \in Executions, NEW f \in Executions, RunOf[e] = RunOf[f],
                      status[f] = "failed", status[e] = "queued"
               PROVE  \E p \in Procs : job[p] = f
    BY DEF SafeInv, TypeOK
  <2>1. crashes = 0 /\ dbErrors = 0
    BY DEF SafeInv, TypeOK
  <2>2. QED
    BY <2>1 DEF CallOffInv
<1>4. QED
  BY <1>1, <1>2, <1>3, AlwaysSafe, PTL DEF Spec, ClaimedOnlyBeforeSkip

-----------------------------------------------------------------------------
(* What get_current_deployment calls current is what is on the cluster, as *)
(* long as its last change was made by the youngest execution that made    *)
(* any: then only what that one did counts, and nobody else works on it.   *)

(* The cluster shows the outcome of e. *)
Shows(t, e) ==
  IF Action(e) = "stop" THEN live[t] = NoExecution \/ live[t] # source[e] ELSE live[t] = e

(* The rows of a target are told apart by their time: a run has one, and   *)
(* runs are enqueued one after the other.                                  *)
TimeInv ==
  \A e, f \in Executions :
    /\ TargetOf[e] = TargetOf[f] /\ CreatedAt[e] = CreatedAt[f]
    /\ status[e] # "none" /\ status[f] # "none"
    => e = f

TouchInv ==
  /\ \A e \in touched : status[e] \notin {"none", "queued"}
  /\ \A e \in Executions : status[e] = "success" => e \in touched
  /\ \A p \in Procs :
       /\ pc[p] \in {"reapplying", "applied"} => job[p] \in touched
       /\ pc[p] = "reapplying" => Action(job[p]) = "restart"

(* last is about the target, and the cluster is untouched without it.      *)
LastInv ==
  \A t \in Targets :
    IF last[t] = NoExecution
    THEN live[t] = NoExecution /\ \A e \in touched : TargetOf[e] # t
    ELSE last[t] \in touched /\ TargetOf[last[t]] = t

(* The cluster shows what the last execution to change it did, once that   *)
(* one is past its kubectl calls.                                          *)
ShownInv ==
  /\ \A p \in Procs :
       pc[p] = "applied" /\ last[TargetOf[job[p]]] = job[p] => Shows(TargetOf[job[p]], job[p])
  /\ \A t \in Targets :
       last[t] # NoExecution /\ status[last[t]] = "success" => Shows(t, last[t])

ClusterInv == TimeInv /\ TouchInv /\ LastInv /\ ShownInv

LEMMA StepCluster == SafeInv /\ ClusterInv /\ [Next]_vars => ClusterInv'
<1> SUFFICES ASSUME SafeInv, ClusterInv, [Next]_vars PROVE ClusterInv'
  OBVIOUS
<1> USE DEF SafeInv, TypeOK, ClusterInv, Owns, OwnerPcs, dbVars, worldVars, procVars, boundVars
<1>1. ASSUME NEW r \in Runs, EnqueueDeploymentRun(r) PROVE ClusterInv'
  <2>1. UNCHANGED <<live, touched, last, pc, job>>
    BY <1>1 DEF EnqueueDeploymentRun
  <2>2. \A e \in Executions :
          \/ status'[e] = status[e] /\ (RunOf[e] # r => source'[e] = source[e])
          \/ status[e] = "none" /\ status'[e] = "queued" /\ RunOf[e] = r
    BY <1>1 DEF EnqueueDeploymentRun, RowInv
  <2>3. \A e \in Executions : status[e] # "none" =>
          /\ RunOf[e] # r /\ status'[e] = status[e] /\ source'[e] = source[e]
          /\ \A f \in Executions : RunOf[f] = r => CreatedAt[e] < CreatedAt[f]
    BY <1>1, <2>2 DEF EnqueueDeploymentRun, RowInv
  <2>4. TimeInv'
    <3> SUFFICES ASSUME NEW e \in Executions, NEW f \in Executions, TargetOf[e] = TargetOf[f],
                        CreatedAt[e] = CreatedAt[f], status'[e] # "none", status'[f] # "none"
                 PROVE  e = f
      BY DEF TimeInv
    <3>1. CASE status[e] # "none" /\ status[f] # "none"
      BY <3>1 DEF TimeInv
    <3>2. CASE status[e] = "none" /\ status[f] = "none"
      BY <2>2, <3>2
    <3>3. CASE status[e] = "none" /\ status[f] # "none"
      <4>1. RunOf[e] = r /\ CreatedAt[f] < CreatedAt[e]
        BY <2>2, <2>3, <3>3
      <4>2. QED
        BY <4>1
    <3>4. CASE status[e] # "none" /\ status[f] = "none"
      <4>1. RunOf[f] = r /\ CreatedAt[e] < CreatedAt[f]
        BY <2>2, <2>3, <3>4
      <4>2. QED
        BY <4>1
    <3>5. QED
      BY <3>1, <3>2, <3>3, <3>4
  <2>5. TouchInv'
    BY <2>1, <2>2, <2>3 DEF TouchInv, Action
  <2>6. LastInv'
    BY <2>1 DEF LastInv
  <2>7. ShownInv'
    <3>1. \A t, e : e \in Executions /\ status[e] # "none" => Shows(t, e)' = Shows(t, e)
      BY <2>1, <2>3 DEF Shows, Action
    <3>2. \A t \in Targets : last[t] # NoExecution => last[t] \in Executions /\ status[last[t]] # "none"
      BY DEF LastInv, TouchInv
    <3>3. \A p \in Procs : pc[p] = "applied" => job[p] \in Executions /\ status[job[p]] # "none"
      BY DEF OwnerInv
    <3>4. QED
      BY <2>1, <2>3, <3>1, <3>2, <3>3 DEF ShownInv
  <2>8. QED
    BY <2>4, <2>5, <2>6, <2>7
<1>2. ASSUME NEW p \in Procs, DeleteManifest(p) \/ ApplyManifest(p) PROVE ClusterInv'
  <2> DEFINE e == job[p]
             t == TargetOf[e]
  <2>1. Owns(p) /\ e \in Executions /\ t \in Targets
        /\ status[e] \in {"running", "failed", "skipped"}
    BY <1>2 DEF DeleteManifest, ApplyManifest, OwnerInv
  <2>2. /\ UNCHANGED <<status, source, job>> /\ touched' = touched \union {e}
        /\ last' = [last EXCEPT ![t] = e]
        /\ pc' = [pc EXCEPT ![p] = pc'[p]]
        /\ \A u \in Targets : u # t => live'[u] = live[u]
    BY <1>2, <2>1 DEF DeleteManifest, ApplyManifest
  <2>3. /\ pc'[p] \in {"reapplying", "applied"}
        /\ pc'[p] = "reapplying" => Action(e) = "restart"
        /\ pc'[p] = "applied" => Shows(t, e)'
    <3>1. CASE DeleteManifest(p)
      <4>1. /\ pc'[p] = IF Action(e) = "stop" THEN "applied" ELSE "reapplying"
            /\ Action(e) \in {"stop", "restart"}
            /\ live'[t] = NoExecution \/ (live'[t] = live[t] /\ live[t] # source[e])
        BY <3>1, <2>1 DEF DeleteManifest
      <4>2. QED
        BY <2>2, <4>1 DEF Shows, Action
    <3>2. CASE ApplyManifest(p)
      <4>1. pc'[p] = "applied" /\ live'[t] = e /\ Action(e) # "stop"
        BY <3>2, <2>1 DEF ApplyManifest, TouchInv
      <4>2. QED
        BY <2>2, <4>1 DEF Shows, Action
    <3>3. QED
      BY <1>2, <3>1, <3>2
  <2>4. TimeInv'
    BY <2>2 DEF TimeInv
  <2>5. TouchInv'
    BY <2>1, <2>2, <2>3 DEF TouchInv, Action
  <2>6. LastInv'
    BY <2>1, <2>2 DEF LastInv
  <2>7. \A q \in Procs : q # p /\ pc'[q] = "applied" => pc[q] = "applied" /\ job[q] # e /\ job[q] \in Executions
    BY <2>1, <2>2 DEF OwnerInv
  <2>8. \A u \in Targets : u # t => last'[u] = last[u] /\ \A f : Shows(u, f)' = Shows(u, f)
    BY <2>2 DEF Shows, Action
  <2>9. ShownInv'
    <3>1. last'[t] = e /\ status'[e] # "success"
      BY <2>1, <2>2
    <3>2. ASSUME NEW q \in Procs, pc'[q] = "applied", last'[TargetOf[job'[q]]] = job'[q]
          PROVE  Shows(TargetOf[job[q]], job[q])'
      <4>1. CASE q = p
        BY <2>2, <2>3, <3>2, <4>1
      <4>2. CASE q # p
        <5>1. pc[q] = "applied" /\ job[q] # e /\ job[q] \in Executions /\ job'[q] = job[q]
          BY <2>2, <2>7, <3>2, <4>2
        <5>2. TargetOf[job[q]] \in Targets /\ TargetOf[job[q]] # t
          BY <3>1, <3>2, <5>1
        <5>3. Shows(TargetOf[job[q]], job[q])
          BY <2>8, <3>2, <5>1, <5>2 DEF ShownInv
        <5>4. QED
          BY <2>8, <5>1, <5>2, <5>3
      <4>3. QED
        BY <4>1, <4>2
    <3>3. ASSUME NEW u \in Targets, last'[u] # NoExecution, status'[last'[u]] = "success"
          PROVE  Shows(u, last[u])'
      <4>1. u # t
        BY <3>1, <3>3
      <4>2. last'[u] = last[u] /\ Shows(u, last[u])
        BY <2>2, <2>8, <3>3, <4>1 DEF ShownInv
      <4>3. QED
        BY <2>8, <4>1, <4>2
    <3>4. QED
      BY <3>2, <3>3 DEF ShownInv
  <2>10. QED
    BY <2>4, <2>5, <2>6, <2>9
<1>3. ASSUME NEW p \in Procs, PublishSuccess(p) PROVE ClusterInv'
  <2> DEFINE e == job[p]
  <2>1. pc[p] = "applied" /\ e \in Executions /\ status[e] # "none" /\ e \in touched
    BY <1>3 DEF PublishSuccess, OwnerInv, TouchInv
  <2>2. /\ status' = [status EXCEPT ![e] = "success"] /\ pc' = [pc EXCEPT ![p] = "finishing"]
        /\ UNCHANGED <<source, live, touched, last, job>>
    BY <1>3 DEF PublishSuccess, PublishStatus
  <2>3. \A u, f : Shows(u, f)' = Shows(u, f)
    BY <2>2 DEF Shows, Action
  <2>4. TimeInv' /\ TouchInv' /\ LastInv'
    BY <2>1, <2>2 DEF TimeInv, TouchInv, LastInv, Action
  <2>5. ShownInv'
    BY <2>1, <2>2, <2>3 DEF ShownInv, LastInv
  <2>6. QED
    BY <2>4, <2>5
<1>4. ASSUME UNCHANGED <<live, touched, last, source>>,
             \A e \in Executions :
               /\ status'[e] = "none" <=> status[e] = "none"
               /\ status'[e] = "queued" => status[e] = "queued"
               /\ status'[e] = "success" => status[e] = "success",
             \A p \in Procs : pc'[p] \in {"reapplying", "applied"} => pc'[p] = pc[p] /\ job'[p] = job[p]
      PROVE  ClusterInv'
  <2>1. \A u, f : Shows(u, f)' = Shows(u, f)
    BY <1>4 DEF Shows, Action
  <2>2. TimeInv' /\ TouchInv' /\ LastInv'
    BY <1>4 DEF TimeInv, TouchInv, LastInv, Action
  <2>3. ShownInv'
    BY <1>4, <2>1 DEF ShownInv, LastInv
  <2>4. QED
    BY <2>2, <2>3
<1>5. ASSUME NEW p \in Procs,
             \/ \E e \in Executions : ReapStaleRunningJob(p, e)
             \/ WinClaim(p) \/ PublishFailure(p)
      PROVE  ClusterInv'
  <2>1. CASE \E e \in Executions : ReapStaleRunningJob(p, e)
    BY <2>1, <1>4 DEF ReapStaleRunningJob, Reapable, Running
  <2>2. CASE WinClaim(p)
    BY <2>2, <1>4 DEF WinClaim, ClaimInv
  <2>3. CASE PublishFailure(p)
    BY <2>3, <1>4 DEF PublishFailure, PublishStatus, OwnerInv
  <2>4. QED
    BY <1>5, <2>1, <2>2, <2>3
<1>6. ASSUME NEW p \in Procs, CommitRun(p) PROVE ClusterInv'
  <2>1. /\ UNCHANGED <<live, touched, last, source>> /\ pc[p] = "updating"
        /\ \A e \in Executions : status'[e] = IF e \in pend[p].skips THEN "skipped" ELSE status[e]
        /\ \A q \in Procs : pc'[q] \in {"reapplying", "applied"} => pc'[q] = pc[q] /\ job'[q] = job[q]
    BY <1>6 DEF CommitRun, Release, AfterUpdate
  <2>2. \A e \in pend[p].skips : status[e] # "none"
    BY <2>1 DEF UpdateInv
  <2>3. QED
    BY <2>1, <2>2, <1>4
<1>7. ASSUME NEW p \in Procs, Crash(p) \/ LoseFailure(p) \/ DbError(p) PROVE ClusterInv'
  BY <1>7, <1>4 DEF Crash, LoseFailure, DbError, Release, AfterException
<1>8. ASSUME NEW p \in Procs,
             \/ NothingToReap(p) \/ NothingToClaim(p) \/ LoseClaim(p)
             \/ \E e \in Executions : SelectQueued(p, e)
             \/ CountStarted(p) \/ StartRun(p) \/ ResolveManifest(p) \/ ReadRun(p)
      PROVE  ClusterInv'
  BY <1>8, <1>4 DEF NothingToReap, NothingToClaim, LoseClaim, SelectQueued, CountStarted,
     StartRun, ResolveManifest, ReadRun
<1>9. ASSUME \/ \E e \in Executions : HeartbeatExpires(e)
             \/ \E p \in Procs : HeartbeatTick(p)
             \/ UNCHANGED vars
      PROVE  ClusterInv'
  BY <1>9, <1>4 DEF HeartbeatExpires, HeartbeatTick, vars
<1>10. QED
  BY <1>1, <1>2, <1>3, <1>5, <1>6, <1>7, <1>8, <1>9 DEF Next, PollThread

(* A set of natural numbers has a least one. *)
LEMMA LeastNatural ==
  ASSUME NEW T \in SUBSET Nat, T # {}
  PROVE  \E n \in T : \A m \in T : n <= m
<1>1. PICK n \in T : \A m \in T : ~ (<<m, n>> \in OpToRel(<, Nat))
  BY NatLessThanWellFounded, WFMin
<1>2. \A m \in T : ~ (m < n)
  BY <1>1 DEF OpToRel
<1>3. QED
  BY <1>2

(* Where the last change was made in turn, the last one to make any is the *)
(* current deployment, or unfinished and younger than it.                  *)
LEMMA ClusterMatches ==
  ASSUME SafeInv, ClusterInv PROVE CurrentMatchesCluster
<1> DEFINE Unfinished(t) == {f \in touched : TargetOf[f] = t /\ status[f] # "success"}
           Succeeded(t)  == {e \in Executions : TargetOf[e] = t /\ status[e] = "success"}
<1> SUFFICES ASSUME NEW t \in Targets, ActedInTurn(t)
             PROVE  LET e == CurrentDeployment(t)
                    IN  \/ \E f \in Unfinished(t) : e = NoExecution \/ CreatedAt[e] < CreatedAt[f]
                        \/ live[t] = (IF CurrentlyDeployed(t) THEN e ELSE NoExecution)
                        \/ e # NoExecution /\ Action(e) = "stop" /\ live[t] # source[e]
  BY DEF CurrentMatchesCluster
<1> USE DEF SafeInv, TypeOK, ClusterInv
<1> DEFINE e == CurrentDeployment(t)
           l == last[t]
<1>1. CASE Succeeded(t) = {}
  <2>1. e = NoExecution /\ ~CurrentlyDeployed(t)
    BY <1>1 DEF CurrentDeployment, CurrentlyDeployed
  <2>2. CASE l = NoExecution
    BY <2>1, <2>2 DEF LastInv
  <2>3. CASE l # NoExecution
    <3>1. l \in Unfinished(t)
      BY <1>1, <2>3 DEF LastInv
    <3>2. QED
      BY <2>1, <3>1
  <2>4. QED
    BY <2>2, <2>3
<1>2. ASSUME Succeeded(t) # {}, NEW g \in Succeeded(t),
             \A f \in Succeeded(t) : CreatedAt[f] <= CreatedAt[g]
      PROVE  \/ \E f \in Unfinished(t) : e = NoExecution \/ CreatedAt[e] < CreatedAt[f]
             \/ live[t] = (IF CurrentlyDeployed(t) THEN e ELSE NoExecution)
             \/ e # NoExecution /\ Action(e) = "stop" /\ live[t] # source[e]
  <2>1. e = CHOOSE x \in Succeeded(t) : \A f \in Succeeded(t) : CreatedAt[f] <= CreatedAt[x]
    BY <1>2 DEF CurrentDeployment
  <2>2. e \in Succeeded(t) /\ \A f \in Succeeded(t) : CreatedAt[f] <= CreatedAt[e]
    BY <1>2, <2>1
  <2>3. e \in Executions /\ e # NoExecution /\ TargetOf[e] = t /\ status[e] = "success" /\ e \in touched
    BY <2>2 DEF TouchInv
  <2>4. l \in touched /\ l \in Executions /\ TargetOf[l] = t /\ status[l] # "none"
    BY <2>3 DEF LastInv, TouchInv
  <2>5. CreatedAt[e] <= CreatedAt[l]
    BY <2>3 DEF ActedInTurn
  <2> HIDE DEF e, l
  <2>6. CreatedAt[e] = CreatedAt[l] => e = l
    BY <2>3, <2>4 DEF TimeInv
  <2>7. CreatedAt[e] \in Nat /\ CreatedAt[l] \in Nat
    BY <2>3, <2>4
  <2>8. CASE status[l] # "success"
    <3>1. l \in Unfinished(t) /\ e # l
      BY <2>3, <2>4, <2>8
    <3>2. CreatedAt[e] < CreatedAt[l]
      BY <2>5, <2>6, <2>7, <3>1
    <3>3. QED
      BY <3>1, <3>2
  <2>9. CASE status[l] = "success"
    <3>1. l \in Succeeded(t)
      BY <2>4, <2>9
    <3>2. e = l
      BY <2>2, <2>5, <2>6, <2>7, <3>1
    <3>3. Shows(t, e)
      BY <2>3, <2>9, <3>2 DEF ShownInv, l
    <3>4. CurrentlyDeployed(t) <=> Action(e) # "stop"
      BY <2>3 DEF CurrentlyDeployed, e
    <3>5. QED
      BY <2>3, <3>3, <3>4 DEF Shows
  <2>10. QED
    BY <2>8, <2>9
<1>3. ASSUME Succeeded(t) # {}
      PROVE  \E g \in Succeeded(t) : \A f \in Succeeded(t) : CreatedAt[f] <= CreatedAt[g]
  <2>1. l \in Executions
    BY <1>3 DEF LastInv, TouchInv
  <2>2. \A f \in Succeeded(t) : CreatedAt[f] <= CreatedAt[l]
    BY DEF ActedInTurn, TouchInv
  <2> DEFINE Ages == {CreatedAt[l] - CreatedAt[f] : f \in Succeeded(t)}
  <2> HIDE DEF l
  <2>3. Ages \in SUBSET Nat /\ Ages # {}
    <3>1. \A f \in Succeeded(t) : CreatedAt[f] \in Nat /\ CreatedAt[f] <= CreatedAt[l]
      BY <2>2
    <3>2. CreatedAt[l] \in Nat
      BY <2>1
    <3> HIDE DEF Succeeded
    <3>3. QED
      BY <1>3, <3>1, <3>2
  <2>4. PICK n \in Ages : \A m \in Ages : n <= m
    BY <2>3, LeastNatural
  <2>5. PICK g \in Succeeded(t) : n = CreatedAt[l] - CreatedAt[g]
    OBVIOUS
  <2>6. ASSUME NEW f \in Succeeded(t) PROVE CreatedAt[f] <= CreatedAt[g]
    <3>1. CreatedAt[l] - CreatedAt[g] <= CreatedAt[l] - CreatedAt[f]
      BY <2>4, <2>5
    <3>2. CreatedAt[l] \in Nat /\ CreatedAt[g] \in Nat /\ CreatedAt[f] \in Nat
      BY <2>1
    <3>3. QED
      BY <3>1, <3>2
  <2>7. QED
    BY <2>6
<1>4. QED
  BY <1>1, <1>2, <1>3

(* What get_current_deployment calls current is what is on the cluster     *)
(* wherever executions acted in turn, up to a younger execution that did   *)
(* not succeed and a stop that was enqueued before the deployment in front *)
(* of it ran: for any fleet, however late its heartbeats.                  *)
THEOREM CurrentIsLive == Spec => []CurrentMatchesCluster
<1>1. Init => ClusterInv
  BY DEF Init, ClusterInv, TimeInv, TouchInv, LastInv, ShownInv
<1>2. SafeInv /\ ClusterInv /\ [Next]_vars => ClusterInv'
  BY StepCluster
<1>3. SafeInv /\ ClusterInv => CurrentMatchesCluster
  BY ClusterMatches
<1>4. QED
  BY <1>1, <1>2, <1>3, AlwaysSafe, PTL DEF Spec

-----------------------------------------------------------------------------
(* One process alone, whatever fails in it and however late its heartbeats *)
(* are, carries executions out one after the other: those that have acted  *)
(* on a cluster are older than those that wait, and the one at work is the *)
(* youngest of them.                                                       *)

OneProcess == \A p, q \in Procs : p = q

Acted(e) == e \in touched \/ status[e] \in {"running", "success"}

OrderInv ==
  /\ \A e \in touched : status[e] \notin {"none", "queued"}
  /\ \A e, f \in Executions : Acted(e) /\ status[f] = "queued" => CreatedAt[e] <= CreatedAt[f]
  /\ \A p \in Procs :
       pc[p] = "claiming" =>
         \A f \in Executions : status[f] = "queued" => CreatedAt[job[p]] <= CreatedAt[f]
  /\ \A p \in Procs :
       Owns(p) =>
         /\ status[job[p]] = "running"
         /\ \A f \in Executions : Acted(f) => CreatedAt[f] <= CreatedAt[job[p]]
  /\ \A p \in Procs :
       pc[p] = "updating" => \A e \in pend[p].skips : status[e] = "queued"

LEMMA StepOrder ==
  ASSUME OneProcess
  PROVE  SafeInv /\ OrderInv /\ [Next]_vars => OrderInv'
<1> SUFFICES ASSUME SafeInv, OrderInv, [Next]_vars PROVE OrderInv'
  OBVIOUS
<1> USE OneProcess
    DEF OneProcess, SafeInv, TypeOK, OrderInv, Acted, Owns, OwnerPcs, dbVars, worldVars, procVars, boundVars
<1>1. ASSUME NEW r \in Runs, EnqueueDeploymentRun(r) PROVE OrderInv'
  <2>1. UNCHANGED <<touched, pc, job, pend>>
    BY <1>1 DEF EnqueueDeploymentRun
  <2>2. \A e \in Executions :
          \/ status'[e] = status[e]
          \/ /\ status[e] = "none" /\ status'[e] = "queued"
             /\ \A f \in Executions : status[f] # "none" => CreatedAt[f] <= CreatedAt[e]
    BY <1>1 DEF EnqueueDeploymentRun, RowInv
  <2>3. \A p \in Procs : pend[p].skips \subseteq Executions
    BY DEF Pend
  <2>4. \A p \in Procs : pc[p] = "claiming" \/ Owns(p) => job[p] \in Executions /\ status[job[p]] # "none"
    BY DEF ClaimInv, OwnerInv
  <2>5. /\ \A e \in touched' : status'[e] \notin {"none", "queued"}
        /\ \A e, f \in Executions : Acted(e)' /\ status'[f] = "queued" => CreatedAt[e] <= CreatedAt[f]
    BY <2>1, <2>2
  <2>6. \A p \in Procs :
          pc'[p] = "claiming" =>
            \A f \in Executions : status'[f] = "queued" => CreatedAt[job'[p]] <= CreatedAt[f]
    BY <2>1, <2>2, <2>4
  <2>7. \A p \in Procs :
          Owns(p)' => /\ status'[job'[p]] = "running"
                      /\ \A f \in Executions : Acted(f)' => CreatedAt[f] <= CreatedAt[job'[p]]
    BY <2>1, <2>2, <2>4
  <2>8. \A p \in Procs : pc'[p] = "updating" => \A e \in pend'[p].skips : status'[e] = "queued"
    BY <2>1, <2>2, <2>3
  <2>9. QED
    BY <2>5, <2>6, <2>7, <2>8
<1>2. ASSUME NEW p \in Procs, NEW e \in Executions, ReapStaleRunningJob(p, e) PROVE OrderInv'
  BY <1>2 DEF ReapStaleRunningJob, Reapable, Running
<1>3. ASSUME NEW p \in Procs, NothingToReap(p) PROVE OrderInv'
  BY <1>3 DEF NothingToReap
<1>4. ASSUME NEW p \in Procs, NothingToClaim(p) PROVE OrderInv'
  BY <1>4 DEF NothingToClaim
<1>5. ASSUME NEW p \in Procs, NEW e \in Executions, SelectQueued(p, e) PROVE OrderInv'
  <2>1. Locked = {}
    BY <1>5 DEF SelectQueued, Oldest, Locked
  <2>2. QED
    BY <1>5, <2>1 DEF SelectQueued, Oldest
<1>6. ASSUME NEW p \in Procs, LoseClaim(p) PROVE OrderInv'
  BY <1>6 DEF LoseClaim
<1>7. ASSUME NEW p \in Procs, WinClaim(p) PROVE OrderInv'
  BY <1>7 DEF WinClaim, IndexFree, Running, ClaimInv
<1>8. ASSUME NEW p \in Procs, CountStarted(p) PROVE OrderInv'
  BY <1>8 DEF CountStarted
<1>9. ASSUME NEW p \in Procs, StartRun(p) PROVE OrderInv'
  BY <1>9 DEF StartRun
<1>10. ASSUME NEW p \in Procs, ResolveManifest(p) PROVE OrderInv'
  BY <1>10 DEF ResolveManifest
<1>11. ASSUME NEW p \in Procs, DeleteManifest(p) PROVE OrderInv'
  BY <1>11 DEF DeleteManifest, OwnerInv
<1>12. ASSUME NEW p \in Procs, ApplyManifest(p) PROVE OrderInv'
  BY <1>12 DEF ApplyManifest, OwnerInv
<1>13. ASSUME NEW p \in Procs, PublishSuccess(p) PROVE OrderInv'
  BY <1>13 DEF PublishSuccess, PublishStatus, OwnerInv
<1>14. ASSUME NEW p \in Procs, PublishFailure(p) PROVE OrderInv'
  BY <1>14 DEF PublishFailure, PublishStatus, OwnerInv
<1>15. ASSUME NEW p \in Procs, ReadRun(p) PROVE OrderInv'
  <2>1. pend'[p].skips = CalledOff(RunOf[job[p]]) /\ pc' = [pc EXCEPT ![p] = "updating"]
    BY <1>15 DEF ReadRun
  <2>2. \A e \in CalledOff(RunOf[job[p]]) : status[e] = "queued"
    BY DEF CalledOff
  <2>3. UNCHANGED <<status, touched, job>>
    BY <1>15 DEF ReadRun
  <2>4. QED
    BY <2>1, <2>2, <2>3
<1>16. ASSUME NEW p \in Procs, CommitRun(p) PROVE OrderInv'
  <2>1. /\ pc[p] = "updating" /\ pc'[p] \in {"claim", "poll"} /\ touched' = touched
        /\ status' = [e \in Executions |-> IF e \in pend[p].skips THEN "skipped" ELSE status[e]]
    BY <1>16 DEF CommitRun, Release, AfterUpdate
  <2>2. \A e \in Executions :
          \/ status'[e] = status[e] /\ e \notin pend[p].skips
          \/ status[e] = "queued" /\ status'[e] = "skipped"
    BY <2>1
  <2>3. \A q \in Procs : q = p
    OBVIOUS
  <2>4. /\ \A e \in touched' : status'[e] \notin {"none", "queued"}
        /\ \A e, f \in Executions : Acted(e)' /\ status'[f] = "queued" => CreatedAt[e] <= CreatedAt[f]
    BY <2>1, <2>2
  <2>5. QED
    BY <2>1, <2>3, <2>4
<1>17. ASSUME NEW e \in Executions, HeartbeatExpires(e) PROVE OrderInv'
  BY <1>17 DEF HeartbeatExpires
<1>18. ASSUME NEW p \in Procs, HeartbeatTick(p) PROVE OrderInv'
  BY <1>18 DEF HeartbeatTick
<1>19. ASSUME NEW p \in Procs, Crash(p) \/ LoseFailure(p) \/ DbError(p) PROVE OrderInv'
  BY <1>19 DEF Crash, LoseFailure, DbError, Release, AfterException
<1>20. CASE UNCHANGED vars
  BY <1>20 DEF vars
<1>21. QED
  BY <1>1, <1>2, <1>3, <1>4, <1>5, <1>6, <1>7, <1>8, <1>9, <1>10, <1>11, <1>12, <1>13,
     <1>14, <1>15, <1>16, <1>17, <1>18, <1>19, <1>20 DEF Next, PollThread

(* Who acts on a target next is younger than all who have. *)
LEMMA StepTurn ==
  ASSUME SafeInv, OrderInv, ClusterInv, ActsInTurn, [Next]_vars
  PROVE  ActsInTurn'
<1> USE DEF SafeInv, TypeOK, dbVars, worldVars, procVars, boundVars
<1>1. ASSUME NEW p \in Procs, DeleteManifest(p) \/ ApplyManifest(p) PROVE ActsInTurn'
  <2> DEFINE e == job[p]
             t == TargetOf[e]
  <2>1. Owns(p) /\ e \in Executions /\ t \in Targets
    BY <1>1 DEF DeleteManifest, ApplyManifest, OwnerInv, Owns, OwnerPcs
  <2>2. touched' = touched \union {e} /\ last' = [last EXCEPT ![t] = e]
    BY <1>1 DEF DeleteManifest, ApplyManifest
  <2>3. \A f \in touched : CreatedAt[f] <= CreatedAt[e]
    BY <2>1 DEF OrderInv, Acted
  <2>4. CreatedAt[e] <= CreatedAt[e]
    BY <2>1
  <2>5. QED
    BY <2>1, <2>2, <2>3, <2>4 DEF ActsInTurn, ActedInTurn
<1>2. CASE UNCHANGED <<touched, last>>
  BY <1>2 DEF ActsInTurn, ActedInTurn
<1>3. ASSUME NEW p \in Procs, PollThread(p)
      PROVE  DeleteManifest(p) \/ ApplyManifest(p) \/ UNCHANGED <<touched, last>>
  BY <1>3 DEF PollThread, ReapStaleRunningJob, NothingToReap, NothingToClaim, SelectQueued,
     LoseClaim, WinClaim, CountStarted, StartRun, ResolveManifest, PublishSuccess,
     PublishFailure, PublishStatus, ReadRun, CommitRun
<1>4. (\E p \in Procs : PollThread(p)) \/ UNCHANGED <<touched, last>>
  BY DEF Next, vars, EnqueueDeploymentRun, HeartbeatExpires, HeartbeatTick, Crash, LoseFailure, DbError
<1>5. QED
  BY <1>1, <1>2, <1>3, <1>4

LEMMA AlwaysOrdered ==
  ASSUME OneProcess PROVE Spec => [](SafeInv /\ OrderInv)
<1>1. Init => OrderInv
  BY DEF Init, OrderInv, Acted, Owns, OwnerPcs
<1>2. SafeInv /\ OrderInv /\ [Next]_vars => OrderInv'
  BY StepOrder
<1>3. QED
  BY <1>1, <1>2, AlwaysSafe, PTL DEF Spec

(* With one worker process, executions of a target act on it oldest first, *)
(* whatever crashes between them.                                          *)
THEOREM ActingIsInTurn ==
  ASSUME OneProcess PROVE Spec => []ActsInTurn
<1>1. Init => ClusterInv /\ ActsInTurn
  BY DEF Init, ClusterInv, TimeInv, TouchInv, LastInv, ShownInv, ActsInTurn, ActedInTurn
<1>2. SafeInv /\ ClusterInv /\ [Next]_vars => ClusterInv'
  BY StepCluster
<1>3. SafeInv /\ OrderInv /\ ClusterInv /\ ActsInTurn /\ [Next]_vars => ActsInTurn'
  BY StepTurn
<1>4. QED
  BY <1>1, <1>2, <1>3, AlwaysOrdered, PTL DEF Spec

-----------------------------------------------------------------------------
(* One process alone reads and writes a run's status without anybody in    *)
(* between, and only before the run has ended.                             *)

(* What ReadRun reads of a run that is not terminal. *)
ReadOf(r) ==
  [wasTerminal |-> FALSE,
   dirty       |-> runStatus[r] # Aggregate(StatusesAfter(r)),
   now         |-> Aggregate(StatusesAfter(r)),
   skips       |-> CalledOff(r)]

Updates(p, r) == pc[p] \in {"reaped", "finishing", "updating"} /\ RunOf[job[p]] = r

JobInv ==
  \A p \in Procs, r \in Runs :
    Updates(p, r) => /\ runStatus[r] \in {"queued", "running"}
                     /\ pc[p] = "updating" => pend[p] = ReadOf(r)

(* A run is announced finished when it ends, and rows are skipped only     *)
(* behind a failure.                                                       *)
TellInv ==
  /\ \A r \in Runs : finished[r] = IF runStatus[r] \in Terminal THEN 1 ELSE 0
  /\ \A e \in Executions :
       status[e] = "skipped" => \E f \in Executions : RunOf[f] = RunOf[e] /\ status[f] = "failed"

Statuses(r) == {status[e] : e \in ExecutionsOf(r)}
AllDone(r)  == ExecutionsOf(r) # {} /\ \A e \in ExecutionsOf(r) : status[e] \in Done

(* A run that is done has its outcome, unless its update is still to come. *)
SettleInv ==
  crashes = 0 /\ dbErrors = 0 =>
    \A r \in Runs :
      AllDone(r) => runStatus[r] = Aggregate(Statuses(r)) \/ \E p \in Procs : Updates(p, r)

RunInv == JobInv /\ TellInv /\ SettleInv

(* What is said of a run depends on its rows and on who updates it alone.  *)
LEMMA SameRun ==
  ASSUME NEW r \in Runs, \A e \in Executions : RunOf[e] = r => status'[e] = status[e],
         runStatus'[r] = runStatus[r]
  PROVE  /\ ExecutionsOf(r)' = ExecutionsOf(r) /\ Statuses(r)' = Statuses(r)
         /\ AllDone(r)' = AllDone(r) /\ ReadOf(r)' = ReadOf(r)
<1>1. ExecutionsOf(r)' = ExecutionsOf(r) /\ \A e \in ExecutionsOf(r) : status'[e] = status[e]
  BY DEF ExecutionsOf
<1>2. Statuses(r)' = Statuses(r) /\ AllDone(r)' = AllDone(r)
  BY <1>1 DEF Statuses, AllDone
<1>3. CalledOff(r)' = CalledOff(r)
  <2>1. {e \in ExecutionsOf(r) : status[e] = "queued"}' = {e \in ExecutionsOf(r) : status[e] = "queued"}
    BY <1>1
  <2>2. (\E e \in ExecutionsOf(r) : status[e] = "failed")' <=> \E e \in ExecutionsOf(r) : status[e] = "failed"
    BY <1>1
  <2>3. QED
    BY <2>1, <2>2 DEF CalledOff
<1>4. StatusesAfter(r)' = StatusesAfter(r)
  BY <1>1, <1>3 DEF StatusesAfter
<1>5. QED
  BY <1>1, <1>2, <1>3, <1>4 DEF ReadOf

(* A step of another kind than an update of a run: it leaves a run alone,  *)
(* or works on one of its rows or makes them, and if all of them are done  *)
(* afterwards, the run is still to be updated.                             *)
LEMMA QuietRun ==
  ASSUME SafeInv, RunInv, runStatus' = runStatus \/ \E r \in Runs : EnqueueDeploymentRun(r),
         finished' = finished,
         crashes' = 0 /\ dbErrors' = 0 => crashes = 0 /\ dbErrors = 0,
         \A r \in Runs :
           \/ /\ \A e \in Executions : RunOf[e] = r => status'[e] = status[e]
              /\ runStatus'[r] = runStatus[r]
           \/ /\ AllDone(r)' => \E p \in Procs : Updates(p, r)'
              /\ \A p \in Procs : Updates(p, r)' => pc'[p] # "updating",
         \A p \in Procs, r \in Runs :
           Updates(p, r)' => \/ Updates(p, r) /\ (pc'[p] = "updating" => pend'[p] = ReadOf(r)')
                             \/ pc'[p] # "updating" /\ runStatus'[r] \in {"queued", "running"},
         crashes' = 0 /\ dbErrors' = 0 =>
           \A p \in Procs, r \in Runs : Updates(p, r) => Updates(p, r)',
         \A e \in Executions :
           /\ status'[e] = "skipped" => status[e] = "skipped"
           /\ status[e] = "failed" => status'[e] = "failed"
  PROVE  RunInv'
<1>1. \A r \in Runs : runStatus[r] = "none" \/ runStatus'[r] = runStatus[r]
  BY DEF EnqueueDeploymentRun, SafeInv, TypeOK
<1>2. \A r \in Runs : runStatus[r] = "none" => runStatus'[r] \in {"none", "queued"}
  BY DEF EnqueueDeploymentRun, SafeInv, TypeOK
<1>3. JobInv'
  BY <1>1 DEF RunInv, JobInv
<1>4. TellInv'
  BY <1>1, <1>2 DEF RunInv, TellInv, Terminal
<1>5. SettleInv'
  <2> SUFFICES ASSUME crashes' = 0, dbErrors' = 0, NEW r \in Runs, AllDone(r)',
                      ~ \E p \in Procs : Updates(p, r)'
               PROVE  runStatus'[r] = Aggregate(Statuses(r)')
    BY DEF SettleInv
  <2>1. /\ \A e \in Executions : RunOf[e] = r => status'[e] = status[e]
        /\ runStatus'[r] = runStatus[r]
    OBVIOUS
  <2>2. Statuses(r)' = Statuses(r) /\ AllDone(r)
    BY <2>1, SameRun
  <2>3. ~ \E p \in Procs : Updates(p, r)
    OBVIOUS
  <2>4. runStatus[r] = Aggregate(Statuses(r))
    BY <2>2, <2>3 DEF RunInv, SettleInv
  <2>5. QED
    BY <2>1, <2>2, <2>4
<1>6. QED
  BY <1>3, <1>4, <1>5 DEF RunInv

(* The update of a run that has not ended: it skips what it has read, and  *)
(* the run then has the outcome of its rows and is announced with it.      *)
LEMMA CommitRunSettles ==
  ASSUME OneProcess, SafeInv, OrderInv, RunInv, NEW p \in Procs, CommitRun(p)
  PROVE  RunInv'
<1> USE OneProcess DEF OneProcess, SafeInv, TypeOK
<1> DEFINE r == RunOf[job[p]]
           now == Aggregate(StatusesAfter(r))
<1>1. /\ pc[p] = "updating" /\ job[p] \in Executions /\ r \in Runs
      /\ runStatus[r] \in {"queued", "running"} /\ pend[p] = ReadOf(r)
  BY DEF CommitRun, RunInv, JobInv, Updates, UpdateInv
<1>2. /\ pend[p].skips = CalledOff(r) /\ pend[p].now = now
      /\ pend[p].dirty = (runStatus[r] # now) /\ ~pend[p].wasTerminal
  BY <1>1 DEF ReadOf
<1>3. /\ status' = [e \in Executions |-> IF e \in CalledOff(r) THEN "skipped" ELSE status[e]]
      /\ runStatus' = [runStatus EXCEPT ![r] = now]
      /\ finished' = IF now \in Terminal THEN [finished EXCEPT ![r] = @ + 1] ELSE finished
      /\ pc'[p] \in {"claim", "poll"} /\ crashes' = crashes /\ dbErrors' = dbErrors
  <2>1. /\ status' = [e \in Executions |-> IF e \in pend[p].skips THEN "skipped" ELSE status[e]]
        /\ runStatus' = IF pend[p].dirty THEN [runStatus EXCEPT ![r] = pend[p].now] ELSE runStatus
        /\ finished' = IF Announces(p) THEN [finished EXCEPT ![r] = @ + 1] ELSE finished
        /\ pc'[p] \in {"claim", "poll"} /\ crashes' = crashes /\ dbErrors' = dbErrors
    BY DEF CommitRun, Release, AfterUpdate, boundVars
  <2>2. Announces(p) <=> now \in Terminal
    BY <1>2 DEF Announces
  <2> HIDE DEF now, r
  <2>3. runStatus' = [runStatus EXCEPT ![r] = now]
    BY <1>1, <1>2, <2>1
  <2>4. finished' = IF now \in Terminal THEN [finished EXCEPT ![r] = @ + 1] ELSE finished
    BY ONLY <2>1, <2>2
  <2>5. status' = [e \in Executions |-> IF e \in CalledOff(r) THEN "skipped" ELSE status[e]]
    BY ONLY <1>2, <2>1
  <2>6. QED
    BY ONLY <2>1, <2>3, <2>4, <2>5
<1>4. now \in RunStatus \ {"none"}
  BY <1>1, ReadRunReads
<1> HIDE DEF r, now
<1>5. \A e \in CalledOff(r) : e \in ExecutionsOf(r) /\ RunOf[e] = r /\ status[e] = "queued"
  BY DEF CalledOff, ExecutionsOf
<1>6. \A q \in Procs, x \in Runs : ~Updates(q, x)'
  BY <1>3 DEF Updates
<1>7. JobInv'
  BY <1>6 DEF JobInv
<1>8. TellInv'
  <2>1. \A x \in Runs : finished'[x] = IF runStatus'[x] \in Terminal THEN 1 ELSE 0
    BY <1>1, <1>3 DEF RunInv, TellInv, Terminal
  <2>2. ASSUME NEW e \in Executions, status'[e] = "skipped"
        PROVE  \E f \in Executions : RunOf[f] = RunOf[e] /\ status'[f] = "failed"
    <3>1. \E f \in Executions : RunOf[f] = RunOf[e] /\ status[f] = "failed"
      <4>1. CASE e \in CalledOff(r)
        <5>1. PICK f \in ExecutionsOf(r) : status[f] = "failed"
          BY <4>1 DEF CalledOff
        <5>2. QED
          BY <1>5, <4>1, <5>1 DEF ExecutionsOf
      <4>2. CASE e \notin CalledOff(r)
        BY <1>3, <2>2, <4>2 DEF RunInv, TellInv
      <4>3. QED
        BY <4>1, <4>2
    <3>2. QED
      BY <1>3, <1>5, <3>1
  <2>3. QED
    BY <2>1, <2>2 DEF TellInv
<1>9. SettleInv'
  <2> SUFFICES ASSUME crashes' = 0, dbErrors' = 0, NEW x \in Runs, AllDone(x)'
               PROVE  runStatus'[x] = Aggregate(Statuses(x)')
    BY DEF SettleInv
  <2>1. CASE x = r
    <3>1. ExecutionsOf(x)' = ExecutionsOf(x)
      BY <1>3, <1>5 DEF ExecutionsOf
    <3>2. Statuses(x)' = StatusesAfter(x)
      BY <1>3, <2>1, <3>1 DEF Statuses, StatusesAfter, ExecutionsOf
    <3>3. QED
      BY <1>1, <1>3, <2>1, <3>2 DEF now
  <2>2. CASE x # r
    <3>1. \A e \in Executions : RunOf[e] = x => status'[e] = status[e]
      BY <1>3, <1>5, <2>2
    <3>2. runStatus'[x] = runStatus[x]
      BY <1>3, <2>2
    <3>3. Statuses(x)' = Statuses(x) /\ AllDone(x)
      BY <3>1, <3>2, SameRun
    <3>4. \A q \in Procs : ~Updates(q, x)
      BY <2>2 DEF Updates, r
    <3>5. runStatus[x] = Aggregate(Statuses(x))
      BY <1>3, <3>3, <3>4 DEF RunInv, SettleInv
    <3>6. QED
      BY <3>2, <3>3, <3>5
  <2>3. QED
    BY <2>1, <2>2
<1>10. QED
  BY <1>7, <1>8, <1>9 DEF RunInv

LEMMA StepRun ==
  ASSUME OneProcess
  PROVE  SafeInv /\ OrderInv /\ RunInv /\ [Next]_vars => RunInv'
<1> SUFFICES ASSUME SafeInv, OrderInv, RunInv, [Next]_vars PROVE RunInv'
  OBVIOUS
<1> USE OneProcess DEF OneProcess, SafeInv, TypeOK, dbVars, worldVars, procVars, boundVars
<1>1. ASSUME NEW r \in Runs, EnqueueDeploymentRun(r) PROVE RunInv'
  <2>1. UNCHANGED <<finished, pc, job, pend, crashes, dbErrors>> /\ runStatus[r] = "none"
        /\ runStatus' = [runStatus EXCEPT ![r] = "queued"]
    BY <1>1 DEF EnqueueDeploymentRun
  <2>2. \A e \in Executions :
          \/ status'[e] = status[e]
          \/ status[e] = "none" /\ status'[e] = "queued" /\ RunOf[e] = r
    BY <1>1 DEF EnqueueDeploymentRun, RowInv
  <2>3. \A p \in Procs, x \in Runs : Updates(p, x)' = Updates(p, x)
    BY <2>1 DEF Updates
  <2>4. \A p \in Procs, x \in Runs : Updates(p, x) => x # r
    BY <2>1 DEF RunInv, JobInv
  <2>5. ~ AllDone(r)'
    BY <2>1, <2>2 DEF AllDone, ExecutionsOf, RowInv, Done
  <2>6. \A x \in Runs : x # r => /\ \A e \in Executions : RunOf[e] = x => status'[e] = status[e]
                                /\ runStatus'[x] = runStatus[x]
    BY <2>1, <2>2
  <2>7. \A p \in Procs, x \in Runs :
          Updates(p, x)' => \/ Updates(p, x) /\ (pc'[p] = "updating" => pend'[p] = ReadOf(x)')
                            \/ pc'[p] # "updating" /\ runStatus'[x] \in {"queued", "running"}
    <3>1. \A x \in Runs : x # r => ReadOf(x)' = ReadOf(x)
      BY <2>6, SameRun
    <3>2. QED
      BY <2>1, <2>3, <2>4, <3>1 DEF RunInv, JobInv
  <2>8. \A x \in Runs :
          \/ /\ \A e \in Executions : RunOf[e] = x => status'[e] = status[e]
             /\ runStatus'[x] = runStatus[x]
          \/ /\ AllDone(x)' => \E p \in Procs : Updates(p, x)'
             /\ \A p \in Procs : Updates(p, x)' => pc'[p] # "updating"
    BY <2>3, <2>4, <2>5, <2>6
  <2>9. \A e \in Executions : /\ status'[e] = "skipped" => status[e] = "skipped"
                              /\ status[e] = "failed" => status'[e] = "failed"
    BY <2>2
  <2>10. runStatus' = runStatus \/ \E x \in Runs : EnqueueDeploymentRun(x)
    BY <1>1
  <2>11. /\ finished' = finished
         /\ crashes' = 0 /\ dbErrors' = 0 => crashes = 0 /\ dbErrors = 0
    BY <2>1
  <2>12. crashes' = 0 /\ dbErrors' = 0 =>
           \A p \in Procs, x \in Runs : Updates(p, x) => Updates(p, x)'
    BY <2>3
  <2>13. QED
    BY ONLY SafeInv, RunInv, <2>7, <2>8, <2>9, <2>10, <2>11, <2>12, QuietRun
<1>2. ASSUME NEW p \in Procs, NEW e \in Executions, status[e] = "running",
             UNCHANGED <<runStatus, finished, crashes, dbErrors>>,
             \E s \in {"success", "failed"} : status' = [status EXCEPT ![e] = s],
             pc[p] \notin {"reaped", "finishing", "updating"},
             pc'[p] \in {"reaped", "finishing"}, job'[p] = e
      PROVE  RunInv'
  <2> DEFINE r == RunOf[e]
  <2>1. runStatus[r] \in {"queued", "running"}
    BY <1>2 DEF EndedInv, RowInv, RunStatus, Done
  <2>2. \A q \in Procs, x \in Runs : ~Updates(q, x) /\ (Updates(q, x)' <=> x = r)
    BY <1>2 DEF Updates
  <2>3. \A x \in Runs : x # r => \A f \in Executions : RunOf[f] = x => status'[f] = status[f]
    BY <1>2
  <2>4. \A f \in Executions : /\ status'[f] = "skipped" => status[f] = "skipped"
                              /\ status[f] = "failed" => status'[f] = "failed"
    BY <1>2
  <2>5. \A q \in Procs : pc'[q] # "updating"
    BY <1>2
  <2> HIDE DEF r
  <2>6. QED
    BY <1>2, <2>1, <2>2, <2>3, <2>4, <2>5, QuietRun
<1>3. ASSUME NEW p \in Procs, NEW e \in Executions, ReapStaleRunningJob(p, e) PROVE RunInv'
  BY <1>3, <1>2 DEF ReapStaleRunningJob, Reapable, Running
<1>4. ASSUME NEW p \in Procs, PublishSuccess(p) \/ PublishFailure(p) PROVE RunInv'
  <2>1. job[p] \in Executions /\ status[job[p]] = "running"
        /\ pc[p] \notin {"reaped", "finishing", "updating"}
    BY <1>4 DEF PublishSuccess, PublishFailure, OwnerInv, OrderInv, Owns, OwnerPcs
  <2>2. \E s \in {"success", "failed"} : status' = [status EXCEPT ![job[p]] = s]
    BY <1>4 DEF PublishSuccess, PublishFailure, PublishStatus
  <2>3. UNCHANGED <<runStatus, finished, crashes, dbErrors>> /\ pc'[p] = "finishing" /\ job'[p] = job[p]
    BY <1>4 DEF PublishSuccess, PublishFailure, PublishStatus
  <2>4. QED
    BY <2>1, <2>2, <2>3, <1>2
<1>5. ASSUME NEW p \in Procs, WinClaim(p) PROVE RunInv'
  <2>0. PICK e \in Executions, r \in Runs : e = job[p] /\ r = RunOf[e]
    BY <1>5 DEF WinClaim, ClaimInv
  <2>1. /\ status[e] = "queued" /\ status' = [status EXCEPT ![e] = "running"]
        /\ pc[p] = "claiming" /\ pc'[p] = "claimed"
        /\ UNCHANGED <<runStatus, finished, crashes, dbErrors>>
    BY <1>5, <2>0 DEF WinClaim, ClaimInv
  <2>2. \A q \in Procs, x \in Runs : ~Updates(q, x) /\ ~Updates(q, x)'
    BY <2>1 DEF Updates
  <2>3. ~ AllDone(r)'
    <3>1. e \in ExecutionsOf(r)' /\ status'[e] \notin Done
      BY <2>0, <2>1 DEF ExecutionsOf, Done
    <3>2. QED
      BY <3>1 DEF AllDone
  <2>4. \A x \in Runs : x # r => \A f \in Executions : RunOf[f] = x => status'[f] = status[f]
    BY <2>0, <2>1
  <2>5. \A f \in Executions : /\ status'[f] = "skipped" => status[f] = "skipped"
                              /\ status[f] = "failed" => status'[f] = "failed"
    BY <2>1
  <2>6. QED
    BY <2>1, <2>2, <2>3, <2>4, <2>5, QuietRun
<1>6. ASSUME UNCHANGED <<status, runStatus, finished>>,
             crashes' = 0 /\ dbErrors' = 0 => crashes = 0 /\ dbErrors = 0,
             \A p \in Procs, r \in Runs :
               Updates(p, r)' => \/ Updates(p, r) /\ (pc'[p] = "updating" => pend'[p] = ReadOf(r))
                                 \/ pc'[p] # "updating" /\ runStatus[r] \in {"queued", "running"},
             crashes' = 0 /\ dbErrors' = 0 =>
               \A p \in Procs, r \in Runs : Updates(p, r) => Updates(p, r)'
      PROVE  RunInv'
  <2>1. \A r \in Runs : ReadOf(r)' = ReadOf(r)
    BY <1>6, SameRun
  <2>2. QED
    BY <1>6, <2>1, QuietRun
<1>7. ASSUME NEW p \in Procs, ReadRun(p) PROVE RunInv'
  <2>0. PICK r \in Runs : r = RunOf[job[p]]
    BY <1>7 DEF ReadRun, UpdateInv
  <2>1. /\ pc[p] \in {"reaped", "finishing"} /\ job' = job
        /\ pc' = [pc EXCEPT ![p] = "updating"]
        /\ UNCHANGED <<status, runStatus, finished, crashes, dbErrors>>
    BY <1>7 DEF ReadRun
  <2>2. (runStatus[r] \in Terminal) = FALSE
    BY <2>0, <2>1 DEF RunInv, JobInv, Updates, Terminal
  <2>3. pend'[p] = ReadOf(r)
    <3>1. pend'[p] = [wasTerminal |-> runStatus[r] \in Terminal,
                      dirty       |-> runStatus[r] # Aggregate(StatusesAfter(r)),
                      now         |-> Aggregate(StatusesAfter(r)),
                      skips       |-> CalledOff(r)]
      BY <1>7, <2>0 DEF ReadRun
    <3>2. QED
      BY <2>2, <3>1 DEF ReadOf
  <2>4. \A q \in Procs, x \in Runs : (Updates(q, x)' <=> Updates(q, x)) /\ (Updates(q, x) => x = r)
    BY <2>0, <2>1 DEF Updates
  <2>5. \A q \in Procs, x \in Runs :
          Updates(q, x)' => \/ Updates(q, x) /\ (pc'[q] = "updating" => pend'[q] = ReadOf(x))
                            \/ pc'[q] # "updating" /\ runStatus[x] \in {"queued", "running"}
    BY <2>3, <2>4
  <2>6. QED
    BY <2>1, <2>4, <2>5, <1>6
<1>8. ASSUME NEW p \in Procs,
             \/ NothingToReap(p) \/ NothingToClaim(p) \/ LoseClaim(p)
             \/ \E e \in Executions : SelectQueued(p, e)
             \/ CountStarted(p) \/ StartRun(p) \/ ResolveManifest(p)
             \/ DeleteManifest(p) \/ ApplyManifest(p)
      PROVE  RunInv'
  <2>1. /\ UNCHANGED <<status, runStatus, finished, crashes, dbErrors>>
        /\ pc[p] \notin {"reaped", "finishing", "updating"}
        /\ pc'[p] \notin {"reaped", "finishing", "updating"}
    BY <1>8 DEF NothingToReap, NothingToClaim, LoseClaim, SelectQueued, CountStarted, StartRun,
       ResolveManifest, DeleteManifest, ApplyManifest
  <2>2. \A q \in Procs, x \in Runs : ~Updates(q, x) /\ ~Updates(q, x)'
    BY <2>1 DEF Updates
  <2>3. QED
    BY <2>1, <2>2, <1>6
<1>9. ASSUME NEW p \in Procs, LoseFailure(p) PROVE RunInv'
  <2> DEFINE r == RunOf[job[p]]
  <2>1. /\ UNCHANGED <<status, runStatus, finished>> /\ dbErrors' # 0
        /\ pc'[p] = "finishing" /\ job'[p] = job[p] /\ Owns(p)
    BY <1>9 DEF LoseFailure, Owns, OwnerPcs
  <2>2. job[p] \in Executions /\ runStatus[r] \in {"queued", "running"}
    BY <2>1 DEF OwnerInv, OrderInv, EndedInv, RowInv, RunStatus, Done
  <2>3. \A q \in Procs, x \in Runs : Updates(q, x)' => x = r /\ pc'[q] # "updating"
    BY <2>1 DEF Updates
  <2> HIDE DEF r
  <2>4. QED
    BY <2>1, <2>2, <2>3, <1>6
<1>10. ASSUME NEW p \in Procs, Crash(p) \/ DbError(p) PROVE RunInv'
  <2>1. /\ UNCHANGED <<status, runStatus, finished>> /\ ~ (crashes' = 0 /\ dbErrors' = 0)
        /\ pc'[p] \in {"poll", "dead"}
    BY <1>10 DEF Crash, DbError, Release, AfterException
  <2>2. \A q \in Procs, x \in Runs : ~Updates(q, x)'
    BY <2>1 DEF Updates
  <2>3. QED
    BY <2>1, <2>2, <1>6
<1>11. ASSUME \/ \E e \in Executions : HeartbeatExpires(e)
              \/ \E p \in Procs : HeartbeatTick(p)
              \/ UNCHANGED vars
       PROVE  RunInv'
  <2>1. UNCHANGED <<status, runStatus, finished, pc, job, pend, crashes, dbErrors>>
    BY <1>11 DEF HeartbeatExpires, HeartbeatTick, vars
  <2>2. \A q \in Procs, x \in Runs : Updates(q, x)' = Updates(q, x)
    BY <2>1 DEF Updates
  <2>3. QED
    BY <2>1, <2>2, <1>6 DEF RunInv, JobInv
<1>12. ASSUME NEW p \in Procs, CommitRun(p) PROVE RunInv'
  BY <1>12, CommitRunSettles
<1>13. QED
  BY <1>1, <1>3, <1>4, <1>5, <1>7, <1>8, <1>9, <1>10, <1>11, <1>12 DEF Next, PollThread

LEMMA AlwaysRun ==
  ASSUME OneProcess PROVE Spec => [](SafeInv /\ OrderInv /\ RunInv)
<1>1. Init => RunInv
  BY DEF Init, RunInv, JobInv, TellInv, SettleInv, Updates, AllDone, ExecutionsOf, Terminal
<1>2. SafeInv /\ OrderInv /\ RunInv /\ [Next]_vars => RunInv'
  BY StepRun
<1>3. QED
  BY <1>1, <1>2, AlwaysOrdered, PTL DEF Spec

(* With one worker process, a run whose executions are done gets their     *)
(* outcome and is announced once: what "still feeds into this same         *)
(* aggregation" does so while nothing crashes between the two.             *)
THEOREM DoneRunsSettle ==
  ASSUME OneProcess PROVE Spec => []RunsSettle
<1>1. SafeInv /\ RunInv => RunsSettle
  <2> SUFFICES ASSUME SafeInv, RunInv, NEW r \in Runs, crashes + dbErrors = 0, AllDone(r),
                      \A p \in Procs : job[p] \notin ExecutionsOf(r)
               PROVE  runStatus[r] = Aggregate(Statuses(r)) /\ finished[r] = 1
    BY DEF RunsSettle, AllDone, Statuses
  <2>1. crashes = 0 /\ dbErrors = 0
    BY DEF SafeInv, TypeOK
  <2>2. \A p \in Procs : ~Updates(p, r)
    BY DEF Updates, SafeInv, UpdateInv, ExecutionsOf
  <2>3. runStatus[r] = Aggregate(Statuses(r))
    BY <2>1, <2>2 DEF RunInv, SettleInv
  <2>4. Statuses(r) \subseteq Done /\ Statuses(r) # {}
    BY DEF Statuses, AllDone
  <2>5. "skipped" \in Statuses(r) => "failed" \in Statuses(r)
    <3> SUFFICES ASSUME NEW e \in ExecutionsOf(r), status[e] = "skipped"
                 PROVE  \E f \in ExecutionsOf(r) : status[f] = "failed"
      BY DEF Statuses
    <3>1. PICK f \in Executions : RunOf[f] = RunOf[e] /\ status[f] = "failed"
      BY DEF RunInv, TellInv, ExecutionsOf
    <3>2. QED
      BY <3>1 DEF ExecutionsOf
  <2>6. Aggregate(Statuses(r)) \in Terminal
    <3>1. CASE "failed" \in Statuses(r)
      BY <2>4, <3>1 DEF Aggregate, Terminal, Done
    <3>2. CASE "failed" \notin Statuses(r)
      <4>1. Statuses(r) = {"success"}
        BY <2>4, <2>5, <3>2 DEF Done
      <4>2. QED
        BY <4>1 DEF Aggregate, Terminal
    <3>3. QED
      BY <3>1, <3>2
  <2>7. QED
    BY <2>3, <2>6 DEF RunInv, TellInv
<1>2. QED
  BY <1>1, AlwaysRun, PTL

JobMap == [r \in Runs |-> OutcomeOf[runStatus[r]]]

LEMMA OutcomeValues ==
  /\ OutcomeOf["none"] = "absent" /\ OutcomeOf["queued"] = "open" /\ OutcomeOf["running"] = "open"
  /\ \A s \in Terminal : OutcomeOf[s] = s
BY DEF OutcomeOf, Terminal

(* With one worker process, the runs are jobs the orchestrator can rely    *)
(* on: a run that has ended keeps its outcome.                             *)
THEOREM RunsKeepTheirOutcome ==
  ASSUME OneProcess PROVE Spec => RunsAreJobs
<1>1. Init => Board!Init
  BY OutcomeValues DEF Init, Board!Init
<1>2. SafeInv /\ OrderInv /\ RunInv /\ [Next]_vars => [Board!Next]_JobMap
  <2> SUFFICES ASSUME SafeInv, OrderInv, RunInv, [Next]_vars, runStatus' # runStatus
               PROVE  Board!Next \/ JobMap' = JobMap
    BY DEF JobMap
  <2> USE DEF SafeInv, TypeOK, dbVars, worldVars, procVars, boundVars
  <2>1. ASSUME NEW r \in Runs, EnqueueDeploymentRun(r) PROVE Board!Next
    <3>1. runStatus[r] = "none" /\ runStatus' = [runStatus EXCEPT ![r] = "queued"]
      BY <2>1 DEF EnqueueDeploymentRun
    <3>2. JobMap[r] = "absent" /\ JobMap' = [JobMap EXCEPT ![r] = "open"]
      BY <3>1, OutcomeValues DEF JobMap
    <3>3. Board!Submit(r)
      BY <3>2 DEF Board!Submit, JobMap
    <3>4. QED
      BY <3>3 DEF Board!Next
  <2>2. ASSUME NEW p \in Procs, CommitRun(p) PROVE Board!Next \/ JobMap' = JobMap
    <3>0. PICK r \in Runs, now \in RunStatus \ {"none"} : r = RunOf[job[p]] /\ now = pend[p].now
      BY <2>2 DEF CommitRun, UpdateInv, Pend
    <3>1. pc[p] = "updating" /\ runStatus[r] \in {"queued", "running"}
      BY <2>2, <3>0 DEF CommitRun, RunInv, JobInv, Updates
    <3>2. runStatus' = [runStatus EXCEPT ![r] = now]
      BY <2>2, <3>0 DEF CommitRun
    <3>3. JobMap[r] = "open"
      BY <3>1, OutcomeValues DEF JobMap
    <3>4. CASE now \in Terminal
      <4>1. JobMap' = [JobMap EXCEPT ![r] = now]
        BY <3>2, <3>4, OutcomeValues DEF JobMap
      <4>2. Board!End(r)
        BY <3>3, <3>4, <4>1 DEF Board!End, Board!Outcomes, JobMap, Terminal
      <4>3. QED
        BY <4>2 DEF Board!Next
    <3>5. CASE now \notin Terminal
      <4>1. now \in {"queued", "running"}
        BY <3>5 DEF RunStatus
      <4>2. QED
        BY <3>1, <3>2, <4>1, OutcomeValues DEF JobMap
    <3>6. QED
      BY <3>4, <3>5
  <2>3. ASSUME NEW p \in Procs, PollThread(p), ~CommitRun(p) PROVE FALSE
    BY <2>3 DEF PollThread, ReapStaleRunningJob, NothingToReap, NothingToClaim, SelectQueued,
       LoseClaim, WinClaim, CountStarted, StartRun, ResolveManifest, DeleteManifest,
       ApplyManifest, PublishSuccess, PublishFailure, PublishStatus, ReadRun
  <2>4. \/ \E r \in Runs : EnqueueDeploymentRun(r)
        \/ \E p \in Procs : PollThread(p)
    BY DEF Next, vars, HeartbeatExpires, HeartbeatTick, Crash, LoseFailure, DbError
  <2>5. QED
    BY <2>1, <2>2, <2>3, <2>4
<1>3. QED
  BY <1>1, <1>2, AlwaysRun, PTL DEF Spec, RunsAreJobs, Board!Spec, JobMap
=============================================================================
