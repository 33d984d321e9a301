--------------------------- MODULE BuildQueueProofs ---------------------------
(* Theorems about BuildQueue, for every fleet, every set of batches and    *)
(* images, every bound and every failure.                                  *)
EXTENDS BuildQueue, FiniteSetTheorems, TLAPS

USE QueueAssumption

-----------------------------------------------------------------------------
(* The inductive invariant behind the theorems that need no assumption on  *)
(* heartbeats.                                                             *)

(* A claimer holds the lock on a row that is still queued, and no two      *)
(* claimers hold the same one (FOR UPDATE SKIP LOCKED).                    *)
ClaimInv ==
  /\ \A p \in Procs :
       pc[p] = "claiming" => job[p] \in Images /\ status[job[p]] = "queued"
  /\ \A p, q \in Procs :
       pc[p] = "claiming" /\ pc[q] = "claiming" /\ job[p] = job[q] => p = q

(* An owner's row is running, or was failed by the reaper; and an owner    *)
(* shares its row with nobody.                                             *)
OwnerInv ==
  /\ \A p \in Procs : Owns(p) => job[p] \in Images /\ status[job[p]] \in {"running", "failed"}
  /\ \A p, q \in Procs : Owns(p) /\ Owns(q) /\ job[p] = job[q] => p = q

RowInv ==
  /\ \A i, j \in Images : status[i] = "running" /\ status[j] = "running" => i = j
  /\ \A i \in stale : status[i] = "running"
  /\ \A i \in Images : batchStatus[BatchOf[i]] = "none" => status[i] = "none"

AllSucceeded(b) == \A i \in Images : BatchOf[i] = b => status[i] = "success"

(* What an update of a batch has read remains true of the rows: successes  *)
(* are final.                                                              *)
UpdateInv ==
  /\ \A p \in Procs : pc[p] \in {"reaped", "finishing"} => job[p] \in Images
  /\ \A p \in Procs :
       pc[p] \in {"drafting", "updating"} =>
         /\ job[p] \in Images
         /\ pend[p].now # "none"
         /\ pend[p].undocumented => AllSucceeded(BatchOf[job[p]])
  /\ \A b \in documented : AllSucceeded(b) /\ ImagesOf(b) # {}

SafeInv == TypeOK /\ ClaimInv /\ OwnerInv /\ RowInv /\ UpdateInv

(* An aggregate is a status of an existing batch, and "success" only when  *)
(* every image succeeded.                                                  *)
LEMMA AggregateType ==
  ASSUME NEW S
  PROVE  /\ Aggregate(S) \in BatchStatus \ {"none"}
         /\ Aggregate(S) = "success" => S = {"success"}
BY DEF Aggregate, BatchStatus, Terminal

(* An idle process, what a claim has read, and an update whose status has  *)
(* been committed.                                                         *)
LEMMA NoPendType == NoPend \in Pend
BY DEF Pend, NoPend, Number, BatchStatus

LEMMA ClaimPendType ==
  ASSUME NEW f \in Number, NEW n \in Nat
  PROVE  [NoPend EXCEPT !.from = f, !.number = n] \in Pend
BY DEF Pend, NoPend, Number, BatchStatus

LEMMA CleanPendType ==
  ASSUME NEW r \in Pend
  PROVE  /\ [r EXCEPT !.dirty = FALSE] \in Pend
         /\ [r EXCEPT !.dirty = FALSE].now = r.now
         /\ [r EXCEPT !.dirty = FALSE].undocumented = r.undocumented
BY DEF Pend

LEMMA StatusesSuccess ==
  ASSUME NEW b, Statuses(b) = {"success"}
  PROVE  AllSucceeded(b)
BY DEF Statuses, AllSucceeded, ImagesOf

(* A pending batch status may be written or not; either way types hold and *)
(* only an existing batch's status changes.                                *)
LEMMA FlushType ==
  ASSUME NEW p \in Procs, TypeOK, FlushBatchStatus(p)
  PROVE  /\ batchStatus' \in [Batches -> BatchStatus]
         /\ \A b \in Batches : batchStatus'[b] \in {batchStatus[b], pend[p].now}
BY DEF FlushBatchStatus, TypeOK, Pend

LEMMA InitSafe == Init => SafeInv
BY DEF Init, SafeInv, TypeOK, ClaimInv, OwnerInv, RowInv, UpdateInv, Owns, OwnerPcs,
       ImageStatus, BatchStatus, Terminal, Number, Pend, NoPend, Pcs, ShortPcs, ImagesOf
LEMMA StepSafe == SafeInv /\ [Next]_vars => SafeInv'
<1> SUFFICES ASSUME SafeInv, [Next]_vars PROVE SafeInv'
  OBVIOUS
<1> USE DEF SafeInv, TypeOK, ClaimInv, OwnerInv, RowInv, UpdateInv, AllSucceeded,
            Owns, OwnerPcs, ShortPcs, Pcs, ImageStatus, BatchStatus, Terminal, Done,
            ImagesOf, dbVars, procVars, boundVars
<1>1. ASSUME NEW b \in Batches, EnqueueBuildBatch(b) PROVE SafeInv'
  BY <1>1 DEF EnqueueBuildBatch
<1>2. ASSUME NEW v \in Versions, NEW n \in EditNumbers, EditVersion(v, n) PROVE SafeInv'
  BY <1>2 DEF EditVersion
<1>3. ASSUME NEW p \in Procs, NEW i \in Images, ReapStaleRunningJob(p, i) PROVE SafeInv'
  BY <1>3 DEF ReapStaleRunningJob, Reapable, Running
<1>4. ASSUME NEW p \in Procs, NothingToReap(p) PROVE SafeInv'
  BY <1>4 DEF NothingToReap
<1>5. ASSUME NEW p \in Procs, NothingToClaim(p) PROVE SafeInv'
  BY <1>5 DEF NothingToClaim
<1>6. ASSUME NEW p \in Procs, NEW i \in Images, SelectQueued(p, i) PROVE SafeInv'
  <2>1. /\ job[p]' = i /\ pc[p]' = "claiming"
        /\ status[i] = "queued" /\ \A q \in Procs : pc[q] = "claiming" => job[q] # i
    BY <1>6 DEF SelectQueued, Locked
  <2>2. [NoPend EXCEPT !.from = bumpedFrom[BatchOf[i]],
                       !.number = version[VersionOf[BatchOf[i]]]] \in Pend
    <3>1. bumpedFrom[BatchOf[i]] \in Number /\ version[VersionOf[BatchOf[i]]] \in Nat
      OBVIOUS
    <3>2. QED
      BY <3>1, ClaimPendType
  <2>3. TypeOK'
    BY <1>6, <2>2 DEF SelectQueued
  <2>4. ClaimInv'
    BY <1>6, <2>1 DEF SelectQueued
  <2>5. OwnerInv' /\ RowInv' /\ UpdateInv'
    BY <1>6 DEF SelectQueued
  <2>6. QED
    BY <2>3, <2>4, <2>5
<1>7. ASSUME NEW p \in Procs, LoseClaim(p) PROVE SafeInv'
  BY <1>7, NoPendType DEF LoseClaim
<1>8. ASSUME NEW p \in Procs, WinClaim(p) PROVE SafeInv'
  BY <1>8, NoPendType DEF WinClaim, IndexFree, Running, Bump, Pend, Number
<1>9. ASSUME NEW p \in Procs, StartRun(p) PROVE SafeInv'
  BY <1>9 DEF StartRun
<1>10. ASSUME NEW p \in Procs, SyncRepo(p) PROVE SafeInv'
  BY <1>10 DEF SyncRepo
<1>11. ASSUME NEW p \in Procs, PushImage(p) PROVE SafeInv'
  BY <1>11 DEF PushImage
<1>12. ASSUME NEW p \in Procs, PublishSuccess(p) PROVE SafeInv'
  BY <1>12 DEF PublishSuccess, PublishStatus
<1>13. ASSUME NEW p \in Procs, PublishFailure(p) PROVE SafeInv'
  BY <1>13 DEF PublishFailure, PublishStatus
<1>14. ASSUME NEW p \in Procs, ReadBatch(p) PROVE SafeInv'
  <2> DEFINE b == BatchOf[job[p]]
             now == Aggregate(Statuses(b))
             read == [wasTerminal  |-> batchStatus[b] \in Terminal,
                      dirty        |-> batchStatus[b] # now,
                      undocumented |-> now = "success" /\ b \notin documented,
                      now          |-> now,
                      from         |-> bumpedFrom[b],
                      number       |-> version[VersionOf[b]]]
  <2>1. job[p] \in Images
    BY <1>14 DEF ReadBatch
  <2>2. now \in BatchStatus \ {"none"}
    BY AggregateType
  <2>3. now = "success" => AllSucceeded(b)
    <3>1. now = "success" => Statuses(b) = {"success"}
      BY AggregateType
    <3>2. QED
      BY <3>1, StatusesSuccess
  <2> HIDE DEF now
  <2>4. read \in Pend /\ read.now = now /\ (read.undocumented => now = "success")
    <3>1. read \in Pend
      BY <2>1, <2>2 DEF Pend, Number
    <3>2. read.now = now
      OBVIOUS
    <3>3. read.undocumented = (now = "success" /\ b \notin documented)
      OBVIOUS
    <3>4. QED
      BY <3>1, <3>2, <3>3
  <2>5. pend' = [pend EXCEPT ![p] = read] /\ UNCHANGED <<dbVars, finishNotices, job, current, boundVars>>
    BY <1>14 DEF ReadBatch, Documents, now
  <2> HIDE DEF read
  <2>6. pc' \in [Procs -> Pcs] /\ pc'[p] \in {"drafting", "updating"}
        /\ \A q \in Procs \ {p} : pc'[q] = pc[q]
    BY <1>14 DEF ReadBatch
  <2>7. TypeOK'
    BY <2>4, <2>5, <2>6
  <2>8. ClaimInv' /\ OwnerInv' /\ RowInv'
    <3>1. UNCHANGED <<status, stale, batchStatus, job>>
      BY <2>5
    <3>2. \A q \in Procs : /\ (Owns(q))' => Owns(q)
                           /\ pc'[q] = "claiming" => pc[q] = "claiming"
      BY <2>6
    <3>3. ClaimInv'
      BY <3>1, <3>2
    <3>4. OwnerInv'
      <4> HIDE DEF Owns
      <4> QED
        BY <3>1, <3>2
    <3>5. RowInv'
      BY <3>1
    <3>6. QED
      BY <3>3, <3>4, <3>5
  <2>9. UpdateInv'
    <3>1. pend'[p].now = now /\ (pend'[p].undocumented => now = "success")
      BY <2>4, <2>5
    <3>2. \A q \in Procs \ {p} : pend'[q] = pend[q]
      BY <2>5
    <3>3. UNCHANGED <<status, documented, job>>
      BY <2>5
    <3>4. QED
      BY <2>1, <2>2, <2>3, <2>6, <3>1, <3>2, <3>3
  <2>10. QED
    BY <2>7, <2>8, <2>9
<1>15. ASSUME NEW p \in Procs, DraftDescription(p) PROVE SafeInv'
  BY <1>15 DEF DraftDescription
<1>16. ASSUME NEW p \in Procs, DraftRaises(p) PROVE SafeInv'
  <2> DEFINE clean == [pend[p] EXCEPT !.dirty = FALSE]
  <2>1. /\ clean \in Pend
        /\ clean.now = pend[p].now
        /\ clean.undocumented = pend[p].undocumented
    BY CleanPendType
  <2>2. pend' = [pend EXCEPT ![p] = clean]
    BY <1>16 DEF DraftRaises
  <2> HIDE DEF clean
  <2>3. /\ batchStatus' \in [Batches -> BatchStatus]
        /\ \A b \in Batches : batchStatus'[b] \in {batchStatus[b], pend[p].now}
    BY <1>16, FlushType DEF DraftRaises
  <2>4. /\ pc[p] = "drafting" /\ pc' = [pc EXCEPT ![p] = "updating"]
        /\ UNCHANGED <<status, stale, bumpedFrom, version, documented, finishNotices,
                       job, current, crashes, dbErrors, edits>>
    BY <1>16 DEF DraftRaises
  <2>5. TypeOK'
    BY <2>1, <2>2, <2>3, <2>4
  <2>6. ClaimInv' /\ OwnerInv' /\ RowInv' /\ UpdateInv'
    BY <2>1, <2>2, <2>3, <2>4
  <2>7. QED
    BY <2>5, <2>6
<1>17. ASSUME NEW p \in Procs, CommitBatch(p) PROVE SafeInv'
  <2>1. /\ batchStatus' \in [Batches -> BatchStatus]
        /\ \A b \in Batches : batchStatus'[b] \in {batchStatus[b], pend[p].now}
    BY <1>17, FlushType DEF CommitBatch
  <2>2. version' \in [Versions -> Nat]
    BY <1>17 DEF CommitBatch, Restores
  <2>3. documented' \subseteq Batches
    BY <1>17 DEF CommitBatch
  <2>4. finishNotices' \in [Batches -> Nat]
    BY <1>17 DEF CommitBatch
  <2>5. /\ \E where \in {"poll", "claim"} : pc' = [pc EXCEPT ![p] = where]
        /\ job' = [job EXCEPT ![p] = NoImage]
        /\ current' = [current EXCEPT ![p] = NoImage]
        /\ pend' = [pend EXCEPT ![p] = NoPend]
        /\ UNCHANGED <<status, stale, bumpedFrom, crashes, dbErrors, edits>>
    BY <1>17 DEF CommitBatch, Release, AfterUpdate
  <2>6. TypeOK'
    BY <2>1, <2>2, <2>3, <2>4, <2>5, NoPendType
  <2>7. ClaimInv' /\ OwnerInv'
    BY <2>5
  <2>8. RowInv'
    BY <1>17, <2>1, <2>5 DEF CommitBatch
  <2>9. UpdateInv'
    BY <1>17, <2>5 DEF CommitBatch
  <2>10. QED
    BY <2>6, <2>7, <2>8, <2>9
<1>18. ASSUME NEW p \in Procs, DuplicateDocumentation(p) PROVE SafeInv'
  BY <1>18, NoPendType DEF DuplicateDocumentation, Release, AfterException
<1>19. ASSUME NEW i \in Images, HeartbeatExpires(i) PROVE SafeInv'
  BY <1>19 DEF HeartbeatExpires, Running
<1>20. ASSUME NEW p \in Procs, HeartbeatTick(p) PROVE SafeInv'
  BY <1>20 DEF HeartbeatTick
<1>21. ASSUME NEW p \in Procs, Crash(p) PROVE SafeInv'
  BY <1>21, NoPendType DEF Crash, Release
<1>22. ASSUME NEW p \in Procs, LoseFailure(p) \/ DbError(p) PROVE SafeInv'
  <2>1. CASE LoseFailure(p)
    BY <2>1 DEF LoseFailure
  <2>2. CASE DbError(p)
    BY <2>2, NoPendType DEF DbError, Release, AfterException
  <2>3. QED
    BY <1>22, <2>1, <2>2
<1>23. CASE UNCHANGED vars
  BY <1>23 DEF vars
<1>24. QED
  BY <1>1, <1>2, <1>3, <1>4, <1>5, <1>6, <1>7, <1>8, <1>9, <1>10, <1>11, <1>12,
     <1>13, <1>14, <1>15, <1>16, <1>17, <1>18, <1>19, <1>20, <1>21, <1>22, <1>23
     DEF Next, PollThread
LEMMA AlwaysSafe == Spec => []SafeInv
<1>1. Init => SafeInv
  BY InitSafe
<1>2. SafeInv /\ [Next]_vars => SafeInv'
  BY StepSafe
<1>3. QED
  BY <1>1, <1>2, PTL DEF Spec

-----------------------------------------------------------------------------
(* The rows and locals of the build workers keep their types. *)
THEOREM TypeCorrect == Spec => []TypeOK
<1>1. SafeInv => TypeOK
  BY DEF SafeInv
<1>2. QED
  BY <1>1, AlwaysSafe, PTL

(* However late heartbeats are, one row is 'running' and no ImageBuild is  *)
(* worked on by two processes: a reaped build is never claimed again.      *)
THEOREM OneOwner == Spec => []OneOwnerPerImage
<1>1. SafeInv => OneOwnerPerImage
  BY DEF SafeInv, OwnerInv, RowInv, OneOwnerPerImage, Running
<1>2. QED
  BY <1>1, AlwaysSafe, PTL

(* A documented batch succeeded entirely, whatever was reaped or crashed   *)
(* between reading its images and committing the documentation.            *)
THEOREM OnlySuccessIsDocumented == Spec => []DocumentedBatchesSucceeded
<1>1. SafeInv => DocumentedBatchesSucceeded
  BY DEF SafeInv, UpdateInv, AllSucceeded, ImagesOf, Statuses, DocumentedBatchesSucceeded
<1>2. QED
  BY <1>1, AlwaysSafe, PTL

(* The steps that write an image's status, and what they write over. *)
LEMMA StatusWrites ==
  ASSUME SafeInv, [Next]_vars, NEW i \in Images, status'[i] # status[i]
  PROVE  \/ status[i] = "none" /\ status'[i] = "queued"
         \/ status[i] = "queued" /\ status'[i] = "running"
         \/ i \in stale /\ status[i] = "running" /\ status'[i] = "failed"
         \/ \E p \in Procs : /\ Owns(p) /\ job[p] = i
                              /\ status[i] \in {"running", "failed"} /\ status'[i] \in Done
<1> USE DEF SafeInv, TypeOK, dbVars, procVars, boundVars
<1>1. ASSUME NEW b \in Batches, EnqueueBuildBatch(b)
      PROVE  status[i] = "none" /\ status'[i] = "queued"
  BY <1>1 DEF EnqueueBuildBatch, RowInv, ImagesOf
<1>2. ASSUME NEW p \in Procs, NEW j \in Images, ReapStaleRunningJob(p, j)
      PROVE  i \in stale /\ status[i] = "running" /\ status'[i] = "failed"
  BY <1>2 DEF ReapStaleRunningJob, Reapable, Running, RowInv
<1>3. ASSUME NEW p \in Procs, WinClaim(p)
      PROVE  status[i] = "queued" /\ status'[i] = "running"
  BY <1>3 DEF WinClaim, ClaimInv
<1>4. ASSUME NEW p \in Procs, PublishSuccess(p) \/ PublishFailure(p)
      PROVE  /\ Owns(p) /\ job[p] = i
             /\ status[i] \in {"running", "failed"} /\ status'[i] \in Done
  BY <1>4 DEF PublishSuccess, PublishFailure, PublishStatus, OwnerInv, Owns, OwnerPcs, Done
<1>5. ASSUME NEW p \in Procs, PollThread(p)
      PROVE  \/ \E j \in Images : ReapStaleRunningJob(p, j)
             \/ WinClaim(p)
             \/ PublishSuccess(p) \/ PublishFailure(p)
  BY <1>5 DEF PollThread, NothingToReap, NothingToClaim, SelectQueued, LoseClaim, StartRun,
     SyncRepo, PushImage, ReadBatch, DraftDescription, DraftRaises, CommitBatch,
     DuplicateDocumentation
<1>6. \/ \E b \in Batches : EnqueueBuildBatch(b)
      \/ \E p \in Procs : PollThread(p)
  BY DEF Next, vars, EditVersion, HeartbeatExpires, HeartbeatTick, Crash, LoseFailure, DbError
<1>7. QED
  BY <1>1, <1>2, <1>3, <1>4, <1>5, <1>6

(* Outcomes: a success is never overwritten, a failure only by the owner   *)
(* the reaper took for dead, and nothing is queued or claimed twice.       *)
THEOREM OutcomesFinal == Spec => OutcomesAreFinal
<1>1. SafeInv /\ [Next]_vars =>
        [\A i \in Images :
           /\ status[i] = "success" => status'[i] = "success"
           /\ status[i] = "failed" => status'[i] \in Done
           /\ status[i] = "running" => status'[i] \in {"running"} \union Done]_vars
  BY StatusWrites DEF Done
<1>2. QED
  BY <1>1, AlwaysSafe, PTL DEF Spec, OutcomesAreFinal

-----------------------------------------------------------------------------
(* With heartbeats on time, an owner's row is running and fresh. *)

FreshInv == \A p \in Procs : Owns(p) => status[job[p]] = "running" /\ job[p] \notin stale

LEMMA StepFresh ==
  ASSUME ~LateHeartbeats
  PROVE  SafeInv /\ FreshInv /\ [Next]_vars => FreshInv'
<1> SUFFICES ASSUME SafeInv, FreshInv, [Next]_vars, NEW q \in Procs, Owns(q)'
             PROVE  (status[job[q]] = "running" /\ job[q] \notin stale)'
  BY DEF FreshInv
<1> USE DEF SafeInv, TypeOK, FreshInv, OwnerInv, RowInv, ClaimInv, Owns, OwnerPcs,
            dbVars, procVars, boundVars
<1>1. ASSUME NEW b \in Batches, EnqueueBuildBatch(b)
      PROVE  (status[job[q]] = "running" /\ job[q] \notin stale)'
  BY <1>1 DEF EnqueueBuildBatch, ImagesOf
<1>2. ASSUME NEW p \in Procs, NEW i \in Images, ReapStaleRunningJob(p, i)
      PROVE  (status[job[q]] = "running" /\ job[q] \notin stale)'
  BY <1>2 DEF ReapStaleRunningJob, Reapable, Running
<1>3. ASSUME NEW p \in Procs, WinClaim(p)
      PROVE  (status[job[q]] = "running" /\ job[q] \notin stale)'
  BY <1>3 DEF WinClaim
<1>4. ASSUME NEW p \in Procs, PublishSuccess(p) \/ PublishFailure(p)
      PROVE  (status[job[q]] = "running" /\ job[q] \notin stale)'
  BY <1>4 DEF PublishSuccess, PublishFailure, PublishStatus
<1>5. ASSUME NEW i \in Images, HeartbeatExpires(i)
      PROVE  (status[job[q]] = "running" /\ job[q] \notin stale)'
  BY <1>5 DEF HeartbeatExpires, Running
<1>6. ASSUME NEW p \in Procs,
             \/ NothingToReap(p) \/ NothingToClaim(p) \/ LoseClaim(p) \/ StartRun(p)
             \/ SyncRepo(p) \/ PushImage(p) \/ ReadBatch(p) \/ DraftDescription(p)
             \/ DraftRaises(p) \/ CommitBatch(p) \/ DuplicateDocumentation(p)
             \/ HeartbeatTick(p) \/ Crash(p) \/ LoseFailure(p) \/ DbError(p)
             \/ \E i \in Images : SelectQueued(p, i)
      PROVE  (status[job[q]] = "running" /\ job[q] \notin stale)'
  <2>1. CASE NothingToReap(p) \/ NothingToClaim(p) \/ \E i \in Images : SelectQueued(p, i)
    <3>1. CASE NothingToReap(p) \/ NothingToClaim(p)
      BY <3>1 DEF NothingToReap, NothingToClaim
    <3>2. ASSUME NEW i \in Images, SelectQueued(p, i)
          PROVE  (status[job[q]] = "running" /\ job[q] \notin stale)'
      <4>1. /\ pc' = [pc EXCEPT ![p] = "claiming"] /\ job' = [job EXCEPT ![p] = i]
            /\ status' = status /\ stale' = stale
        BY <3>2 DEF SelectQueued
      <4>2. QED
        BY <4>1
    <3>3. QED
      BY <2>1, <3>1, <3>2
  <2>2. CASE StartRun(p) \/ SyncRepo(p) \/ PushImage(p)
    BY <2>2 DEF StartRun, SyncRepo, PushImage
  <2>3. CASE ReadBatch(p) \/ DraftDescription(p) \/ DraftRaises(p)
    BY <2>3 DEF ReadBatch, DraftDescription, DraftRaises
  <2>4. CASE LoseClaim(p) \/ HeartbeatTick(p) \/ LoseFailure(p)
    BY <2>4 DEF LoseClaim, HeartbeatTick, LoseFailure
  <2>5. CASE CommitBatch(p) \/ DuplicateDocumentation(p) \/ Crash(p) \/ DbError(p)
    <3>1. /\ status' = status /\ stale' = stale
          /\ \E where \in {"poll", "claim", "dead"} : Release(p, where)
      BY <2>5 DEF CommitBatch, DuplicateDocumentation, Crash, DbError, AfterException, AfterUpdate
    <3>2. QED
      BY <3>1 DEF Release
  <2>6. QED
    BY <1>6, <2>1, <2>2, <2>3, <2>4, <2>5
<1>7. ASSUME (\E v \in Versions, n \in EditNumbers : EditVersion(v, n)) \/ UNCHANGED vars
      PROVE  (status[job[q]] = "running" /\ job[q] \notin stale)'
  BY <1>7 DEF EditVersion, vars
<1>8. QED
  BY <1>1, <1>2, <1>3, <1>4, <1>5, <1>6, <1>7 DEF Next, PollThread

LEMMA AlwaysFresh ==
  ASSUME ~LateHeartbeats PROVE Spec => [](SafeInv /\ FreshInv)
<1>1. Init => FreshInv
  BY DEF Init, FreshInv, Owns, OwnerPcs
<1>2. SafeInv /\ FreshInv /\ [Next]_vars => FreshInv'
  BY StepFresh
<1>3. QED
  BY <1>1, <1>2, AlwaysSafe, PTL DEF Spec

(* Builds are serialized over the fleet as long as heartbeats are on time. *)
THEOREM OneBuilderAtATime ==
  ASSUME ~LateHeartbeats PROVE Spec => []OneBuilder
<1>1. SafeInv /\ FreshInv => OneBuilder
  BY DEF SafeInv, FreshInv, OwnerInv, RowInv, OneBuilder
<1>2. QED
  BY <1>1, AlwaysFresh, PTL

(* No outcome is overwritten as long as heartbeats are on time. *)
THEOREM DoneStaysDone ==
  ASSUME ~LateHeartbeats PROVE Spec => DoneIsDone
<1>1. SafeInv /\ FreshInv /\ [Next]_vars =>
        [\A i \in Images : status[i] \in Done => status'[i] = status[i]]_vars
  BY StatusWrites DEF Done, FreshInv
<1>2. QED
  BY <1>1, AlwaysFresh, PTL DEF Spec, DoneIsDone
-----------------------------------------------------------------------------
(* The queue implements SingleFlight as long as heartbeats are on time. *)

PhaseMap  == [i \in Images |-> PhaseOf[status[i]]]
WorkerSet == {p \in Procs : Owns(p)}

(* Steps that neither touch a status nor start or end an ownership. *)
LEMMA QuietStep ==
  ASSUME NEW p \in Procs,
         \/ NothingToReap(p) \/ NothingToClaim(p) \/ LoseClaim(p) \/ StartRun(p)
         \/ SyncRepo(p) \/ PushImage(p) \/ ReadBatch(p) \/ DraftDescription(p)
         \/ DraftRaises(p) \/ CommitBatch(p) \/ DuplicateDocumentation(p)
         \/ \E i \in Images : SelectQueued(p, i),
         SafeInv
  PROVE  status' = status /\ WorkerSet' = WorkerSet
<1> USE DEF SafeInv, TypeOK, dbVars, WorkerSet, Owns, OwnerPcs
<1>1. CASE NothingToReap(p) \/ NothingToClaim(p) \/ LoseClaim(p)
  BY <1>1 DEF NothingToReap, NothingToClaim, LoseClaim
<1>2. CASE StartRun(p) \/ SyncRepo(p) \/ PushImage(p)
  BY <1>2 DEF StartRun, SyncRepo, PushImage
<1>3. CASE ReadBatch(p)
  BY <1>3 DEF ReadBatch
<1>4. CASE DraftDescription(p)
  BY <1>4 DEF DraftDescription
<1>5. CASE DraftRaises(p)
  BY <1>5 DEF DraftRaises
<1>6. CASE CommitBatch(p)
  BY <1>6 DEF CommitBatch, Release, AfterUpdate
<1>7. CASE DuplicateDocumentation(p)
  BY <1>7 DEF DuplicateDocumentation, Release, AfterException
<1>8. CASE \E i \in Images : SelectQueued(p, i)
  BY <1>8 DEF SelectQueued
<1>9. QED
  BY <1>1, <1>2, <1>3, <1>4, <1>5, <1>6, <1>7, <1>8

LEMMA FlightStep ==
  ASSUME SafeInv, FreshInv, [Next]_vars, ~LateHeartbeats
  PROVE  [Flight!Next]_(Flight!vars)
<1> USE DEF Flight!vars, Flight!Next
<1>1. ASSUME NEW b \in Batches, EnqueueBuildBatch(b)
      PROVE  Flight!Submit(ImagesOf(b))
  BY <1>1 DEF Flight!Submit, EnqueueBuildBatch, SafeInv, RowInv, TypeOK, ImagesOf, PhaseOf,
     procVars, Owns
<1>2. ASSUME NEW p \in Procs, NEW i \in Images, ReapStaleRunningJob(p, i)
      PROVE  Flight!Abandon(i)
  <2>1. i \in stale /\ status[i] = "running"
    BY <1>2 DEF ReapStaleRunningJob, Reapable, Running, SafeInv, RowInv
  <2>2. \A q \in Procs : ~Owns(q)
    BY <2>1 DEF SafeInv, RowInv, OwnerInv, FreshInv
  <2>3. \A q \in Procs : ~Owns(q)'
    BY <1>2, <2>2 DEF ReapStaleRunningJob, Reapable, Running, SafeInv, TypeOK, Owns, OwnerPcs
  <2>4. status \in [Images -> ImageStatus] /\ status' = [status EXCEPT ![i] = "failed"]
    BY <1>2 DEF ReapStaleRunningJob, Reapable, Running, SafeInv, TypeOK
  <2>5. WorkerSet = {} /\ WorkerSet' = {}
    BY <2>2, <2>3 DEF WorkerSet
  <2>6. PhaseMap[i] = "active"
    BY <2>1, <2>4 DEF PhaseMap, PhaseOf
  <2>7. PhaseMap' = [PhaseMap EXCEPT ![i] = "failed"]
    BY <2>4 DEF PhaseMap, PhaseOf
  <2>8. QED
    BY <2>5, <2>6, <2>7 DEF Flight!Abandon, WorkerSet, PhaseMap
<1>3. ASSUME NEW p \in Procs, NEW i \in Images, i = job[p], WinClaim(p)
      PROVE  Flight!Start(p, i)
  <2>1. /\ status[i] = "queued" /\ \A k \in Images : status[k] # "running"
        /\ \A q \in Procs : ~Owns(q)
    BY <1>3 DEF WinClaim, IndexFree, Running, SafeInv, ClaimInv, OwnerInv, FreshInv
  <2>2. /\ status \in [Images -> ImageStatus]
        /\ status' = [status EXCEPT ![i] = "running"]
        /\ pc \in [Procs -> Pcs] /\ pc' = [pc EXCEPT ![p] = "announce"]
    BY <1>3 DEF WinClaim, SafeInv, TypeOK
  <2>3. WorkerSet = {} /\ WorkerSet' = {p}
    BY <2>1, <2>2 DEF WorkerSet, Owns, OwnerPcs
  <2>4. PhaseMap[i] = "waiting" /\ \A k \in Images : PhaseMap[k] # "active"
    BY <2>1, <2>2 DEF PhaseMap, PhaseOf, ImageStatus
  <2>5. PhaseMap' = [PhaseMap EXCEPT ![i] = "active"]
    BY <2>2 DEF PhaseMap, PhaseOf
  <2>6. QED
    BY <2>3, <2>4, <2>5 DEF Flight!Start, WorkerSet, PhaseMap
<1>4. ASSUME NEW p \in Procs, PublishSuccess(p)
      PROVE  Flight!Finish(job[p], "succeeded")
  BY SMTT(30), <1>4 DEF Flight!Finish, PublishSuccess, PublishStatus, SafeInv, OwnerInv, RowInv, TypeOK,
     PhaseOf, FreshInv, Owns, OwnerPcs
<1>5. ASSUME NEW p \in Procs, PublishFailure(p)
      PROVE  Flight!Finish(job[p], "failed")
  BY SMTT(30), <1>5 DEF Flight!Finish, PublishFailure, PublishStatus, SafeInv, OwnerInv, RowInv, TypeOK,
     PhaseOf, FreshInv, Owns, OwnerPcs
<1>6. ASSUME NEW p \in Procs, Crash(p) \/ LoseFailure(p) \/ DbError(p)
      PROVE  Flight!Vanish \/ (status' = status /\ WorkerSet' = WorkerSet)
  <2>1. /\ status' = status
        /\ \E where \in {"poll", "dead", "finishing"} : pc' = [pc EXCEPT ![p] = where]
    BY <1>6 DEF Crash, LoseFailure, DbError, AfterException, Release, dbVars
  <2>2. CASE Owns(p)
    BY <2>1, <2>2 DEF Flight!Vanish, SafeInv, OwnerInv, RowInv, TypeOK, FreshInv,
       Owns, OwnerPcs
  <2>3. CASE ~Owns(p)
    BY <2>1, <2>3 DEF SafeInv, TypeOK, Owns, OwnerPcs, WorkerSet
  <2>4. QED
    BY <2>2, <2>3
<1>7. ASSUME \/ \E v \in Versions, n \in EditNumbers : EditVersion(v, n)
             \/ \E i \in Images : HeartbeatExpires(i)
             \/ \E p \in Procs : HeartbeatTick(p)
             \/ UNCHANGED vars
      PROVE  status' = status /\ WorkerSet' = WorkerSet
  BY <1>7 DEF EditVersion, HeartbeatExpires, HeartbeatTick, vars, procVars, dbVars, WorkerSet, Owns
<1>8. CASE status' = status /\ WorkerSet' = WorkerSet
  BY <1>8 DEF WorkerSet
<1>9. ASSUME NEW p \in Procs, PollThread(p)
      PROVE  Flight!Next \/ (status' = status /\ WorkerSet' = WorkerSet)
  <2>1. Owns(p) \/ pc[p] = "claiming" => job[p] \in Images
    BY DEF SafeInv, OwnerInv, ClaimInv
  <2>2. CASE \E i \in Images : ReapStaleRunningJob(p, i)
    BY <1>2, <2>2
  <2>3. CASE WinClaim(p)
    <3>1. PICK i \in Images : i = job[p]
      BY <2>1, <2>3 DEF WinClaim
    <3>2. Flight!Start(p, i)
      BY <1>3, <2>3, <3>1
    <3>3. QED
      BY <3>2
  <2>4. CASE PublishSuccess(p)
    BY <1>4, <2>1, <2>4 DEF PublishSuccess, Owns, OwnerPcs
  <2>5. CASE PublishFailure(p)
    BY <1>5, <2>1, <2>5 DEF PublishFailure, Owns, OwnerPcs
  <2>6. QED
    BY <1>9, <2>2, <2>3, <2>4, <2>5, QuietStep DEF PollThread
<1>10. ASSUME NEW b \in Batches, EnqueueBuildBatch(b)
       PROVE  Flight!Next
  <2>1. ImagesOf(b) \in SUBSET Images
    BY DEF ImagesOf
  <2>2. QED
    BY <1>1, <1>10, <2>1
<1>11. ASSUME NEW p \in Procs, Crash(p) \/ LoseFailure(p) \/ DbError(p)
       PROVE  Flight!Next \/ (status' = status /\ WorkerSet' = WorkerSet)
  BY <1>6, <1>11
<1>12. QED
  BY <1>7, <1>8, <1>9, <1>10, <1>11 DEF Next

(* With heartbeats on time the queue of builds implements SingleFlight:    *)
(* _claim_next_job, the reaper and a crash each start, finish or give up   *)
(* the one job that is being worked on.                                    *)
THEOREM QueueIsSingleFlight ==
  ASSUME ~LateHeartbeats PROVE Spec => ImplementsSingleFlight
<1>1. Init => Flight!Init
  BY DEF Init, Flight!Init, PhaseOf, Owns, OwnerPcs
<1>2. SafeInv /\ FreshInv /\ [Next]_vars => [Flight!Next]_(Flight!vars)
  BY FlightStep
<1>3. QED
  BY <1>1, <1>2, AlwaysFresh, PTL DEF Spec, ImplementsSingleFlight, Flight!Spec

-----------------------------------------------------------------------------
(* The Version is bumped once per batch, as long as no whole build fits    *)
(* inside another process's transaction.                                   *)

(* A build that has just begun: its row is running and fresh, and its      *)
(* owner, if it still has one, has not passed the sync.                    *)
JustBegun(i) ==
  /\ status[i] = "running" /\ i \notin stale
  /\ \A q \in Procs : Owns(q) /\ job[q] = i => pc[q] \in {"announce", "syncing"}

(* A claim is computed from the batch as it is, or another claim has won.  *)
BumpInv ==
  \A p \in Procs :
    pc[p] = "claiming" => \/ pend[p].from = bumpedFrom[BatchOf[job[p]]]
                          \/ \E i \in Images : JustBegun(i)

(* While a short transaction is open, a build that has begun stays there.  *)
LEMMA BegunStays ==
  ASSUME ~SlowTransactions, SafeInv, [Next]_vars,
         NEW s \in Procs, pc[s] \in ShortPcs, NEW i \in Images, JustBegun(i)
  PROVE  JustBegun(i)'
<1> USE DEF SafeInv, TypeOK, JustBegun, Owns, OwnerPcs, dbVars, procVars, boundVars
<1>1. ASSUME NEW b \in Batches, EnqueueBuildBatch(b) PROVE JustBegun(i)'
  BY <1>1 DEF EnqueueBuildBatch, RowInv, ImagesOf
<1>2. CASE (\E v \in Versions, n \in EditNumbers : EditVersion(v, n)) \/ UNCHANGED vars
  BY <1>2 DEF EditVersion, vars
<1>3. ASSUME NEW p \in Procs, NEW j \in Images, ReapStaleRunningJob(p, j) PROVE JustBegun(i)'
  BY <1>3 DEF ReapStaleRunningJob, Reapable
<1>4. ASSUME NEW p \in Procs, NEW j \in Images, SelectQueued(p, j) PROVE JustBegun(i)'
  <2>1. pc' = [pc EXCEPT ![p] = "claiming"] /\ job' = [job EXCEPT ![p] = j] /\ UNCHANGED dbVars
    BY <1>4 DEF SelectQueued
  <2>2. QED
    BY <2>1
<1>5. ASSUME NEW p \in Procs, NothingToReap(p) \/ NothingToClaim(p) \/ LoseClaim(p) PROVE JustBegun(i)'
  BY <1>5 DEF NothingToReap, NothingToClaim, LoseClaim
<1>6. ASSUME NEW p \in Procs, WinClaim(p) PROVE JustBegun(i)'
  BY <1>6 DEF WinClaim, IndexFree, Running
<1>7. ASSUME NEW p \in Procs, StartRun(p) \/ PushImage(p) PROVE JustBegun(i)'
  BY <1>7 DEF StartRun, PushImage
<1>8. ASSUME NEW p \in Procs, SyncRepo(p) PROVE JustBegun(i)'
  BY <1>8 DEF SyncRepo, Quick
<1>9. ASSUME NEW p \in Procs, PublishSuccess(p) \/ PublishFailure(p) PROVE JustBegun(i)'
  BY <1>9 DEF PublishSuccess, PublishFailure, PublishStatus
<1>10. ASSUME NEW p \in Procs, ReadBatch(p) \/ DraftDescription(p) \/ DraftRaises(p)
       PROVE JustBegun(i)'
  <2>1. \E w \in {"drafting", "updating"} : pc' = [pc EXCEPT ![p] = w]
    BY <1>10 DEF ReadBatch, DraftDescription, DraftRaises
  <2>2. UNCHANGED <<status, stale, job>>
    BY <1>10 DEF ReadBatch, DraftDescription, DraftRaises
  <2>3. QED
    BY <2>1, <2>2
<1>11. ASSUME NEW p \in Procs, CommitBatch(p) \/ DuplicateDocumentation(p) \/ Crash(p) \/ DbError(p)
       PROVE JustBegun(i)'
  <2>1. /\ UNCHANGED <<status, stale>>
        /\ \E where \in {"poll", "claim", "dead"} : Release(p, where)
    BY <1>11 DEF CommitBatch, DuplicateDocumentation, Crash, DbError, AfterException, AfterUpdate
  <2>2. QED
    BY <2>1 DEF Release
<1>12. ASSUME NEW j \in Images, HeartbeatExpires(j) PROVE JustBegun(i)'
  BY <1>12 DEF HeartbeatExpires, Quick
<1>13. ASSUME NEW p \in Procs, HeartbeatTick(p) \/ LoseFailure(p) PROVE JustBegun(i)'
  BY <1>13 DEF HeartbeatTick, LoseFailure
<1>14. QED
  BY <1>1, <1>2, <1>3, <1>4, <1>5, <1>6, <1>7, <1>8, <1>9, <1>10, <1>11, <1>12, <1>13
     DEF Next, PollThread

(* The claim that wins has just begun. *)
LEMMA WinnerBegins ==
  ASSUME SafeInv, NEW p \in Procs, WinClaim(p)
  PROVE  \E i \in Images : i = job[p] /\ JustBegun(i)'
  BY DEF WinClaim, SafeInv, TypeOK, ClaimInv, OwnerInv, RowInv, JustBegun, Owns, OwnerPcs

(* What a claimer is about to commit stays as it was read.                 *)
LEMMA ClaimerStays ==
  ASSUME SafeInv, [Next]_vars, NEW q \in Procs, pc'[q] = "claiming", \A i \in Images : ~SelectQueued(q, i)
  PROVE  pc[q] = "claiming" /\ pend'[q] = pend[q] /\ job'[q] = job[q]
<1> DEFINE Same == pc[q] = "claiming" /\ pend'[q] = pend[q] /\ job'[q] = job[q]
<1> USE DEF SafeInv, TypeOK, dbVars, procVars
<1>1. ASSUME NEW p \in Procs, NEW i \in Images, ReapStaleRunningJob(p, i) \/ SelectQueued(p, i)
      PROVE  Same
  <2>1. pc' = [pc EXCEPT ![p] = pc'[p]] /\ job' = [job EXCEPT ![p] = job'[p]] /\ pend' = [pend EXCEPT ![p] = pend'[p]]
    BY <1>1 DEF ReapStaleRunningJob, SelectQueued
  <2>2. p # q
    BY <1>1 DEF ReapStaleRunningJob
  <2>3. QED
    BY <2>1, <2>2
<1>2. ASSUME NEW p \in Procs, ReadBatch(p) PROVE Same
  <2>1. /\ pc' = [pc EXCEPT ![p] = pc'[p]] /\ UNCHANGED job /\ pend' = [pend EXCEPT ![p] = pend'[p]]
        /\ pc'[p] # "claiming"
    BY <1>2 DEF ReadBatch
  <2>2. QED
    BY <2>1
<1>3. ASSUME NEW p \in Procs,
             \/ NothingToReap(p) \/ NothingToClaim(p) \/ LoseClaim(p) \/ WinClaim(p) \/ StartRun(p)
             \/ SyncRepo(p) \/ PushImage(p) \/ PublishSuccess(p) \/ PublishFailure(p)
      PROVE  Same
  BY <1>3 DEF NothingToReap, NothingToClaim, LoseClaim, WinClaim, StartRun, SyncRepo, PushImage,
              PublishSuccess, PublishFailure, PublishStatus
<1>4. ASSUME NEW p \in Procs,
             \/ DraftDescription(p) \/ DraftRaises(p) \/ CommitBatch(p) \/ DuplicateDocumentation(p)
             \/ Crash(p) \/ LoseFailure(p) \/ DbError(p) \/ HeartbeatTick(p)
      PROVE  Same
  BY <1>4 DEF DraftDescription, DraftRaises, CommitBatch, DuplicateDocumentation, Crash, LoseFailure, DbError,
              HeartbeatTick, Release, AfterUpdate, AfterException
<1>5. CASE \/ \E b \in Batches : EnqueueBuildBatch(b)
           \/ \E v \in Versions, n \in EditNumbers : EditVersion(v, n)
           \/ \E i \in Images : HeartbeatExpires(i)
           \/ UNCHANGED vars
  BY <1>5 DEF vars, EnqueueBuildBatch, EditVersion, HeartbeatExpires
<1>6. QED
  BY <1>1, <1>2, <1>3, <1>4, <1>5 DEF Next, PollThread

LEMMA StepBump ==
  ASSUME ~SlowTransactions, SafeInv, BumpInv, [Next]_vars
  PROVE  BumpInv'
<1> SUFFICES ASSUME NEW q \in Procs, pc'[q] = "claiming"
             PROVE  \/ pend'[q].from = bumpedFrom'[BatchOf[job'[q]]]
                    \/ \E i \in Images : JustBegun(i)'
  BY DEF BumpInv
<1>1. ASSUME NEW p \in Procs, WinClaim(p) PROVE \E i \in Images : JustBegun(i)'
  BY <1>1, WinnerBegins
<1>2. ASSUME NEW i \in Images, SelectQueued(q, i) PROVE pend'[q].from = bumpedFrom'[BatchOf[job'[q]]]
  <2> DEFINE read == [NoPend EXCEPT !.from = bumpedFrom[BatchOf[i]],
                                    !.number = version[VersionOf[BatchOf[i]]]]
  <2>1. read.from = bumpedFrom[BatchOf[i]]
    BY DEF NoPend
  <2>2. pend' = [pend EXCEPT ![q] = read] /\ job' = [job EXCEPT ![q] = i] /\ UNCHANGED bumpedFrom
    BY <1>2 DEF SelectQueued, dbVars
  <2> HIDE DEF read
  <2>3. QED
    BY <2>1, <2>2 DEF SafeInv, TypeOK
<1>3. CASE /\ \A i \in Images : ~SelectQueued(q, i)
           /\ \A p \in Procs : ~WinClaim(p)
  <2>1. UNCHANGED bumpedFrom
    BY <1>3 DEF Next, vars, PollThread, EnqueueBuildBatch, EditVersion, ReapStaleRunningJob,
       NothingToReap, NothingToClaim, SelectQueued, LoseClaim, StartRun, SyncRepo, PushImage,
       PublishSuccess, PublishFailure, PublishStatus, ReadBatch, DraftDescription, DraftRaises,
       CommitBatch, DuplicateDocumentation, HeartbeatExpires, HeartbeatTick, Crash, LoseFailure,
       DbError, Release, dbVars
  <2>2. pc[q] = "claiming" /\ pend'[q] = pend[q] /\ job'[q] = job[q]
    BY <1>3, ClaimerStays
  <2>3. ASSUME NEW i \in Images, JustBegun(i) PROVE JustBegun(i)'
    BY <2>2, <2>3, BegunStays DEF ShortPcs
  <2>4. QED
    BY <2>1, <2>2, <2>3 DEF BumpInv
<1>4. CASE \E i \in Images : SelectQueued(q, i)
  BY <1>2, <1>4
<1>5. QED
  BY <1>1, <1>3, <1>4

(* The number of a batch stays.                                            *)
LEMMA NumberStays ==
  ASSUME SafeInv, BumpInv, [Next]_vars, NEW b \in Batches, bumpedFrom'[b] # bumpedFrom[b]
  PROVE  bumpedFrom[b] = NoNumber
<1>1. PICK p \in Procs : WinClaim(p)
  BY DEF Next, vars, PollThread, EnqueueBuildBatch, EditVersion, ReapStaleRunningJob,
     NothingToReap, NothingToClaim, SelectQueued, LoseClaim, StartRun, SyncRepo, PushImage,
     PublishSuccess, PublishFailure, PublishStatus, ReadBatch, DraftDescription, DraftRaises,
     CommitBatch, DuplicateDocumentation, HeartbeatExpires, HeartbeatTick, Crash, LoseFailure,
     DbError, Release, dbVars
<1>2. FirstClaim(p) /\ b = BatchOf[job[p]] /\ pc[p] = "claiming" /\ Running = {}
  BY <1>1 DEF WinClaim, IndexFree, SafeInv, TypeOK
<1>3. pend[p].from = bumpedFrom[b]
  BY <1>2 DEF BumpInv, JustBegun, Running
<1>4. QED
  BY <1>2, <1>3 DEF FirstClaim

(* One bump per batch, whichever processes claim its images from which     *)
(* snapshot of it, and whether or not heartbeats are on time.              *)
THEOREM NumberedOnce ==
  ASSUME ~SlowTransactions PROVE Spec => BumpedOncePerBatch
<1>1. Init => BumpInv
  BY DEF Init, BumpInv
<1>2. SafeInv /\ BumpInv /\ [Next]_vars => BumpInv'
  BY StepBump
<1>3. SafeInv /\ BumpInv /\ [Next]_vars =>
        [\A b \in Batches : bumpedFrom[b] # NoNumber => bumpedFrom'[b] = bumpedFrom[b]]_vars
  BY NumberStays
<1>4. QED
  BY <1>1, <1>2, <1>3, AlwaysSafe, PTL DEF Spec, BumpedOncePerBatch

-----------------------------------------------------------------------------
(* The outcome of a batch, with heartbeats on time and quick transactions. *)

Updates(p) == pc[p] \in {"reaped", "finishing", "drafting", "updating"}
HasRead(p) == pc[p] \in {"drafting", "updating"}
BatchIn(p) == BatchOf[job[p]]

(* While a batch is updated, its images that run have just begun; two      *)
(* updates of one batch go on at a time only if one image runs.            *)
UpdaterInv ==
  /\ \A p \in Procs : Updates(p) => job[p] \in Images /\ status[job[p]] \notin {"none", "queued"}
  /\ \A p \in Procs, i \in Images :
       Updates(p) /\ BatchOf[i] = BatchIn(p) /\ status[i] = "running" => JustBegun(i)
  /\ \A p, q \in Procs :
       Updates(p) /\ Updates(q) /\ p # q /\ BatchIn(p) = BatchIn(q) =>
         \E i \in Images : BatchOf[i] = BatchIn(p) /\ status[i] = "running"
  /\ \A p \in Procs : pc[p] = "drafting" => pend[p].undocumented
  /\ \A p \in Procs : HasRead(p) /\ pend[p].undocumented => pend[p].now = "success"

(* What an update has read of the images is what they are, if they are all *)
(* done, and else they are not all done yet.                               *)
ReadInv ==
  /\ \A i \in Images : batchStatus[BatchOf[i]] # "none" => status[i] # "none"
  /\ \A p \in Procs :
       HasRead(p) /\ pend[p].now \in Terminal =>
         AllImagesDone(BatchIn(p)) /\ pend[p].now = Aggregate(Statuses(BatchIn(p)))
  /\ \A p \in Procs : HasRead(p) /\ AllImagesDone(BatchIn(p)) => pend[p].now \in Terminal
  /\ \A b \in Batches : TrueStatus(b)

-----------------------------------------------------------------------------
(* What a step does to batches and to those who update them.               *)

OnlyMoves(p) ==
  \A q \in Procs \ {p} : pc'[q] = pc[q] /\ job'[q] = job[q] /\ pend'[q] = pend[q]

Carries(q) ==
  Updates(q)' => /\ Updates(q) /\ job'[q] = job[q] /\ pend'[q] = pend[q]
                 /\ pc'[q] = pc[q] \/ (pc[q] = "drafting" /\ pc'[q] = "updating")

(* The steps with which p begins to update a batch. *)
Begins(p) ==
  \/ \E i \in Images : ReapStaleRunningJob(p, i)
  \/ PublishSuccess(p) \/ PublishFailure(p) \/ LoseFailure(p)

LEMMA BeginsWhat ==
  ASSUME SafeInv, FreshInv, NEW p \in Procs, Begins(p)
  PROVE  /\ OnlyMoves(p) /\ ~Updates(p)
         /\ pc'[p] \in {"reaped", "finishing"}
         /\ job'[p] \in Images /\ status[job'[p]] = "running"
         /\ status'[job'[p]] \in Done \/ (LoseFailure(p) /\ UNCHANGED status)
         /\ \A i \in Images \ {job'[p]} : status'[i] = status[i]
         /\ job'[p] \in stale \/ (pc[p] \in OwnerPcs /\ job[p] = job'[p])
         /\ UNCHANGED <<batchStatus, documented, finishNotices>>
<1> USE DEF SafeInv, FreshInv, TypeOK, OwnerInv, Owns, OwnerPcs, OnlyMoves, Updates, dbVars, procVars, Done
<1>1. ASSUME NEW i \in Images, ReapStaleRunningJob(p, i)
      PROVE  /\ OnlyMoves(p) /\ ~Updates(p)
             /\ pc'[p] \in {"reaped", "finishing"}
             /\ job'[p] \in Images /\ status[job'[p]] = "running" /\ status'[job'[p]] \in Done
             /\ \A j \in Images \ {job'[p]} : status'[j] = status[j]
             /\ job'[p] \in stale
             /\ UNCHANGED <<batchStatus, documented, finishNotices>>
  BY <1>1 DEF ReapStaleRunningJob, Reapable, Running
<1>2. ASSUME PublishSuccess(p) \/ PublishFailure(p)
      PROVE  /\ OnlyMoves(p) /\ ~Updates(p)
             /\ pc'[p] \in {"reaped", "finishing"}
             /\ job'[p] \in Images /\ status[job'[p]] = "running" /\ status'[job'[p]] \in Done
             /\ \A j \in Images \ {job'[p]} : status'[j] = status[j]
             /\ pc[p] \in OwnerPcs /\ job[p] = job'[p]
             /\ UNCHANGED <<batchStatus, documented, finishNotices>>
  BY <1>2 DEF PublishSuccess, PublishFailure, PublishStatus
<1>3. ASSUME LoseFailure(p)
      PROVE  /\ OnlyMoves(p) /\ ~Updates(p)
             /\ pc'[p] \in {"reaped", "finishing"}
             /\ job'[p] \in Images /\ status[job'[p]] = "running" /\ UNCHANGED status
             /\ pc[p] \in OwnerPcs /\ job[p] = job'[p]
             /\ UNCHANGED <<batchStatus, documented, finishNotices>>
  BY <1>3 DEF LoseFailure
<1>4. QED
  BY <1>1, <1>2, <1>3 DEF Begins

LEMMA ReadWhat ==
  ASSUME SafeInv, NEW p \in Procs, ReadBatch(p)
  PROVE  /\ OnlyMoves(p) /\ pc[p] \in {"reaped", "finishing"} /\ job'[p] = job[p] /\ job[p] \in Images
         /\ pc'[p] \in {"drafting", "updating"}
         /\ pc'[p] = "drafting" => pend'[p].undocumented
         /\ pend'[p].now = Aggregate(Statuses(BatchIn(p)))
         /\ pend'[p].wasTerminal <=> batchStatus[BatchIn(p)] \in Terminal
         /\ pend'[p].dirty <=> batchStatus[BatchIn(p)] # pend'[p].now
         /\ pend'[p].undocumented <=> (pend'[p].now = "success" /\ BatchIn(p) \notin documented)
         /\ UNCHANGED <<status, batchStatus, documented, finishNotices>>
<1> DEFINE now == Aggregate(Statuses(BatchIn(p)))
           wt == batchStatus[BatchIn(p)] \in Terminal
           dirty == batchStatus[BatchIn(p)] # now
           undoc == now = "success" /\ BatchIn(p) \notin documented
           from == bumpedFrom[BatchIn(p)]
           number == version[VersionOf[BatchIn(p)]]
           read == [wasTerminal |-> wt, dirty |-> dirty, undocumented |-> undoc, now |-> now,
                    from |-> from, number |-> number]
<1>1. /\ pc[p] \in {"reaped", "finishing"} /\ job[p] \in Images
      /\ pend' = [pend EXCEPT ![p] = read]
      /\ pc' = [pc EXCEPT ![p] = IF undoc THEN "drafting" ELSE "updating"]
      /\ UNCHANGED <<status, batchStatus, documented, finishNotices, job>>
  BY DEF ReadBatch, Documents, BatchIn, SafeInv, UpdateInv, dbVars
<1> HIDE DEF now, wt, dirty, undoc, from, number
<1>2. pend'[p] = read /\ OnlyMoves(p)
  BY <1>1 DEF SafeInv, TypeOK, OnlyMoves
<1>3. read.wasTerminal = wt /\ read.dirty = dirty /\ read.undocumented = undoc /\ read.now = now
  OBVIOUS
<1> HIDE DEF read
<1>4. pc'[p] = IF undoc THEN "drafting" ELSE "updating"
  BY <1>1 DEF SafeInv, TypeOK
<1>5. pend'[p].undocumented = undoc /\ pend'[p].now = now
  BY <1>2, <1>3
<1>6. pend'[p].wasTerminal = wt
  BY <1>2, <1>3
<1>7. pend'[p].dirty = dirty
  BY <1>2, <1>3
<1>8. pc'[p] \in {"drafting", "updating"} /\ (pc'[p] = "drafting" => pend'[p].undocumented)
  BY <1>4, <1>5
<1>9. pend'[p].undocumented <=> (pend'[p].now = "success" /\ BatchIn(p) \notin documented)
  BY <1>5 DEF undoc
<1>10. pend'[p].wasTerminal <=> batchStatus[BatchIn(p)] \in Terminal
  BY <1>6 DEF wt
<1>11. pend'[p].dirty <=> batchStatus[BatchIn(p)] # pend'[p].now
  BY <1>5, <1>7 DEF dirty
<1>12. pend'[p].now = Aggregate(Statuses(BatchIn(p)))
  BY <1>5 DEF now
<1>13. QED
  BY <1>1, <1>2, <1>8, <1>9, <1>10, <1>11, <1>12

(* The batch status that an update writes. *)
Flushed(p) ==
  /\ \A b \in Batches \ {BatchIn(p)} : batchStatus'[b] = batchStatus[b]
  /\ pend[p].dirty => batchStatus'[BatchIn(p)] = pend[p].now
  /\ ~pend[p].dirty => batchStatus'[BatchIn(p)] = batchStatus[BatchIn(p)]

LEMMA RaiseWhat ==
  ASSUME SafeInv, NEW p \in Procs, DraftRaises(p)
  PROVE  /\ OnlyMoves(p) /\ pc[p] = "drafting" /\ pc'[p] = "updating"
         /\ job'[p] = job[p] /\ job[p] \in Images
         /\ pend'[p].now = pend[p].now /\ ~pend'[p].dirty
         /\ pend'[p].undocumented = pend[p].undocumented
         /\ pend'[p].wasTerminal = pend[p].wasTerminal
         /\ Flushed(p)
         /\ UNCHANGED <<status, documented, finishNotices>>
<1> DEFINE clean == [pend[p] EXCEPT !.dirty = FALSE]
<1>1. pend[p] \in Pend /\ job[p] \in Images
  BY DEF DraftRaises, SafeInv, TypeOK, UpdateInv
<1>2. /\ clean.now = pend[p].now /\ clean.dirty = FALSE
      /\ clean.undocumented = pend[p].undocumented
      /\ clean.wasTerminal = pend[p].wasTerminal
  BY <1>1 DEF Pend
<1>3. pend' = [pend EXCEPT ![p] = clean]
  BY DEF DraftRaises
<1> HIDE DEF clean
<1>4. pend'[p] = clean /\ OnlyMoves(p) /\ pc[p] = "drafting" /\ pc'[p] = "updating" /\ job'[p] = job[p]
  BY <1>3 DEF DraftRaises, SafeInv, TypeOK, OnlyMoves
<1>5. Flushed(p)
  BY <1>1 DEF DraftRaises, FlushBatchStatus, Flushed, BatchIn, SafeInv, TypeOK
<1>6. UNCHANGED <<status, documented, finishNotices>>
  BY DEF DraftRaises
<1>7. ~pend'[p].dirty
  BY <1>2, <1>4
<1>8. QED
  BY <1>1, <1>2, <1>4, <1>5, <1>6, <1>7

LEMMA CommitWhat ==
  ASSUME SafeInv, NEW p \in Procs, CommitBatch(p)
  PROVE  /\ OnlyMoves(p) /\ pc[p] = "updating" /\ ~Updates(p)' /\ job[p] \in Images
         /\ Flushed(p)
         /\ \A b \in Batches \ {BatchIn(p)} : finishNotices'[b] = finishNotices[b]
         /\ \/ finishNotices'[BatchIn(p)] = finishNotices[BatchIn(p)]
               /\ (pend[p].wasTerminal \/ batchStatus'[BatchIn(p)] \notin Terminal)
            \/ /\ finishNotices'[BatchIn(p)] = finishNotices[BatchIn(p)] + 1
               /\ ~pend[p].wasTerminal /\ batchStatus'[BatchIn(p)] \in Terminal
         /\ pend[p].undocumented => documented' = documented \union {BatchIn(p)}
         /\ ~pend[p].undocumented => documented' = documented
         /\ UNCHANGED status
<1>1. job[p] \in Images
  BY DEF CommitBatch, SafeInv, UpdateInv
<1>2. pc[p] = "updating" /\ UNCHANGED status
  BY DEF CommitBatch
<1>3. OnlyMoves(p) /\ ~Updates(p)'
  BY DEF CommitBatch, Release, AfterUpdate, Updates, OnlyMoves, SafeInv, TypeOK
<1>4. Flushed(p)
  BY <1>1 DEF CommitBatch, FlushBatchStatus, Flushed, BatchIn, SafeInv, TypeOK
<1>5. /\ pend[p].undocumented => documented' = documented \union {BatchIn(p)}
      /\ ~pend[p].undocumented => documented' = documented
  BY DEF CommitBatch, BatchIn
<1>6. CASE Announces(p)
  <2>1. finishNotices' = [finishNotices EXCEPT ![BatchIn(p)] = @ + 1]
    BY <1>6 DEF CommitBatch, BatchIn
  <2>2. ~pend[p].wasTerminal /\ batchStatus'[BatchIn(p)] \in Terminal
    BY <1>6 DEF Announces, BatchIn
  <2>3. QED
    BY <1>1, <1>2, <1>3, <1>4, <1>5, <2>1, <2>2 DEF SafeInv, TypeOK, BatchIn
<1>7. CASE ~Announces(p)
  <2>1. finishNotices' = finishNotices
    BY <1>7 DEF CommitBatch
  <2>2. pend[p].wasTerminal \/ batchStatus'[BatchIn(p)] \notin Terminal
    BY <1>7 DEF Announces, BatchIn
  <2>3. QED
    BY <1>1, <1>2, <1>3, <1>4, <1>5, <2>1, <2>2
<1>8. QED
  BY <1>6, <1>7

LEMMA WinWhat ==
  ASSUME SafeInv, NEW p \in Procs, WinClaim(p)
  PROVE  /\ OnlyMoves(p) /\ ~Updates(p) /\ ~Updates(p)' /\ job[p] \in Images
         /\ status[job[p]] = "queued" /\ status'[job[p]] = "running"
         /\ \A i \in Images \ {job[p]} : status'[i] = status[i]
         /\ \A b \in Batches \ {BatchIn(p)} : batchStatus'[b] = batchStatus[b]
         /\ batchStatus'[BatchIn(p)] \in {batchStatus[BatchIn(p)], "running"}
         /\ UNCHANGED <<documented, finishNotices>>
<1>1. job[p] \in Images /\ status[job[p]] = "queued" /\ pc[p] = "claiming"
  BY DEF WinClaim, SafeInv, ClaimInv
<1>2. /\ \A b \in Batches \ {BatchIn(p)} : batchStatus'[b] = batchStatus[b]
      /\ batchStatus'[BatchIn(p)] \in {batchStatus[BatchIn(p)], "running"}
  BY <1>1 DEF WinClaim, BatchIn, SafeInv, TypeOK
<1>3. status' = [status EXCEPT ![job[p]] = "running"] /\ UNCHANGED <<documented, finishNotices>>
  BY DEF WinClaim
<1>4. OnlyMoves(p) /\ ~Updates(p) /\ ~Updates(p)'
  BY <1>1 DEF WinClaim, SafeInv, TypeOK, OnlyMoves, Updates
<1>5. QED
  BY <1>1, <1>2, <1>3, <1>4 DEF SafeInv, TypeOK

LEMMA EnqueueWhat ==
  ASSUME SafeInv, NEW b \in Batches, EnqueueBuildBatch(b)
  PROVE  /\ \A q \in Procs : pc'[q] = pc[q] /\ job'[q] = job[q] /\ pend'[q] = pend[q]
         /\ batchStatus[b] = "none" /\ batchStatus'[b] = "queued"
         /\ \A c \in Batches \ {b} : batchStatus'[c] = batchStatus[c]
         /\ \A i \in Images : BatchOf[i] = b => status[i] = "none" /\ status'[i] = "queued"
         /\ \A i \in Images : BatchOf[i] # b => status'[i] = status[i]
         /\ \E i \in Images : BatchOf[i] = b
         /\ UNCHANGED <<documented, finishNotices>>
  BY DEF EnqueueBuildBatch, SafeInv, TypeOK, RowInv, ImagesOf, procVars

(* Every other step leaves the batches alone, and ends an update only by a *)
(* crash or an error.                                                      *)
LEMMA OtherWhat ==
  ASSUME SafeInv, [Next]_vars,
         \A b \in Batches : ~EnqueueBuildBatch(b),
         \A p \in Procs : /\ ~Begins(p) /\ ~WinClaim(p) /\ ~ReadBatch(p)
                          /\ ~DraftRaises(p) /\ ~CommitBatch(p)
  PROVE  /\ UNCHANGED <<status, batchStatus, documented, finishNotices>>
         /\ \A q \in Procs : Carries(q)
         /\ \A q \in Procs : Updates(q) => \/ Updates(q)'
                                           \/ crashes' + dbErrors' > 0
                                           \/ DuplicateDocumentation(q)
<1> DEFINE Fine == /\ UNCHANGED <<status, batchStatus, documented, finishNotices>>
                   /\ \A q \in Procs : Carries(q)
                   /\ \A q \in Procs : Updates(q) => \/ Updates(q)'
                                                     \/ crashes' + dbErrors' > 0
                                                     \/ DuplicateDocumentation(q)
<1> USE DEF Updates, Carries, SafeInv, TypeOK, dbVars, procVars, boundVars
<1>1. CASE (\E v \in Versions, n \in EditNumbers : EditVersion(v, n)) \/ UNCHANGED vars
  BY <1>1 DEF EditVersion, vars
<1>2. ASSUME NEW p \in Procs, NothingToReap(p) \/ NothingToClaim(p) \/ StartRun(p)
             \/ SyncRepo(p) \/ PushImage(p) \/ DraftDescription(p) PROVE Fine
  BY <1>2 DEF NothingToReap, NothingToClaim, StartRun, SyncRepo, PushImage, DraftDescription
<1>3. ASSUME NEW p \in Procs, LoseClaim(p) PROVE Fine
  BY <1>3 DEF LoseClaim
<1>4. ASSUME NEW p \in Procs, NEW i \in Images, SelectQueued(p, i) PROVE Fine
  <2>1. /\ pc[p] = "claim" /\ pc' = [pc EXCEPT ![p] = "claiming"] /\ job' = [job EXCEPT ![p] = i]
        /\ pend' = [pend EXCEPT ![p] = pend'[p]]
        /\ UNCHANGED <<dbVars, finishNotices>>
    BY <1>4 DEF SelectQueued
  <2>2. QED
    BY <2>1
<1>5. ASSUME NEW p \in Procs, DuplicateDocumentation(p) PROVE Fine
  <2>1. /\ \E w \in {"poll", "claim", "dead"} : Release(p, w)
        /\ UNCHANGED <<dbVars, finishNotices>>
    BY <1>5 DEF DuplicateDocumentation, AfterException
  <2>2. QED
    BY <1>5, <2>1 DEF Release
<1>6. ASSUME NEW p \in Procs, Crash(p) \/ DbError(p) PROVE Fine
  <2>1. /\ \E w \in {"poll", "claim", "dead"} : Release(p, w)
        /\ UNCHANGED <<dbVars, finishNotices>>
        /\ crashes' + dbErrors' > 0
    BY <1>6 DEF Crash, DbError, AfterException
  <2>2. QED
    BY <2>1 DEF Release
<1>7. CASE (\E i \in Images : HeartbeatExpires(i)) \/ (\E p \in Procs : HeartbeatTick(p))
  BY <1>7 DEF HeartbeatExpires, HeartbeatTick
<1>8. QED
  BY <1>1, <1>2, <1>3, <1>4, <1>5, <1>6, <1>7 DEF Next, PollThread, Begins

LEMMA DoneBatchStays ==
  ASSUME SafeInv, FreshInv, [Next]_vars, NEW b, AllImagesDone(b)
  PROVE  /\ \A i \in Images : BatchOf[i] = b => status'[i] = status[i]
         /\ AllImagesDone(b)' /\ Statuses(b)' = Statuses(b)
<1>1. ASSUME NEW i \in Images, BatchOf[i] = b PROVE status'[i] = status[i]
  <2>1. status[i] \in Done
    BY <1>1 DEF AllImagesDone, ImagesOf
  <2>2. QED
    BY <2>1, StatusWrites DEF Done, FreshInv
<1>2. AllImagesDone(b)'
  BY <1>1 DEF AllImagesDone, ImagesOf
<1>3. Statuses(b)' = Statuses(b)
  BY <1>1 DEF Statuses, ImagesOf
<1>4. QED
  BY <1>1, <1>2, <1>3

(* A row begins to run with the claim that wins it. *)
LEMMA StartsRunning ==
  ASSUME SafeInv, [Next]_vars, NEW i \in Images, status[i] # "running", status'[i] = "running"
  PROVE  JustBegun(i)'
<1>1. ~ \E b \in Batches : EnqueueBuildBatch(b)
  BY DEF EnqueueBuildBatch
<1>2. ASSUME NEW p \in Procs, ReadBatch(p) \/ DraftRaises(p) \/ CommitBatch(p) PROVE FALSE
  BY <1>2 DEF ReadBatch, DraftRaises, CommitBatch, dbVars
<1>3. ASSUME NEW p \in Procs, Begins(p) PROVE FALSE
  BY <1>3 DEF Begins, ReapStaleRunningJob, PublishSuccess, PublishFailure, PublishStatus, LoseFailure,
              SafeInv, TypeOK, dbVars
<1>4. PICK p \in Procs : WinClaim(p)
  BY <1>1, <1>2, <1>3, OtherWhat
<1>5. i = job[p]
  BY <1>4, WinWhat
<1>6. QED
  BY <1>4, <1>5, WinnerBegins

(* A batch being updated from a transaction that is not short succeeded.   *)
LEMMA ShortOrSucceeded ==
  ASSUME SafeInv, UpdaterInv, NEW p \in Procs, Updates(p), NEW i \in Images,
         BatchOf[i] = BatchIn(p), status[i] # "success"
  PROVE  pc[p] \in ShortPcs
  BY DEF SafeInv, UpdateInv, UpdaterInv, Updates, AllSucceeded, ShortPcs, BatchIn

Sharp == ~LateHeartbeats /\ ~SlowTransactions

LEMMA StepUpdater ==
  ASSUME Sharp, SafeInv, FreshInv, UpdaterInv, [Next]_vars
  PROVE  UpdaterInv'
<1>1. ASSUME NEW i \in Images, status[i] \notin {"none", "queued"}
      PROVE  status'[i] \notin {"none", "queued"}
  BY <1>1, StatusWrites DEF Done
<1>2. ASSUME NEW q \in Procs, Updates(q), NEW i \in Images, BatchOf[i] = BatchIn(q),
             status'[i] = "running"
      PROVE  JustBegun(i)'
  <2>1. CASE status[i] = "running"
    <3>1. JustBegun(i)
      BY <1>2, <2>1 DEF UpdaterInv
    <3>2. pc[q] \in ShortPcs
      BY <1>2, <2>1, ShortOrSucceeded
    <3>3. QED
      BY <3>1, <3>2, BegunStays DEF Sharp
  <2>2. CASE status[i] # "running"
    BY <1>2, <2>2, StartsRunning
  <2>3. QED
    BY <2>1, <2>2
<1>3. ASSUME NEW q \in Procs, NEW r \in Procs, q # r, Updates(q), Updates(r), BatchIn(q) = BatchIn(r)
      PROVE  \E i \in Images : BatchOf[i] = BatchIn(q) /\ status'[i] = "running"
  <2>1. PICK i \in Images : BatchOf[i] = BatchIn(q) /\ status[i] = "running"
    BY <1>3 DEF UpdaterInv
  <2>2. JustBegun(i)
    BY <1>3, <2>1 DEF UpdaterInv
  <2>3. pc[q] \in ShortPcs
    BY <1>3, <2>1, ShortOrSucceeded
  <2>4. JustBegun(i)'
    BY <2>2, <2>3, BegunStays DEF Sharp
  <2>5. QED
    BY <2>1, <2>4 DEF JustBegun
<1> DEFINE Keeps(q) == Updates(q) /\ job'[q] = job[q]
           Draft(q) == /\ pc'[q] = "drafting" => pend'[q].undocumented
                       /\ HasRead(q)' /\ pend'[q].undocumented => pend'[q].now = "success"
<1>4. ASSUME \A q \in Procs : (Updates(q)' => Keeps(q)) /\ Draft(q)
      PROVE  UpdaterInv'
  <2>1. \A q \in Procs : Updates(q)' => job'[q] \in Images /\ status'[job'[q]] \notin {"none", "queued"}
    BY <1>1, <1>4 DEF UpdaterInv
  <2>2. \A q \in Procs, i \in Images :
          Updates(q)' /\ BatchOf[i] = BatchIn(q)' /\ status'[i] = "running" => JustBegun(i)'
    BY <1>2, <1>4 DEF BatchIn
  <2>3. \A q, r \in Procs :
          Updates(q)' /\ Updates(r)' /\ q # r /\ BatchIn(q)' = BatchIn(r)' =>
            \E i \in Images : BatchOf[i] = BatchIn(q)' /\ status'[i] = "running"
    BY <1>3, <1>4 DEF BatchIn
  <2>4. QED
    BY <1>4, <2>1, <2>2, <2>3 DEF UpdaterInv
<1>5. ASSUME NEW b \in Batches, EnqueueBuildBatch(b) PROVE UpdaterInv'
  <2>1. \A q \in Procs : (Updates(q)' => Keeps(q)) /\ Draft(q)
    BY <1>5, EnqueueWhat DEF UpdaterInv, Updates, HasRead
  <2>2. QED
    BY <1>4, <2>1
<1>6. ASSUME NEW p \in Procs, WinClaim(p) PROVE UpdaterInv'
  <2>1. \A q \in Procs : (Updates(q)' => Keeps(q)) /\ Draft(q)
    BY <1>6, WinWhat DEF UpdaterInv, Updates, HasRead, OnlyMoves
  <2>2. QED
    BY <1>4, <2>1
<1>7. ASSUME NEW p \in Procs, ReadBatch(p) PROVE UpdaterInv'
  <2>1. \A q \in Procs : (Updates(q)' => Keeps(q)) /\ Draft(q)
    <3>1. Keeps(p) /\ Draft(p)
      BY <1>7, ReadWhat DEF Updates, HasRead
    <3>2. \A q \in Procs \ {p} : (Updates(q)' => Keeps(q)) /\ Draft(q)
      BY <1>7, ReadWhat DEF UpdaterInv, Updates, HasRead, OnlyMoves
    <3>3. QED
      BY <3>1, <3>2
  <2>2. QED
    BY <1>4, <2>1
<1>8. ASSUME NEW p \in Procs, DraftRaises(p) PROVE UpdaterInv'
  <2>1. \A q \in Procs : (Updates(q)' => Keeps(q)) /\ Draft(q)
    <3>1. Keeps(p) /\ Draft(p)
      BY <1>8, RaiseWhat DEF UpdaterInv, Updates, HasRead
    <3>2. \A q \in Procs \ {p} : (Updates(q)' => Keeps(q)) /\ Draft(q)
      BY <1>8, RaiseWhat DEF UpdaterInv, Updates, HasRead, OnlyMoves
    <3>3. QED
      BY <3>1, <3>2
  <2>2. QED
    BY <1>4, <2>1
<1>9. ASSUME NEW p \in Procs, CommitBatch(p) PROVE UpdaterInv'
  <2>1. \A q \in Procs : (Updates(q)' => Keeps(q)) /\ Draft(q)
    BY <1>9, CommitWhat DEF UpdaterInv, Updates, HasRead, OnlyMoves
  <2>2. QED
    BY <1>4, <2>1
<1>10. ASSUME NEW p \in Procs, Begins(p) PROVE UpdaterInv'
  <2> DEFINE i == job'[p]
  <2>1. /\ OnlyMoves(p) /\ ~Updates(p)
        /\ pc'[p] \in {"reaped", "finishing"}
        /\ i \in Images /\ status[i] = "running"
        /\ status'[i] \in Done \/ (LoseFailure(p) /\ UNCHANGED status)
        /\ \A j \in Images \ {i} : status'[j] = status[j]
        /\ i \in stale \/ (pc[p] \in OwnerPcs /\ job[p] = i)
    BY <1>10, BeginsWhat
  <2> HIDE DEF i
  <2>2. \A q \in Procs \ {p} : (Updates(q)' => Keeps(q)) /\ Draft(q)
    BY <2>1 DEF UpdaterInv, Updates, HasRead, OnlyMoves
  <2>3. Draft(p)
    BY <2>1 DEF HasRead
  <2>4. status'[i] \notin {"none", "queued"}
    BY <2>1 DEF Done
  <2>5. ASSUME NEW j \in Images, status'[j] = "running" PROVE JustBegun(j)'
    <3>1. j = i /\ LoseFailure(p)
      BY <2>1, <2>5 DEF SafeInv, RowInv, Done
    <3>2. /\ pc[p] \in {"syncing", "building", "pushed"} /\ pc' = [pc EXCEPT ![p] = "finishing"]
          /\ UNCHANGED <<status, stale, job>>
      BY <3>1 DEF LoseFailure, dbVars
    <3>3. i = job[p] /\ i \notin stale
      BY <3>2 DEF i, FreshInv, Owns, OwnerPcs
    <3>4. \A q \in Procs : Owns(q)' /\ job'[q] = i => FALSE
      BY <3>2, <3>3 DEF SafeInv, TypeOK, OwnerInv, Owns, OwnerPcs
    <3>5. QED
      BY <2>5, <3>1, <3>2, <3>3, <3>4 DEF JustBegun
  <2>6. ASSUME NEW q \in Procs \ {p}, Updates(q)', BatchIn(q)' = BatchIn(p)'
        PROVE  status'[i] = "running"
    <3>1. Updates(q) /\ BatchIn(q) = BatchOf[i]
      BY <2>2, <2>6 DEF BatchIn, i
    <3>2. JustBegun(i)
      BY <2>1, <3>1 DEF UpdaterInv
    <3>3. LoseFailure(p) \/ Begins(p)
      BY <1>10
    <3>4. i \notin stale /\ pc[p] \in {"announce", "syncing"} /\ job[p] = i
      BY <2>1, <3>2 DEF JustBegun, Owns
    <3>5. LoseFailure(p)
      BY <1>10, <3>4, <2>1 DEF Begins, ReapStaleRunningJob, PublishSuccess, PublishFailure
    <3>6. QED
      BY <3>5, <2>1 DEF LoseFailure, dbVars
  <2>7. \A q \in Procs : Updates(q)' => job'[q] \in Images /\ status'[job'[q]] \notin {"none", "queued"}
    BY <1>1, <2>1, <2>2, <2>4 DEF UpdaterInv, i
  <2>8. \A q \in Procs, j \in Images :
          Updates(q)' /\ BatchOf[j] = BatchIn(q)' /\ status'[j] = "running" => JustBegun(j)'
    BY <2>5
  <2>9. \A q, r \in Procs :
          Updates(q)' /\ Updates(r)' /\ q # r /\ BatchIn(q)' = BatchIn(r)' =>
            \E j \in Images : BatchOf[j] = BatchIn(q)' /\ status'[j] = "running"
    <3> SUFFICES ASSUME NEW q \in Procs, NEW r \in Procs, Updates(q)', Updates(r)', q # r,
                        BatchIn(q)' = BatchIn(r)'
                 PROVE  \E j \in Images : BatchOf[j] = BatchIn(q)' /\ status'[j] = "running"
      OBVIOUS
    <3>1. CASE q # p /\ r # p
      BY <1>3, <2>2, <3>1 DEF BatchIn
    <3>2. CASE q = p \/ r = p
      <4>1. status'[i] = "running" /\ BatchIn(q)' = BatchIn(p)'
        BY <2>6, <3>2
      <4>2. BatchIn(p)' = BatchOf[i]
        BY DEF BatchIn, i
      <4>3. QED
        BY <2>1, <4>1, <4>2
    <3>3. QED
      BY <3>1, <3>2
  <2>10. QED
    BY <2>2, <2>3, <2>7, <2>8, <2>9 DEF UpdaterInv
<1>11. CASE /\ \A b \in Batches : ~EnqueueBuildBatch(b)
            /\ \A p \in Procs : /\ ~Begins(p) /\ ~WinClaim(p) /\ ~ReadBatch(p)
                                /\ ~DraftRaises(p) /\ ~CommitBatch(p)
  <2>1. \A q \in Procs : (Updates(q)' => Keeps(q)) /\ Draft(q)
    <3>1. \A q \in Procs : Carries(q)
      BY <1>11, OtherWhat
    <3>2. QED
      BY <3>1 DEF UpdaterInv, Carries, Updates, HasRead
  <2>2. QED
    BY <1>4, <2>1
<1>12. QED
  BY <1>5, <1>6, <1>7, <1>8, <1>9, <1>10, <1>11

(* An aggregate is terminal when all images are done, and then only. *)
LEMMA AggregateDone ==
  ASSUME TypeOK, NEW b, \A i \in Images : BatchOf[i] = b => status[i] # "none"
  PROVE  Aggregate(Statuses(b)) \in Terminal <=> AllImagesDone(b)
<1>1. "running" \in Statuses(b) <=> \E i \in Images : BatchOf[i] = b /\ status[i] = "running"
  BY DEF Statuses, ImagesOf
<1>2. "queued" \in Statuses(b) <=> \E i \in Images : BatchOf[i] = b /\ status[i] = "queued"
  BY DEF Statuses, ImagesOf
<1>3. Aggregate(Statuses(b)) \in Terminal <=> "running" \notin Statuses(b) /\ "queued" \notin Statuses(b)
  BY DEF Aggregate, Terminal
<1>4. AllImagesDone(b) <=> \A i \in Images : BatchOf[i] = b => status[i] \in Done
  BY DEF AllImagesDone, ImagesOf
<1>5. \A i \in Images : BatchOf[i] = b => status[i] \in {"queued", "running", "success", "failed"}
  BY DEF TypeOK, ImageStatus
<1>6. QED
  BY <1>1, <1>2, <1>3, <1>4, <1>5 DEF Done

LEMMA StepRead ==
  ASSUME Sharp, SafeInv, FreshInv, UpdaterInv, ReadInv, [Next]_vars
  PROVE  ReadInv'
<1> DEFINE Told(q) ==
             /\ HasRead(q)' /\ pend'[q].now \in Terminal =>
                  AllImagesDone(BatchIn(q))' /\ pend'[q].now = Aggregate(Statuses(BatchIn(q)))'
             /\ HasRead(q)' /\ AllImagesDone(BatchIn(q))' => pend'[q].now \in Terminal
           Kept(q) == Updates(q) /\ HasRead(q) /\ job'[q] = job[q] /\ pend'[q].now = pend[q].now
           Written(b) == \/ batchStatus'[b] = batchStatus[b]
                         \/ batchStatus[b] # "none" /\ batchStatus'[b] \notin Terminal
                         \/ \E p \in Procs : HasRead(p) /\ BatchIn(p) = b /\ batchStatus'[b] = pend[p].now
                                             /\ batchStatus[b] # "none"
<1>1. ASSUME NEW q \in Procs, HasRead(q)' => Kept(q) PROVE Told(q)
  <2> SUFFICES ASSUME HasRead(q)', Kept(q) PROVE Told(q)
    BY <1>1
  <2>1. BatchIn(q)' = BatchIn(q) /\ Updates(q) /\ HasRead(q)
    BY DEF BatchIn
  <2>2. CASE pend[q].now \in Terminal
    <3>1. AllImagesDone(BatchIn(q)) /\ pend[q].now = Aggregate(Statuses(BatchIn(q)))
      BY <2>1, <2>2 DEF ReadInv
    <3>2. PICK b : b = BatchIn(q)
      OBVIOUS
    <3>3. AllImagesDone(b) /\ BatchIn(q)' = b
      BY <2>1, <3>1, <3>2
    <3>4. Statuses(b)' = Statuses(b) /\ AllImagesDone(b)'
      BY <3>3, DoneBatchStays
    <3>5. AllImagesDone(BatchIn(q))' /\ Statuses(BatchIn(q))' = Statuses(b)
      BY <3>3, <3>4 DEF AllImagesDone, Statuses, ImagesOf
    <3>6. QED
      BY <3>1, <3>2, <3>5, <2>2 DEF Aggregate
  <2>3. CASE pend[q].now \notin Terminal
    <3>1. ~AllImagesDone(BatchIn(q))
      BY <2>1, <2>3 DEF ReadInv
    <3>2. PICK i \in Images : BatchOf[i] = BatchIn(q) /\ status[i] \notin Done
      BY <3>1 DEF AllImagesDone, ImagesOf
    <3>3. status'[i] \notin Done
      <4>1. CASE status[i] = "running"
        <5>1. JustBegun(i)
          BY <2>1, <3>2, <4>1 DEF UpdaterInv
        <5>2. pc[q] \in ShortPcs
          BY <2>1, <3>2, <4>1, ShortOrSucceeded
        <5>3. JustBegun(i)'
          BY <5>1, <5>2, BegunStays DEF Sharp
        <5>4. QED
          BY <5>3 DEF JustBegun, Done
      <4>2. CASE status[i] # "running"
        BY <3>2, <4>2, StatusWrites DEF FreshInv, Done
      <4>3. QED
        BY <4>1, <4>2
    <3>4. ~AllImagesDone(BatchIn(q))'
      BY <2>1, <3>2, <3>3 DEF AllImagesDone, ImagesOf
    <3>5. QED
      BY <2>3, <3>4
  <2>4. QED
    BY <2>2, <2>3
<1>2. ASSUME \A b \in Batches : Written(b) \/ EnqueueBuildBatch(b), \A q \in Procs : Told(q) PROVE ReadInv'
  <2>1. ASSUME NEW i \in Images, batchStatus'[BatchOf[i]] # "none" PROVE status'[i] # "none"
    <3>1. CASE batchStatus[BatchOf[i]] # "none"
      BY <3>1, StatusWrites DEF ReadInv, Done
    <3>2. CASE batchStatus[BatchOf[i]] = "none"
      <4>1. EnqueueBuildBatch(BatchOf[i])
        BY <1>2, <2>1, <3>2
      <4>2. QED
        BY <4>1, EnqueueWhat
    <3>3. QED
      BY <3>1, <3>2
  <2>2. ASSUME NEW b \in Batches PROVE TrueStatus(b)'
    <3>1. ASSUME AllImagesDone(b), batchStatus'[b] = Aggregate(Statuses(b)) PROVE TrueStatus(b)'
      <4>1. AllImagesDone(b)' /\ Statuses(b)' = Statuses(b)
        BY <3>1, DoneBatchStays
      <4>2. QED
        BY <3>1, <4>1 DEF TrueStatus, Aggregate
    <3>2. CASE batchStatus'[b] \notin Terminal
      BY <3>2 DEF TrueStatus
    <3>3. CASE batchStatus'[b] \in Terminal /\ batchStatus'[b] = batchStatus[b]
      BY <3>1, <3>3 DEF ReadInv, TrueStatus
    <3>4. CASE EnqueueBuildBatch(b)
      BY <3>4, EnqueueWhat DEF TrueStatus, Terminal
    <3>5. ASSUME NEW p \in Procs, HasRead(p), BatchIn(p) = b, batchStatus'[b] = pend[p].now,
                 batchStatus'[b] \in Terminal
          PROVE  TrueStatus(b)'
      BY <3>1, <3>5 DEF ReadInv
    <3>6. QED
      BY <1>2, <3>2, <3>3, <3>4, <3>5
  <2>3. QED
    BY <1>2, <2>1, <2>2 DEF ReadInv
<1>3. ASSUME NEW b \in Batches, EnqueueBuildBatch(b) PROVE ReadInv'
  <2>1. \A q \in Procs : Told(q)
    BY <1>1, <1>3, EnqueueWhat DEF HasRead, Updates
  <2>2. QED
    BY <1>2, <1>3, <2>1, EnqueueWhat
<1>4. ASSUME NEW p \in Procs, WinClaim(p) PROVE ReadInv'
  <2>1. \A q \in Procs : Told(q)
    BY <1>1, <1>4, WinWhat DEF HasRead, Updates, OnlyMoves
  <2>2. batchStatus[BatchIn(p)] # "none"
    BY <1>4, WinWhat DEF SafeInv, RowInv, BatchIn
  <2>3. \A b \in Batches : Written(b)
    BY <1>4, <2>2, WinWhat DEF Terminal
  <2>4. QED
    BY <1>2, <2>1, <2>3
<1>5. ASSUME NEW p \in Procs, ReadBatch(p) PROVE ReadInv'
  <2>1. \A q \in Procs \ {p} : Told(q)
    BY <1>1, <1>5, ReadWhat DEF HasRead, Updates, OnlyMoves
  <2>2. \A b \in Batches : Written(b)
    BY <1>5, ReadWhat
  <2>3. Told(p)
    <3> DEFINE b == BatchIn(p)
    <3>1. /\ job'[p] = job[p] /\ job[p] \in Images /\ UNCHANGED status
          /\ pend'[p].now = Aggregate(Statuses(b))
      BY <1>5, ReadWhat
    <3>2. batchStatus[b] # "none"
      BY <1>5, <3>1 DEF ReadBatch, SafeInv, RowInv, UpdaterInv, Updates, BatchIn
    <3>3. \A i \in Images : BatchOf[i] = b => status[i] # "none"
      BY <3>2 DEF ReadInv
    <3>4. b = BatchIn(p)' /\ b = BatchIn(p)
      BY <3>1 DEF BatchIn
    <3> HIDE DEF b
    <3>5. Aggregate(Statuses(b)) \in Terminal <=> AllImagesDone(b)
      BY <3>3, AggregateDone DEF SafeInv
    <3>6. AllImagesDone(BatchIn(p))' <=> AllImagesDone(b)
      BY <3>1, <3>4 DEF AllImagesDone, ImagesOf
    <3>7. Aggregate(Statuses(BatchIn(p)))' = Aggregate(Statuses(b))
      BY <3>1, <3>4 DEF Aggregate, Statuses, ImagesOf
    <3>8. QED
      BY <3>1, <3>5, <3>6, <3>7
  <2>4. QED
    BY <1>2, <2>1, <2>2, <2>3
<1>6. ASSUME NEW p \in Procs, DraftRaises(p) \/ CommitBatch(p) PROVE ReadInv'
  <2>1. Flushed(p) /\ HasRead(p) /\ job[p] \in Images
    BY <1>6, RaiseWhat, CommitWhat DEF HasRead
  <2>2. \A q \in Procs : Told(q)
    <3>1. CASE DraftRaises(p)
      BY <1>1, <3>1, RaiseWhat DEF HasRead, Updates, OnlyMoves
    <3>2. CASE CommitBatch(p)
      BY <1>1, <3>2, CommitWhat DEF HasRead, Updates, OnlyMoves
    <3>3. QED
      BY <1>6, <3>1, <3>2
  <2>3. batchStatus[BatchIn(p)] # "none"
    BY <2>1 DEF SafeInv, RowInv, UpdaterInv, Updates, HasRead, BatchIn
  <2>4. \A b \in Batches : Written(b)
    BY <2>1, <2>3 DEF Flushed
  <2>5. QED
    BY <1>2, <2>2, <2>4
<1>7. ASSUME NEW p \in Procs, Begins(p) PROVE ReadInv'
  <2>1. \A q \in Procs : Told(q)
    BY <1>1, <1>7, BeginsWhat DEF HasRead, Updates, OnlyMoves
  <2>2. \A b \in Batches : Written(b)
    BY <1>7, BeginsWhat
  <2>3. QED
    BY <1>2, <2>1, <2>2
<1>8. CASE /\ \A b \in Batches : ~EnqueueBuildBatch(b)
           /\ \A p \in Procs : /\ ~Begins(p) /\ ~WinClaim(p) /\ ~ReadBatch(p)
                               /\ ~DraftRaises(p) /\ ~CommitBatch(p)
  <2>0. (\A q \in Procs : Carries(q)) /\ UNCHANGED batchStatus
    BY <1>8, OtherWhat
  <2>1. \A q \in Procs : Told(q)
    BY <1>1, <2>0 DEF HasRead, Updates, Carries
  <2>2. \A b \in Batches : Written(b)
    BY <2>0
  <2>3. QED
    BY <1>2, <2>1, <2>2
<1>9. QED
  BY <1>3, <1>4, <1>5, <1>6, <1>7, <1>8

(* Two updates of a batch whose images are all done do not overlap. *)
LEMMA AloneWhenDone ==
  ASSUME UpdaterInv, NEW p \in Procs, NEW q \in Procs, Updates(p), Updates(q),
         BatchIn(p) = BatchIn(q), AllImagesDone(BatchIn(p))
  PROVE  p = q
  BY DEF UpdaterInv, AllImagesDone, ImagesOf, Done

(* A batch is announced once, by the update that found it unfinished and   *)
(* finishes it.                                                            *)
NoticeInv ==
  /\ \A b \in Batches : finishNotices[b] \in {0, 1}
  /\ \A b \in Batches : finishNotices[b] = 1 => batchStatus[b] \in Terminal
  /\ \A p \in Procs : HasRead(p) /\ ~pend[p].wasTerminal => finishNotices[BatchIn(p)] = 0

(* What writes over a terminal status. *)
LEMMA TerminalStays ==
  ASSUME SafeInv, FreshInv, UpdaterInv, ReadInv, [Next]_vars, NEW b \in Batches, batchStatus[b] \in Terminal
  PROVE  batchStatus'[b] = batchStatus[b]
<1>1. AllImagesDone(b) /\ batchStatus[b] = Aggregate(Statuses(b))
  BY DEF ReadInv, TrueStatus
<1>2. ASSUME NEW c \in Batches, EnqueueBuildBatch(c) PROVE batchStatus'[b] = batchStatus[b]
  BY <1>2, EnqueueWhat DEF Terminal
<1>3. ASSUME NEW p \in Procs, WinClaim(p) PROVE batchStatus'[b] = batchStatus[b]
  BY <1>1, <1>3, WinWhat DEF AllImagesDone, ImagesOf, Done, BatchIn
<1>4. ASSUME NEW p \in Procs, DraftRaises(p) \/ CommitBatch(p) PROVE batchStatus'[b] = batchStatus[b]
  <2>1. Flushed(p) /\ HasRead(p)
    BY <1>4, RaiseWhat, CommitWhat DEF HasRead
  <2>2. CASE BatchIn(p) = b
    <3>1. pend[p].now = batchStatus[b]
      BY <1>1, <2>1, <2>2 DEF ReadInv
    <3>2. QED
      BY <2>1, <2>2, <3>1 DEF Flushed
  <2>3. QED
    BY <2>1, <2>2 DEF Flushed
<1>5. ASSUME NEW p \in Procs, Begins(p) \/ ReadBatch(p) PROVE batchStatus'[b] = batchStatus[b]
  BY <1>5, BeginsWhat, ReadWhat
<1>6. QED
  BY <1>2, <1>3, <1>4, <1>5, OtherWhat

LEMMA StepNotice ==
  ASSUME Sharp, SafeInv, FreshInv, UpdaterInv, ReadInv, NoticeInv, [Next]_vars
  PROVE  NoticeInv'
<1> DEFINE Silent(q) == HasRead(q)' /\ ~pend'[q].wasTerminal => finishNotices'[BatchIn(q)'] = 0
           Kept(q) == HasRead(q)' => HasRead(q) /\ job'[q] = job[q] /\ pend'[q].wasTerminal = pend[q].wasTerminal
<1>1. ASSUME UNCHANGED finishNotices, \A q \in Procs : Silent(q) PROVE NoticeInv'
  BY <1>1, TerminalStays DEF NoticeInv
<1>2. ASSUME UNCHANGED finishNotices, NEW q \in Procs, Kept(q) PROVE Silent(q)
  BY <1>2 DEF NoticeInv, BatchIn
<1>3. ASSUME NEW b \in Batches, EnqueueBuildBatch(b) PROVE NoticeInv'
  <2>1. UNCHANGED finishNotices /\ \A q \in Procs : Kept(q)
    BY <1>3, EnqueueWhat DEF HasRead
  <2>2. QED
    BY <1>1, <1>2, <2>1
<1>4. ASSUME NEW p \in Procs, WinClaim(p) PROVE NoticeInv'
  <2>1. UNCHANGED finishNotices /\ \A q \in Procs : Kept(q)
    BY <1>4, WinWhat DEF HasRead, OnlyMoves, Updates
  <2>2. QED
    BY <1>1, <1>2, <2>1
<1>5. ASSUME NEW p \in Procs, Begins(p) PROVE NoticeInv'
  <2>1. UNCHANGED finishNotices /\ \A q \in Procs : Kept(q)
    BY <1>5, BeginsWhat DEF HasRead, OnlyMoves, Updates
  <2>2. QED
    BY <1>1, <1>2, <2>1
<1>6. ASSUME NEW p \in Procs, DraftRaises(p) PROVE NoticeInv'
  <2>1. UNCHANGED finishNotices /\ \A q \in Procs : Kept(q)
    BY <1>6, RaiseWhat DEF HasRead, OnlyMoves, Updates
  <2>2. QED
    BY <1>1, <1>2, <2>1
<1>7. ASSUME NEW p \in Procs, ReadBatch(p) PROVE NoticeInv'
  <2>1. UNCHANGED finishNotices /\ \A q \in Procs \ {p} : Kept(q)
    BY <1>7, ReadWhat DEF HasRead, OnlyMoves, Updates
  <2>2. Silent(p)
    <3>1. /\ job'[p] = job[p] /\ job[p] \in Images
          /\ pend'[p].wasTerminal <=> batchStatus[BatchIn(p)] \in Terminal
      BY <1>7, ReadWhat
    <3>2. BatchIn(p) \in Batches /\ BatchIn(p)' = BatchIn(p)
      BY <3>1 DEF BatchIn
    <3>3. QED
      BY <2>1, <3>1, <3>2 DEF NoticeInv
  <2>3. QED
    BY <1>1, <1>2, <2>1, <2>2
<1>8. ASSUME NEW p \in Procs, CommitBatch(p) PROVE NoticeInv'
  <2> DEFINE b == BatchIn(p)
  <2>1. /\ OnlyMoves(p) /\ pc[p] = "updating" /\ ~Updates(p)' /\ job[p] \in Images /\ UNCHANGED status
        /\ \A c \in Batches \ {b} : finishNotices'[c] = finishNotices[c]
        /\ \/ finishNotices'[b] = finishNotices[b]
           \/ /\ finishNotices'[b] = finishNotices[b] + 1
              /\ ~pend[p].wasTerminal /\ batchStatus'[b] \in Terminal
    BY <1>8, CommitWhat
  <2>2. b \in Batches /\ HasRead(p) /\ Updates(p)
    BY <2>1 DEF BatchIn, HasRead, Updates
  <2>3. finishNotices'[b] = finishNotices[b] \/ (finishNotices'[b] = 1 /\ batchStatus'[b] \in Terminal)
    BY <2>1, <2>2 DEF NoticeInv
  <2>4. \A c \in Batches : finishNotices'[c] \in {0, 1} /\ (finishNotices'[c] = 1 => batchStatus'[c] \in Terminal)
    BY <2>1, <2>2, <2>3, TerminalStays DEF NoticeInv
  <2>5. ASSUME NEW q \in Procs PROVE Silent(q)
    <3> SUFFICES ASSUME HasRead(q)', ~pend'[q].wasTerminal PROVE finishNotices'[BatchIn(q)'] = 0
      OBVIOUS
    <3>1. q # p
      BY <2>1 DEF HasRead, Updates
    <3>2. HasRead(q) /\ ~pend[q].wasTerminal /\ BatchIn(q)' = BatchIn(q) /\ Updates(q)
      BY <2>1, <3>1 DEF OnlyMoves, HasRead, Updates, BatchIn
    <3>3. BatchIn(q) \in Batches /\ finishNotices[BatchIn(q)] = 0
      BY <3>2 DEF UpdaterInv, BatchIn, NoticeInv
    <3>4. ASSUME BatchIn(q) = b, finishNotices'[b] # finishNotices[b] PROVE FALSE
      <4>1. batchStatus'[b] \in Terminal
        BY <2>1, <3>4
      <4>2. batchStatus[b] \in Terminal \/ pend[p].now \in Terminal
        BY <1>8, <4>1, CommitWhat DEF Flushed
      <4>3. AllImagesDone(b)
        BY <2>2, <4>2 DEF ReadInv, TrueStatus
      <4>4. QED
        BY <2>2, <3>1, <3>2, <3>4, <4>3, AloneWhenDone
    <3>5. QED
      BY <2>1, <2>2, <3>2, <3>3, <3>4
  <2>6. QED
    BY <2>4, <2>5 DEF NoticeInv
<1>9. CASE /\ \A b \in Batches : ~EnqueueBuildBatch(b)
           /\ \A p \in Procs : /\ ~Begins(p) /\ ~WinClaim(p) /\ ~ReadBatch(p)
                               /\ ~DraftRaises(p) /\ ~CommitBatch(p)
  <2>1. UNCHANGED finishNotices /\ \A q \in Procs : Carries(q)
    BY <1>9, OtherWhat
  <2>2. \A q \in Procs : Kept(q)
    BY <2>1 DEF HasRead, Carries, Updates
  <2>3. QED
    BY <1>1, <1>2, <2>1, <2>2
<1>10. QED
  BY <1>3, <1>4, <1>5, <1>6, <1>7, <1>8, <1>9

(* What an update that finishes its batch will write, and what it need not *)
(* write.                                                                  *)
WrittenOf(p) ==
  /\ pend[p].undocumented => BatchIn(p) \notin documented
  /\ pend[p].now = "success" /\ ~pend[p].undocumented => BatchIn(p) \in documented
  /\ ~pend[p].dirty => batchStatus[BatchIn(p)] = pend[p].now

WrittenInv == \A p \in Procs : HasRead(p) /\ pend[p].now \in Terminal => WrittenOf(p)

LEMMA StepWritten ==
  ASSUME Sharp, SafeInv, FreshInv, UpdaterInv, ReadInv, WrittenInv, [Next]_vars
  PROVE  WrittenInv'
<1> SUFFICES ASSUME NEW q \in Procs, HasRead(q)', pend'[q].now \in Terminal PROVE WrittenOf(q)'
  BY DEF WrittenInv
<1>1. ASSUME HasRead(q), job'[q] = job[q], pend'[q] = pend[q],
             batchStatus'[BatchIn(q)] = batchStatus[BatchIn(q)],
             BatchIn(q) \in documented' <=> BatchIn(q) \in documented
      PROVE  WrittenOf(q)'
  BY <1>1 DEF WrittenInv, WrittenOf, BatchIn
<1>2. HasRead(q) => Updates(q) /\ job[q] \in Images /\ BatchIn(q) \in Batches
  BY DEF HasRead, Updates, UpdaterInv, BatchIn
<1>3. ASSUME HasRead(q), pend[q].now \in Terminal
      PROVE  AllImagesDone(BatchIn(q)) /\ \E i \in Images : BatchOf[i] = BatchIn(q) /\ status[i] \in Done
  BY <1>2, <1>3 DEF ReadInv, AllImagesDone, ImagesOf, BatchIn
<1>4. ASSUME NEW b \in Batches, EnqueueBuildBatch(b) PROVE WrittenOf(q)'
  <2>1. HasRead(q) /\ job'[q] = job[q] /\ pend'[q] = pend[q] /\ UNCHANGED documented
    BY <1>4, EnqueueWhat DEF HasRead
  <2>2. b # BatchIn(q)
    BY <1>3, <1>4, <2>1, EnqueueWhat DEF Done
  <2>3. batchStatus'[BatchIn(q)] = batchStatus[BatchIn(q)]
    BY <1>2, <1>4, <2>1, <2>2, EnqueueWhat
  <2>4. QED
    BY <1>1, <2>1, <2>3
<1>5. ASSUME NEW p \in Procs, WinClaim(p) PROVE WrittenOf(q)'
  <2>1. HasRead(q) /\ job'[q] = job[q] /\ pend'[q] = pend[q] /\ UNCHANGED documented
    BY <1>5, WinWhat DEF HasRead, OnlyMoves, Updates
  <2>2. BatchIn(p) # BatchIn(q)
    BY <1>3, <1>5, <2>1, WinWhat DEF Done, AllImagesDone, ImagesOf, BatchIn
  <2>3. batchStatus'[BatchIn(q)] = batchStatus[BatchIn(q)]
    BY <1>2, <1>5, <2>1, <2>2, WinWhat
  <2>4. QED
    BY <1>1, <2>1, <2>3
<1>6. ASSUME NEW p \in Procs, Begins(p) PROVE WrittenOf(q)'
  <2>1. HasRead(q) /\ job'[q] = job[q] /\ pend'[q] = pend[q] /\ UNCHANGED <<batchStatus, documented>>
    BY <1>6, BeginsWhat DEF HasRead, OnlyMoves, Updates
  <2>2. QED
    BY <1>1, <2>1
<1>7. ASSUME NEW p \in Procs, ReadBatch(p) PROVE WrittenOf(q)'
  <2>1. CASE p # q
    <3>1. HasRead(q) /\ job'[q] = job[q] /\ pend'[q] = pend[q] /\ UNCHANGED <<batchStatus, documented>>
      BY <1>7, <2>1, ReadWhat DEF HasRead, OnlyMoves, Updates
    <3>2. QED
      BY <1>1, <3>1
  <2>2. CASE p = q
    <3>1. /\ job'[p] = job[p]
          /\ pend'[p].dirty <=> batchStatus[BatchIn(p)] # pend'[p].now
          /\ pend'[p].undocumented <=> (pend'[p].now = "success" /\ BatchIn(p) \notin documented)
          /\ UNCHANGED <<batchStatus, documented>>
      BY <1>7, ReadWhat
    <3>2. BatchIn(p)' = BatchIn(p)
      BY <3>1 DEF BatchIn
    <3>3. QED
      BY <2>2, <3>1, <3>2 DEF WrittenOf
  <2>3. QED
    BY <2>1, <2>2
<1>8. ASSUME NEW p \in Procs, DraftRaises(p) PROVE WrittenOf(q)'
  <2>1. /\ OnlyMoves(p) /\ pc[p] = "drafting" /\ job'[p] = job[p]
        /\ pend'[p].now = pend[p].now /\ ~pend'[p].dirty
        /\ pend'[p].undocumented = pend[p].undocumented
        /\ Flushed(p) /\ UNCHANGED documented
    BY <1>8, RaiseWhat
  <2>2. CASE p = q
    <3>1. HasRead(p) /\ BatchIn(p)' = BatchIn(p) /\ pend[p].now \in Terminal
      BY <2>1, <2>2 DEF HasRead, BatchIn
    <3>2. WrittenOf(p)
      BY <3>1 DEF WrittenInv
    <3>3. batchStatus'[BatchIn(p)] = pend[p].now
      BY <2>1, <3>2 DEF Flushed, WrittenOf
    <3>4. QED
      BY <2>1, <2>2, <3>1, <3>2, <3>3 DEF WrittenOf
  <2>3. CASE p # q
    <3>1. HasRead(q) /\ job'[q] = job[q] /\ pend'[q] = pend[q]
      BY <2>1, <2>3 DEF HasRead, OnlyMoves
    <3>2. BatchIn(p) # BatchIn(q)
      BY <1>2, <1>3, <2>1, <2>3, <3>1, AloneWhenDone DEF Updates
    <3>3. QED
      BY <1>1, <1>2, <2>1, <3>1, <3>2 DEF Flushed
  <2>4. QED
    BY <2>2, <2>3
<1>9. ASSUME NEW p \in Procs, CommitBatch(p) PROVE WrittenOf(q)'
  <2>1. /\ OnlyMoves(p) /\ pc[p] = "updating" /\ ~Updates(p)' /\ Flushed(p)
        /\ documented' \in {documented, documented \union {BatchIn(p)}}
    BY <1>9, CommitWhat
  <2>2. p # q
    BY <2>1 DEF HasRead, Updates
  <2>3. HasRead(q) /\ job'[q] = job[q] /\ pend'[q] = pend[q]
    BY <2>1, <2>2 DEF HasRead, OnlyMoves
  <2>4. BatchIn(p) # BatchIn(q)
    BY <1>2, <1>3, <2>1, <2>2, <2>3, AloneWhenDone DEF Updates
  <2>5. QED
    BY <1>1, <1>2, <2>1, <2>3, <2>4 DEF Flushed
<1>10. CASE /\ \A b \in Batches : ~EnqueueBuildBatch(b)
            /\ \A p \in Procs : /\ ~Begins(p) /\ ~WinClaim(p) /\ ~ReadBatch(p)
                                /\ ~DraftRaises(p) /\ ~CommitBatch(p)
  <2>1. UNCHANGED <<batchStatus, documented>> /\ Carries(q)
    BY <1>10, OtherWhat
  <2>2. HasRead(q) /\ job'[q] = job[q] /\ pend'[q] = pend[q]
    BY <2>1 DEF HasRead, Carries, Updates
  <2>3. QED
    BY <1>1, <2>1, <2>2
<1>11. QED
  BY <1>4, <1>5, <1>6, <1>7, <1>8, <1>9, <1>10

NoFaults == crashes + dbErrors = 0

IsSettled(b) ==
  /\ batchStatus[b] = Aggregate(Statuses(b))
  /\ b \in documented <=> batchStatus[b] = "success"
  /\ finishNotices[b] = 1

UpdatedIn(b) == \E p \in Procs : Updates(p) /\ BatchIn(p) = b

(* Where nothing failed, a terminal batch has been announced or is about   *)
(* to be, and a batch whose images are done has its outcome, or somebody   *)
(* is going to write it.                                                   *)
AnnouncedInv ==
  /\ \A p \in Procs : HasRead(p) /\ pend[p].wasTerminal => finishNotices[BatchIn(p)] = 1
  /\ \A b \in Batches :
       batchStatus[b] \in Terminal =>
         \/ finishNotices[b] = 1
         \/ \E p \in Procs : pc[p] = "updating" /\ BatchIn(p) = b /\ ~pend[p].wasTerminal

SettledInv ==
  \A b \in Batches : batchStatus[b] # "none" /\ AllImagesDone(b) => UpdatedIn(b) \/ IsSettled(b)

LEMMA FaultsStay ==
  ASSUME SafeInv, [Next]_vars, NoFaults'
  PROVE  /\ NoFaults
         /\ \A p \in Procs : ~Crash(p) /\ ~LoseFailure(p) /\ ~DbError(p)
<1>1. crashes \in Nat /\ dbErrors \in Nat
  BY DEF SafeInv, TypeOK
<1>2. ASSUME NEW p \in Procs, Crash(p) \/ LoseFailure(p) \/ DbError(p) PROVE FALSE
  BY <1>1, <1>2 DEF Crash, LoseFailure, DbError, NoFaults
<1>3. UNCHANGED <<crashes, dbErrors>>
  BY ZenonT(30), <1>2 DEF Next, vars, boundVars, PollThread, EnqueueBuildBatch, EditVersion, ReapStaleRunningJob,
     NothingToReap, NothingToClaim, SelectQueued, LoseClaim, WinClaim, StartRun, SyncRepo, PushImage,
     PublishSuccess, PublishFailure, PublishStatus, ReadBatch, DraftDescription, DraftRaises,
     CommitBatch, DuplicateDocumentation, HeartbeatExpires, HeartbeatTick, Release
<1>4. QED
  BY <1>2, <1>3 DEF NoFaults

(* Nobody documents a batch twice.                                         *)
LEMMA NoDuplicates ==
  ASSUME UpdaterInv, WrittenInv, NEW p \in Procs
  PROVE  ~DuplicateDocumentation(p)
  BY DEF DuplicateDocumentation, UpdaterInv, WrittenInv, WrittenOf, HasRead, BatchIn, Terminal

(* Where nothing fails, an update goes on until it commits.                *)
LEMMA UpdatesGoOn ==
  ASSUME SafeInv, FreshInv, UpdaterInv, WrittenInv, [Next]_vars, NoFaults',
         NEW q \in Procs, Updates(q), ~CommitBatch(q)
  PROVE  /\ Updates(q)' /\ job'[q] = job[q]
         /\ pc[q] = "updating" => pc'[q] = "updating" /\ pend'[q].wasTerminal = pend[q].wasTerminal
<1> DEFINE On == /\ Updates(q)' /\ job'[q] = job[q]
                 /\ pc[q] = "updating" => pc'[q] = "updating" /\ pend'[q].wasTerminal = pend[q].wasTerminal
<1>1. ASSUME NEW p \in Procs, CommitBatch(p) PROVE On
  BY <1>1, CommitWhat DEF OnlyMoves, Updates
<1>2. ASSUME NEW p \in Procs, Begins(p) PROVE On
  BY <1>2, BeginsWhat DEF OnlyMoves, Updates
<1>3. ASSUME NEW p \in Procs, WinClaim(p) PROVE On
  BY <1>3, WinWhat DEF OnlyMoves, Updates
<1>4. ASSUME NEW p \in Procs, ReadBatch(p) PROVE On
  BY <1>4, ReadWhat DEF OnlyMoves, Updates
<1>5. ASSUME NEW p \in Procs, DraftRaises(p) PROVE On
  BY <1>5, RaiseWhat DEF OnlyMoves, Updates
<1>6. ASSUME NEW b \in Batches, EnqueueBuildBatch(b) PROVE On
  BY <1>6, EnqueueWhat DEF Updates
<1>7. CASE /\ \A b \in Batches : ~EnqueueBuildBatch(b)
           /\ \A p \in Procs : /\ ~Begins(p) /\ ~WinClaim(p) /\ ~ReadBatch(p)
                               /\ ~DraftRaises(p) /\ ~CommitBatch(p)
  <2>1. Carries(q) /\ (\/ Updates(q)' \/ crashes' + dbErrors' > 0 \/ DuplicateDocumentation(q))
    BY <1>7, OtherWhat
  <2>2. ~DuplicateDocumentation(q)
    BY NoDuplicates
  <2>3. ~(crashes' + dbErrors' > 0)
    BY DEF NoFaults
  <2>4. Updates(q)'
    BY <2>1, <2>2, <2>3
  <2>5. QED
    BY <2>1, <2>4 DEF Carries
<1>8. QED
  BY <1>1, <1>2, <1>3, <1>4, <1>5, <1>6, <1>7

(* Only a commit counts, once.                                             *)
LEMMA NoticesGrow ==
  ASSUME SafeInv, FreshInv, [Next]_vars, NEW b \in Batches
  PROVE  \/ finishNotices'[b] = finishNotices[b]
         \/ \E p \in Procs : CommitBatch(p) /\ BatchIn(p) = b /\ finishNotices'[b] = finishNotices[b] + 1
<1>1. ASSUME NEW p \in Procs, CommitBatch(p)
      PROVE  \/ finishNotices'[b] = finishNotices[b]
             \/ BatchIn(p) = b /\ finishNotices'[b] = finishNotices[b] + 1
  BY <1>1, CommitWhat
<1>2. ASSUME \A p \in Procs : ~CommitBatch(p) PROVE UNCHANGED finishNotices
  BY <1>2, BeginsWhat, WinWhat, ReadWhat, RaiseWhat, EnqueueWhat, OtherWhat
<1>3. QED
  BY <1>1, <1>2

LEMMA StepAnnounced ==
  ASSUME Sharp, SafeInv, FreshInv, UpdaterInv, ReadInv, NoticeInv, NoticeInv', WrittenInv, AnnouncedInv,
         [Next]_vars, NoFaults'
  PROVE  AnnouncedInv'
<1>1. \A b \in Batches : finishNotices[b] = 1 => finishNotices'[b] = 1
  BY NoticesGrow DEF NoticeInv
<1>2. ASSUME NEW q \in Procs, HasRead(q)', pend'[q].wasTerminal PROVE finishNotices'[BatchIn(q)'] = 1
  <2>1. ASSUME HasRead(q), job'[q] = job[q], pend'[q].wasTerminal = pend[q].wasTerminal
        PROVE  finishNotices'[BatchIn(q)'] = 1
    <3>1. BatchIn(q)' = BatchIn(q) /\ BatchIn(q) \in Batches
      BY <2>1 DEF BatchIn, HasRead, Updates, UpdaterInv
    <3>2. QED
      BY <1>1, <1>2, <2>1, <3>1 DEF AnnouncedInv
  <2>2. CASE ReadBatch(q)
    <3>1. /\ pc[q] \in {"reaped", "finishing"} /\ job'[q] = job[q] /\ job[q] \in Images
          /\ batchStatus[BatchIn(q)] \in Terminal
      BY <1>2, <2>2, ReadWhat
    <3>2. BatchIn(q) \in Batches /\ BatchIn(q)' = BatchIn(q) /\ Updates(q)
      BY <3>1 DEF BatchIn, Updates
    <3>3. AllImagesDone(BatchIn(q))
      BY <3>1, <3>2 DEF ReadInv, TrueStatus
    <3>4. ASSUME NEW r \in Procs, pc[r] = "updating", BatchIn(r) = BatchIn(q) PROVE FALSE
      <4>1. Updates(r)
        BY <3>4 DEF Updates
      <4>2. r = q
        BY <3>2, <3>3, <3>4, <4>1, AloneWhenDone
      <4>3. QED
        BY <3>1, <3>4, <4>2
    <3>5. finishNotices[BatchIn(q)] = 1
      BY <3>1, <3>2, <3>4 DEF AnnouncedInv
    <3>6. QED
      BY <1>1, <3>2, <3>5
  <2>3. CASE ~ReadBatch(q)
    <3>1. HasRead(q) /\ job'[q] = job[q] /\ pend'[q].wasTerminal = pend[q].wasTerminal
      <4>1. ASSUME NEW p \in Procs, CommitBatch(p)
            PROVE HasRead(q) /\ job'[q] = job[q] /\ pend'[q].wasTerminal = pend[q].wasTerminal
        BY <1>2, <4>1, CommitWhat DEF OnlyMoves, Updates, HasRead
      <4>2. ASSUME NEW p \in Procs, Begins(p)
            PROVE HasRead(q) /\ job'[q] = job[q] /\ pend'[q].wasTerminal = pend[q].wasTerminal
        BY <1>2, <4>2, BeginsWhat DEF OnlyMoves, Updates, HasRead
      <4>3. ASSUME NEW p \in Procs, WinClaim(p)
            PROVE HasRead(q) /\ job'[q] = job[q] /\ pend'[q].wasTerminal = pend[q].wasTerminal
        BY <1>2, <4>3, WinWhat DEF OnlyMoves, Updates, HasRead
      <4>4. ASSUME NEW p \in Procs, ReadBatch(p)
            PROVE HasRead(q) /\ job'[q] = job[q] /\ pend'[q].wasTerminal = pend[q].wasTerminal
        BY ZenonT(30), <1>2, <2>3, <4>4, ReadWhat DEF OnlyMoves, Updates, HasRead
      <4>5. ASSUME NEW p \in Procs, DraftRaises(p)
            PROVE HasRead(q) /\ job'[q] = job[q] /\ pend'[q].wasTerminal = pend[q].wasTerminal
        BY <1>2, <4>5, RaiseWhat DEF OnlyMoves, Updates, HasRead
      <4>6. ASSUME NEW b \in Batches, EnqueueBuildBatch(b)
            PROVE HasRead(q) /\ job'[q] = job[q] /\ pend'[q].wasTerminal = pend[q].wasTerminal
        BY <1>2, <4>6, EnqueueWhat DEF HasRead
      <4>7. CASE /\ \A b \in Batches : ~EnqueueBuildBatch(b)
                 /\ \A p \in Procs : /\ ~Begins(p) /\ ~WinClaim(p) /\ ~ReadBatch(p)
                                     /\ ~DraftRaises(p) /\ ~CommitBatch(p)
        <5>1. Carries(q)
          BY <4>7, OtherWhat
        <5>2. QED
          BY <1>2, <5>1 DEF Carries, Updates, HasRead
      <4>8. QED
        BY <4>1, <4>2, <4>3, <4>4, <4>5, <4>6, <4>7
    <3>2. QED
      BY <2>1, <3>1
  <2>4. QED
    BY <2>2, <2>3
<1> DEFINE Told(b) == \/ finishNotices'[b] = 1
                      \/ \E p \in Procs : pc'[p] = "updating" /\ BatchIn(p)' = b /\ ~pend'[p].wasTerminal
<1>3. ASSUME NEW p \in Procs, CommitBatch(p), NEW b \in Batches, BatchIn(p) = b, batchStatus'[b] \in Terminal
      PROVE  finishNotices'[b] = 1
  <2>1. /\ pc[p] = "updating"
        /\ \/ finishNotices'[b] = finishNotices[b] /\ (pend[p].wasTerminal \/ batchStatus'[b] \notin Terminal)
           \/ finishNotices'[b] = finishNotices[b] + 1
    BY <1>3, CommitWhat
  <2>2. CASE finishNotices'[b] = finishNotices[b] /\ pend[p].wasTerminal
    BY <1>3, <2>1, <2>2 DEF AnnouncedInv, HasRead
  <2>3. CASE finishNotices'[b] = finishNotices[b] + 1
    BY <2>3 DEF NoticeInv
  <2>4. QED
    BY <1>3, <2>1, <2>2, <2>3
<1>4. ASSUME NEW b \in Batches, batchStatus'[b] \in Terminal PROVE Told(b)
  <2>1. CASE batchStatus[b] \in Terminal
    <3>1. CASE finishNotices[b] = 1
      BY <1>1, <3>1
    <3>2. CASE finishNotices[b] # 1
      <4>1. PICK p \in Procs : pc[p] = "updating" /\ BatchIn(p) = b /\ ~pend[p].wasTerminal
        BY <2>1, <3>2 DEF AnnouncedInv
      <4>2. CASE CommitBatch(p)
        BY <1>3, <1>4, <4>1, <4>2
      <4>3. CASE ~CommitBatch(p)
        <5>1. pc'[p] = "updating" /\ job'[p] = job[p] /\ pend'[p].wasTerminal = pend[p].wasTerminal
          BY <4>1, <4>3, UpdatesGoOn DEF Updates
        <5>2. QED
          BY <4>1, <5>1 DEF BatchIn
      <4>4. QED
        BY <4>2, <4>3
    <3>3. QED
      BY <3>1, <3>2
  <2>2. CASE batchStatus[b] \notin Terminal
    <3>1. ASSUME NEW c \in Batches, EnqueueBuildBatch(c) PROVE FALSE
      BY <1>4, <2>2, <3>1, EnqueueWhat DEF Terminal
    <3>2. ASSUME NEW p \in Procs, WinClaim(p) PROVE FALSE
      BY <1>4, <2>2, <3>2, WinWhat DEF Terminal
    <3>3. ASSUME NEW p \in Procs, Begins(p) \/ ReadBatch(p) PROVE FALSE
      BY <1>4, <2>2, <3>3, BeginsWhat, ReadWhat
    <3>4. ASSUME NEW p \in Procs, CommitBatch(p) PROVE Told(b)
      <4>1. BatchIn(p) = b
        BY <1>4, <2>2, <3>4, CommitWhat DEF Flushed
      <4>2. QED
        BY <1>3, <1>4, <3>4, <4>1
    <3>5. ASSUME NEW p \in Procs, DraftRaises(p) PROVE Told(b)
      <4>1. /\ pc[p] = "drafting" /\ pc'[p] = "updating" /\ job'[p] = job[p]
            /\ pend'[p].wasTerminal = pend[p].wasTerminal /\ Flushed(p)
        BY <3>5, RaiseWhat
      <4>2. BatchIn(p) = b /\ BatchIn(p)' = b
        BY <1>4, <2>2, <4>1 DEF Flushed, BatchIn
      <4>3. CASE pend[p].wasTerminal
        <5>1. finishNotices[b] = 1
          BY <4>1, <4>2, <4>3 DEF AnnouncedInv, HasRead
        <5>2. QED
          BY <1>1, <5>1
      <4>4. CASE ~pend[p].wasTerminal
        BY <4>1, <4>2, <4>4
      <4>5. QED
        BY <4>3, <4>4
    <3>6. QED
      BY <1>4, <2>2, <3>1, <3>2, <3>3, <3>4, <3>5, OtherWhat
  <2>3. QED
    BY <2>1, <2>2
<1>5. QED
  BY <1>2, <1>4 DEF AnnouncedInv

(* The last image of a batch is done by a step that begins an update.      *)
LEMMA FinishedByUpdate ==
  ASSUME SafeInv, FreshInv, [Next]_vars, NEW b, ~AllImagesDone(b), AllImagesDone(b)'
  PROVE  \E p \in Procs : Begins(p) /\ Updates(p)' /\ BatchIn(p)' = b
<1>1. PICK i \in Images : BatchOf[i] = b /\ status[i] \notin Done /\ status'[i] \in Done
  BY DEF AllImagesDone, ImagesOf
<1>2. ~ \E c \in Batches : EnqueueBuildBatch(c)
  BY <1>1, EnqueueWhat DEF Done
<1>3. ~ \E p \in Procs : WinClaim(p)
  BY <1>1, WinWhat DEF Done
<1>4. ASSUME NEW p \in Procs, ReadBatch(p) \/ DraftRaises(p) \/ CommitBatch(p) PROVE FALSE
  BY <1>1, <1>4, ReadWhat, RaiseWhat, CommitWhat
<1>5. PICK p \in Procs : Begins(p)
  BY <1>1, <1>2, <1>3, <1>4, OtherWhat
<1>6. job'[p] = i /\ pc'[p] \in {"reaped", "finishing"}
  BY <1>1, <1>5, BeginsWhat
<1>7. QED
  BY <1>1, <1>5, <1>6 DEF Updates, BatchIn

LEMMA StepSettled ==
  ASSUME Sharp, SafeInv, FreshInv, UpdaterInv, ReadInv, NoticeInv, NoticeInv', WrittenInv, AnnouncedInv,
         SettledInv, [Next]_vars, NoFaults'
  PROVE  SettledInv'
<1> SUFFICES ASSUME NEW b \in Batches, batchStatus'[b] # "none", AllImagesDone(b)'
             PROVE  UpdatedIn(b)' \/ IsSettled(b)'
  BY DEF SettledInv
<1>1. CASE ~AllImagesDone(b)
  BY <1>1, FinishedByUpdate DEF UpdatedIn
<1>2. CASE AllImagesDone(b)
  <2>1. Statuses(b)' = Statuses(b)
    BY <1>2, DoneBatchStays
  <2>2. batchStatus[b] # "none"
    <3>1. ASSUME EnqueueBuildBatch(b) PROVE FALSE
      BY <1>2, <3>1, EnqueueWhat DEF AllImagesDone, ImagesOf, Done
    <3>2. CASE \E c \in Batches \ {b} : EnqueueBuildBatch(c)
      BY <3>2, EnqueueWhat
    <3>3. ASSUME NEW p \in Procs, WinClaim(p) PROVE batchStatus[b] # "none"
      BY <3>3, WinWhat DEF SafeInv, RowInv, BatchIn
    <3>4. ASSUME NEW p \in Procs, DraftRaises(p) \/ CommitBatch(p) PROVE batchStatus[b] # "none"
      <4>1. Flushed(p) /\ Updates(p)
        BY <3>4, RaiseWhat, CommitWhat DEF Updates
      <4>2. batchStatus[BatchIn(p)] # "none"
        BY <4>1 DEF SafeInv, RowInv, UpdaterInv, BatchIn
      <4>3. QED
        BY <4>1, <4>2 DEF Flushed
    <3>5. CASE \E p \in Procs : Begins(p) \/ ReadBatch(p)
      BY <3>5, BeginsWhat, ReadWhat
    <3>6. QED
      BY <3>1, <3>2, <3>3, <3>4, <3>5, OtherWhat
  <2>3. ASSUME NEW p \in Procs, CommitBatch(p), BatchIn(p) = b PROVE IsSettled(b)'
    <3>1. /\ pc[p] = "updating" /\ Flushed(p)
          /\ pend[p].undocumented => documented' = documented \union {b}
          /\ ~pend[p].undocumented => documented' = documented
          /\ \/ finishNotices'[b] = finishNotices[b] /\ (pend[p].wasTerminal \/ batchStatus'[b] \notin Terminal)
             \/ finishNotices'[b] = finishNotices[b] + 1
      BY <2>3, CommitWhat
    <3>2. HasRead(p) /\ pend[p].now \in Terminal /\ pend[p].now = Aggregate(Statuses(b))
      BY <1>2, <2>3, <3>1 DEF HasRead, ReadInv
    <3>3. WrittenOf(p)
      BY <3>2 DEF WrittenInv
    <3>4. batchStatus'[b] = pend[p].now
      BY <2>3, <3>1, <3>3 DEF Flushed, WrittenOf
    <3>5. finishNotices'[b] = 1
      BY <2>3, <3>1, <3>2, <3>4 DEF NoticeInv, AnnouncedInv
    <3>6. b \in documented' <=> pend[p].now = "success"
      <4>1. pend[p].undocumented => pend[p].now = "success"
        BY <3>2 DEF UpdaterInv
      <4>2. pend[p].now = "success" => b \in documented'
        BY <2>3, <3>1, <3>3 DEF WrittenOf
      <4>3. b \in documented => Statuses(b) = {"success"}
        BY DEF SafeInv, UpdateInv, AllSucceeded, ImagesOf, Statuses
      <4>4. Aggregate({"success"}) = "success"
        BY DEF Aggregate
      <4>5. QED
        BY <3>1, <3>2, <4>1, <4>2, <4>3, <4>4
    <3>7. Aggregate(Statuses(b))' = Aggregate(Statuses(b))
      BY <2>1 DEF Aggregate
    <3>8. QED
      BY <3>2, <3>4, <3>5, <3>6, <3>7 DEF IsSettled
  <2>4. CASE UpdatedIn(b)
    <3>1. PICK p \in Procs : Updates(p) /\ BatchIn(p) = b
      BY <2>4 DEF UpdatedIn
    <3>2. CASE CommitBatch(p)
      BY <2>3, <3>1, <3>2
    <3>3. CASE ~CommitBatch(p)
      <4>1. Updates(p)' /\ job'[p] = job[p]
        BY <3>1, <3>3, UpdatesGoOn
      <4>2. QED
        BY <3>1, <4>1 DEF UpdatedIn, BatchIn
    <3>4. QED
      BY <3>2, <3>3
  <2>5. CASE ~UpdatedIn(b)
    <3>1. IsSettled(b)
      BY <1>2, <2>2, <2>5 DEF SettledInv
    <3>2. batchStatus'[b] = batchStatus[b] /\ finishNotices'[b] = finishNotices[b]
          /\ (b \in documented' <=> b \in documented)
      <4> DEFINE Rest == /\ batchStatus'[b] = batchStatus[b] /\ finishNotices'[b] = finishNotices[b]
                         /\ b \in documented' <=> b \in documented
      <4>1. ASSUME NEW p \in Procs, DraftRaises(p) \/ CommitBatch(p) PROVE Rest
        <5>1. Updates(p)
          BY <4>1, RaiseWhat, CommitWhat DEF Updates
        <5>2. BatchIn(p) # b
          BY <2>5, <5>1 DEF UpdatedIn
        <5>3. CASE DraftRaises(p)
          BY <5>2, <5>3, RaiseWhat DEF Flushed
        <5>4. CASE CommitBatch(p)
          BY <5>2, <5>4, CommitWhat DEF Flushed
        <5>5. QED
          BY <4>1, <5>3, <5>4
      <4>2. ASSUME NEW p \in Procs, WinClaim(p) PROVE Rest
        <5>1. BatchIn(p) # b
          BY <1>2, <4>2, WinWhat DEF AllImagesDone, ImagesOf, Done, BatchIn
        <5>2. QED
          BY <4>2, <5>1, WinWhat
      <4>3. ASSUME NEW c \in Batches, EnqueueBuildBatch(c) PROVE Rest
        BY <2>2, <4>3, EnqueueWhat
      <4>4. ASSUME NEW p \in Procs, Begins(p) \/ ReadBatch(p) PROVE Rest
        BY <4>4, BeginsWhat, ReadWhat
      <4>5. QED
        BY <4>1, <4>2, <4>3, <4>4, OtherWhat
    <3>3. QED
      BY <2>1, <3>1, <3>2 DEF IsSettled, Aggregate
  <2>6. QED
    BY <2>4, <2>5
<1>3. QED
  BY <1>1, <1>2

OutcomeInv ==
  /\ UpdaterInv /\ ReadInv /\ NoticeInv /\ WrittenInv
  /\ NoFaults => AnnouncedInv /\ SettledInv

LEMMA AlwaysOutcome ==
  ASSUME ~LateHeartbeats, ~SlowTransactions
  PROVE  Spec => [](SafeInv /\ FreshInv /\ OutcomeInv)
<1> DEFINE IInv == SafeInv /\ FreshInv /\ OutcomeInv
<1>1. ASSUME Init PROVE IInv
  <2>1. SafeInv
    BY <1>1, InitSafe
  <2>2. FreshInv /\ UpdaterInv /\ WrittenInv
    BY <1>1 DEF Init, FreshInv, Owns, OwnerPcs, UpdaterInv, Updates, HasRead, WrittenInv
  <2>3. ReadInv
    BY <1>1 DEF Init, ReadInv, HasRead, TrueStatus, Terminal
  <2>4. NoticeInv /\ AnnouncedInv
    BY <1>1 DEF Init, NoticeInv, HasRead, AnnouncedInv, Terminal
  <2>5. SettledInv
    BY <1>1 DEF Init, SettledInv
  <2>6. QED
    BY <2>1, <2>2, <2>3, <2>4, <2>5 DEF OutcomeInv
<1>2. ASSUME IInv, [Next]_vars PROVE IInv'
  <2>1. SafeInv' /\ FreshInv'
    BY <1>2, StepSafe, StepFresh
  <2>2. UpdaterInv' /\ ReadInv' /\ NoticeInv' /\ WrittenInv'
    BY <1>2, StepUpdater, StepRead, StepNotice, StepWritten DEF OutcomeInv, Sharp
  <2>3. NoFaults' => AnnouncedInv' /\ SettledInv'
    BY <1>2, <2>2, FaultsStay, StepAnnounced, StepSettled DEF OutcomeInv, Sharp
  <2>4. QED
    BY <2>1, <2>2, <2>3 DEF OutcomeInv
<1>3. QED
  BY <1>1, <1>2, PTL DEF Spec

(* The outcome of a batch is true, announced once at most, and where       *)
(* nothing failed complete, as long as heartbeats are on time and no whole *)
(* build fits inside another process's transaction.                        *)
THEOREM OutcomeIsTrue ==
  ASSUME ~LateHeartbeats, ~SlowTransactions
  PROVE  Spec => []BatchOutcomeIsTrue
<1> DEFINE IInv == SafeInv /\ FreshInv /\ OutcomeInv
<1>1. IInv => BatchOutcomeIsTrue
  <2> SUFFICES ASSUME IInv, NEW b \in Batches PROVE TrueStatus(b) /\ finishNotices[b] <= 1 /\ Settled(b)
    BY DEF BatchOutcomeIsTrue
  <2>1. TrueStatus(b)
    BY DEF OutcomeInv, ReadInv
  <2>2. finishNotices[b] <= 1
    BY DEF OutcomeInv, NoticeInv
  <2>3. Settled(b)
    <3> SUFFICES ASSUME NoFaults, batchStatus[b] # "none", AllImagesDone(b), ~BeingServed(b)
                 PROVE  IsSettled(b)
      BY DEF Settled, NoFaults, IsSettled
    <3>1. ~UpdatedIn(b)
      BY DEF OutcomeInv, UpdatedIn, BeingServed, UpdaterInv, BatchIn, ImagesOf
    <3>2. QED
      BY <3>1 DEF OutcomeInv, SettledInv
  <2>4. QED
    BY <2>1, <2>2, <2>3
<1>2. QED
  BY <1>1, AlwaysOutcome, PTL

-----------------------------------------------------------------------------
(* The batches are the jobs the orchestrator takes them for.               *)

JobMap == [b \in Batches |-> OutcomeOf[batchStatus[b]]]

LEMMA OutcomeValues ==
  /\ OutcomeOf["none"] = "absent" /\ OutcomeOf["queued"] = "open" /\ OutcomeOf["running"] = "open"
  /\ \A s \in Terminal : OutcomeOf[s] = s
BY DEF OutcomeOf, Terminal

(* A batch that exists is open or has ended, and ends once.                *)
LEMMA MoveIsJobStep ==
  ASSUME NEW b \in Batches, NEW s \in BatchStatus \ {"none"},
         batchStatus \in [Batches -> BatchStatus], batchStatus[b] # "none",
         batchStatus[b] \in Terminal => s = batchStatus[b],
         batchStatus' = [batchStatus EXCEPT ![b] = s]
  PROVE  Board!Next \/ JobMap' = JobMap
<1>1. CASE batchStatus[b] \in Terminal
  BY <1>1 DEF JobMap
<1>2. CASE batchStatus[b] \notin Terminal
  <2>1. batchStatus[b] \in {"queued", "running"}
    BY <1>2 DEF BatchStatus
  <2>2. JobMap[b] = "open"
    BY <2>1, OutcomeValues DEF JobMap
  <2>3. CASE s \in Terminal
    <3>1. JobMap' = [JobMap EXCEPT ![b] = s]
      BY <2>3, OutcomeValues DEF JobMap
    <3>2. Board!End(b)
      BY <2>2, <2>3, <3>1 DEF Board!End, Board!Outcomes, JobMap, Terminal
    <3>3. QED
      BY <3>2 DEF Board!Next
  <2>4. CASE s \notin Terminal
    <3>1. s \in {"queued", "running"}
      BY <2>4 DEF BatchStatus
    <3>2. QED
      BY <2>1, <3>1, OutcomeValues DEF JobMap
  <2>5. QED
    BY <2>3, <2>4
<1>3. QED
  BY <1>1, <1>2

LEMMA JobStep ==
  ASSUME SafeInv, FreshInv, UpdaterInv, ReadInv, [Next]_vars
  PROVE  Board!Next \/ JobMap' = JobMap
<1> DEFINE Moves(b, s) == batchStatus' = [batchStatus EXCEPT ![b] = s]
<1> USE DEF SafeInv, TypeOK
<1>0. \A c \in Batches : batchStatus[c] \in Terminal => batchStatus'[c] = batchStatus[c]
  BY TerminalStays
<1>1. ASSUME NEW b \in Batches, EnqueueBuildBatch(b) PROVE Board!Next
  <2>1. batchStatus[b] = "none" /\ batchStatus' = [batchStatus EXCEPT ![b] = "queued"]
    BY <1>1 DEF EnqueueBuildBatch
  <2>2. JobMap[b] = "absent" /\ JobMap' = [JobMap EXCEPT ![b] = "open"]
    BY <2>1, OutcomeValues DEF JobMap
  <2>3. Board!Submit(b)
    BY <2>2 DEF Board!Submit, JobMap
  <2>4. QED
    BY <2>3 DEF Board!Next
<1>2. ASSUME NEW b \in Batches, NEW s \in BatchStatus \ {"none"}, batchStatus[b] # "none", Moves(b, s)
      PROVE  Board!Next \/ JobMap' = JobMap
  <2>1. batchStatus[b] \in Terminal => s = batchStatus[b]
    BY <1>0, <1>2
  <2>2. QED
    BY <1>2, <2>1, MoveIsJobStep
<1>3. ASSUME UNCHANGED batchStatus PROVE JobMap' = JobMap
  BY <1>3 DEF JobMap
<1>4. ASSUME NEW p \in Procs, WinClaim(p) PROVE Board!Next \/ JobMap' = JobMap
  <2>0. PICK b \in Batches : b = BatchOf[job[p]]
    BY <1>4 DEF WinClaim, ClaimInv
  <2>1. batchStatus[b] # "none"
    BY <1>4, <2>0 DEF WinClaim, ClaimInv, RowInv
  <2>2. Moves(b, "running") \/ UNCHANGED batchStatus
    BY <1>4, <2>0 DEF WinClaim
  <2>3. "running" \in BatchStatus \ {"none"}
    BY DEF BatchStatus
  <2>4. QED
    BY <1>2, <1>3, <2>1, <2>2, <2>3
<1>5. ASSUME NEW p \in Procs, DraftRaises(p) \/ CommitBatch(p)
      PROVE  Board!Next \/ JobMap' = JobMap
  <2>0. PICK b \in Batches, now \in BatchStatus \ {"none"} : b = BatchOf[job[p]] /\ now = pend[p].now
    BY <1>5 DEF DraftRaises, CommitBatch, UpdateInv, Pend
  <2>1. batchStatus[b] # "none"
    BY <1>5, <2>0 DEF DraftRaises, CommitBatch, UpdaterInv, Updates, RowInv
  <2>2. Moves(b, now) \/ UNCHANGED batchStatus
    BY <1>5, <2>0 DEF DraftRaises, CommitBatch, FlushBatchStatus
  <2>3. QED
    BY <1>2, <1>3, <2>0, <2>1, <2>2
<1>6. ASSUME NEW p \in Procs, Begins(p) \/ ReadBatch(p) PROVE UNCHANGED batchStatus
  BY <1>6, BeginsWhat, ReadWhat
<1>7. QED
  BY <1>1, <1>3, <1>4, <1>5, <1>6, OtherWhat

(* A batch that has an outcome keeps it and is not reopened, as long as    *)
(* heartbeats are on time and no whole build fits inside another process's *)
(* transaction: the first terminal status the orchestrator sees is final.  *)
THEOREM BatchesKeepTheirOutcome ==
  ASSUME ~LateHeartbeats, ~SlowTransactions
  PROVE  Spec => BatchesAreJobs
<1>1. Init => Board!Init
  BY OutcomeValues DEF Init, Board!Init
<1>2. SafeInv /\ FreshInv /\ OutcomeInv /\ [Next]_vars => [Board!Next]_JobMap
  BY JobStep DEF OutcomeInv
<1>3. QED
  BY <1>1, <1>2, AlwaysOutcome, PTL DEF Spec, BatchesAreJobs, Board!Spec, JobMap

-----------------------------------------------------------------------------
(* A batch that publishes nothing gives its number back.                   *)

(* Nothing failed that is not part of a build, and nobody wrote numbers.   *)
Quiet == NoFaults /\ edits = 0

GivenUp(b)  == AllImagesDone(b) /\ ~Published(b)
Numbered(v) == {b \in Batches : VersionOf[b] = v /\ bumpedFrom[b] # NoNumber}
Keeps(b)    == ~GivenUp(b) \/ UpdatedIn(b)
Kept(v)     == {b \in Numbered(v) : Keeps(b)}

(* A batch was claimed on top of one that then failed.                     *)
Lost(v) == \E b, c \in Numbered(v) : bumpedFrom[b] = NumberOf(c) /\ GivenUp(c)

(* The batches that have not given their numbers back have the numbers up  *)
(* to that of the Version, each its own.                                   *)
Orderly(v) ==
  /\ \A b \in Kept(v) : bumpedFrom[b] < version[v]
  /\ \A b, c \in Kept(v) : bumpedFrom[b] = bumpedFrom[c] => b = c
  /\ \A n \in 0 .. (version[v] - 1) : \E b \in Kept(v) : bumpedFrom[b] = n

(* A batch whose images were claimed has its number.                       *)
NumberInv ==
  /\ \A i \in Images : status[i] \notin {"none", "queued"} => bumpedFrom[BatchOf[i]] # NoNumber
  /\ \A b \in Batches : bumpedFrom[b] # NoNumber => batchStatus[b] # "none"

(* The number a claim begins with is that of its Version, or that of a     *)
(* batch which has given it back since, or another claim has won.          *)
OnTop(v, n) == n = version[v] \/ Lost(v) \/ \E c \in Numbered(v) : GivenUp(c) /\ n = NumberOf(c)
ClaimOf(p) ==
  pc[p] = "claiming" /\ FirstClaim(p) =>
    OnTop(VersionOf[BatchIn(p)], pend[p].number) \/ \E i \in Images : JustBegun(i)

(* The update of a batch that failed has read a number to give back.       *)
RestoreOf(p) ==
  HasRead(p) =>
    /\ pend[p].from = bumpedFrom[BatchIn(p)]
    /\ GivenUp(BatchIn(p)) => pend[p].number # pend[p].from \/ Lost(VersionOf[BatchIn(p)])

GiveBackInv ==
  /\ \A p \in Procs : ClaimOf(p) /\ RestoreOf(p)
  /\ \A v \in Versions : Lost(v) \/ Orderly(v)

(* What a step does to numbers. *)
LEMMA QuietStays ==
  ASSUME SafeInv, [Next]_vars, Quiet'
  PROVE  /\ Quiet /\ NoFaults' /\ \A v \in Versions, n \in EditNumbers : ~EditVersion(v, n)
         /\ \A p \in Procs : ~Crash(p) /\ ~LoseFailure(p) /\ ~DbError(p)
<1>1. NoFaults /\ NoFaults' /\ \A p \in Procs : ~Crash(p) /\ ~LoseFailure(p) /\ ~DbError(p)
  BY FaultsStay DEF Quiet
<1>2. ASSUME NEW v \in Versions, NEW n \in EditNumbers, EditVersion(v, n) PROVE FALSE
  BY <1>2 DEF EditVersion, Quiet, SafeInv, TypeOK
<1>3. UNCHANGED edits
  BY ZenonT(30), <1>1, <1>2 DEF Next, vars, boundVars, PollThread, EnqueueBuildBatch, ReapStaleRunningJob,
     NothingToReap, NothingToClaim, SelectQueued, LoseClaim, WinClaim, StartRun, SyncRepo, PushImage,
     PublishSuccess, PublishFailure, PublishStatus, ReadBatch, DraftDescription, DraftRaises,
     CommitBatch, DuplicateDocumentation, HeartbeatExpires, HeartbeatTick, Release
<1>4. QED
  BY <1>1, <1>2, <1>3 DEF Quiet

LEMMA NumbersRest ==
  ASSUME SafeInv, [Next]_vars, Quiet', \A p \in Procs : ~WinClaim(p)
  PROVE  /\ UNCHANGED bumpedFrom
         /\ (\A p \in Procs : ~CommitBatch(p)) => UNCHANGED version
<1>1. \A v \in Versions, n \in EditNumbers : ~EditVersion(v, n)
  BY QuietStays
<1>2. \A p \in Procs : ~Crash(p) /\ ~LoseFailure(p) /\ ~DbError(p)
  BY QuietStays
<1>3. UNCHANGED bumpedFrom
  BY ZenonT(30), <1>1, <1>2 DEF Next, vars, PollThread, EnqueueBuildBatch, ReapStaleRunningJob,
     NothingToReap, NothingToClaim, SelectQueued, LoseClaim, StartRun, SyncRepo, PushImage,
     PublishSuccess, PublishFailure, PublishStatus, ReadBatch, DraftDescription, DraftRaises,
     CommitBatch, DuplicateDocumentation, HeartbeatExpires, HeartbeatTick, dbVars
<1>4. ASSUME \A p \in Procs : ~CommitBatch(p) PROVE UNCHANGED version
  BY ZenonT(30), <1>1, <1>2, <1>4 DEF Next, vars, PollThread, EnqueueBuildBatch, ReapStaleRunningJob,
     NothingToReap, NothingToClaim, SelectQueued, LoseClaim, StartRun, SyncRepo, PushImage,
     PublishSuccess, PublishFailure, PublishStatus, ReadBatch, DraftDescription, DraftRaises,
     DuplicateDocumentation, HeartbeatExpires, HeartbeatTick, dbVars
<1>5. QED
  BY <1>3, <1>4

(* A failure stays.                                                        *)
LEMMA GivenUpStays ==
  ASSUME SafeInv, FreshInv, [Next]_vars, NEW b, GivenUp(b)
  PROVE  GivenUp(b)'
<1>1. /\ \A i \in Images : BatchOf[i] = b => status'[i] = status[i]
      /\ AllImagesDone(b)'
  BY DoneBatchStays DEF GivenUp
<1>2. QED
  BY <1>1 DEF GivenUp, Published, ImagesOf

LEMMA LostStays ==
  ASSUME SafeInv, FreshInv, BumpInv, [Next]_vars, NEW v, Lost(v)
  PROVE  Lost(v)'
<1>1. PICK b, c \in Numbered(v) : bumpedFrom[b] = NumberOf(c) /\ GivenUp(c)
  BY DEF Lost
<1>2. /\ b \in Batches /\ VersionOf[b] = v /\ bumpedFrom[b] # NoNumber
      /\ c \in Batches /\ VersionOf[c] = v /\ bumpedFrom[c] # NoNumber
  BY <1>1 DEF Numbered
<1>3. bumpedFrom'[b] = bumpedFrom[b] /\ bumpedFrom'[c] = bumpedFrom[c]
  BY <1>2, NumberStays
<1>4. GivenUp(c)'
  BY <1>1, GivenUpStays
<1>5. b \in Numbered(v)' /\ c \in Numbered(v)'
  BY <1>2, <1>3 DEF Numbered
<1>6. bumpedFrom'[b] = NumberOf(c)'
  BY <1>1, <1>3 DEF NumberOf
<1>7. QED
  BY <1>4, <1>5, <1>6 DEF Lost

LEMMA GivenUpByUpdate ==
  ASSUME SafeInv, FreshInv, [Next]_vars, NEW b, ~GivenUp(b), GivenUp(b)'
  PROVE  \E p \in Procs : Begins(p) /\ Updates(p)' /\ BatchIn(p)' = b
<1>1. ASSUME AllImagesDone(b) PROVE FALSE
  <2>1. PICK i \in Images : BatchOf[i] = b /\ status[i] = "success"
    BY <1>1 DEF GivenUp, Published, ImagesOf
  <2>2. status'[i] = "success"
    BY <1>1, <2>1, DoneBatchStays
  <2>3. QED
    BY <2>1, <2>2 DEF GivenUp, Published, ImagesOf
<1>2. QED
  BY <1>1, FinishedByUpdate DEF GivenUp

(* Nobody begins to update a batch that is done.                           *)
LEMMA NoLateUpdate ==
  ASSUME SafeInv, FreshInv, [Next]_vars, NEW b, AllImagesDone(b), NEW q \in Procs, Updates(q)', BatchIn(q)' = b
  PROVE  Updates(q) /\ job'[q] = job[q]
<1>1. ASSUME NEW p \in Procs, Begins(p) PROVE Updates(q) /\ job'[q] = job[q]
  <2>1. job'[p] \in Images /\ status[job'[p]] = "running" /\ OnlyMoves(p)
    BY <1>1, BeginsWhat
  <2>2. BatchOf[job'[p]] # b
    BY <2>1 DEF AllImagesDone, ImagesOf, Done
  <2>3. p # q
    BY <2>2 DEF BatchIn
  <2>4. QED
    BY <2>1, <2>3 DEF OnlyMoves, Updates
<1>2. ASSUME NEW p \in Procs, WinClaim(p) \/ CommitBatch(p) PROVE Updates(q) /\ job'[q] = job[q]
  BY <1>2, WinWhat, CommitWhat DEF OnlyMoves, Updates
<1>3. ASSUME NEW p \in Procs, ReadBatch(p) \/ DraftRaises(p) PROVE Updates(q) /\ job'[q] = job[q]
  BY <1>3, ReadWhat, RaiseWhat DEF OnlyMoves, Updates
<1>4. ASSUME NEW c \in Batches, EnqueueBuildBatch(c) PROVE Updates(q) /\ job'[q] = job[q]
  BY <1>4, EnqueueWhat DEF Updates
<1>5. QED
  BY <1>1, <1>2, <1>3, <1>4, OtherWhat DEF Carries

(* A batch keeps its number until the update that gives it back commits.   *)
LEMMA KeepsStays ==
  ASSUME SafeInv, FreshInv, UpdaterInv, WrittenInv, [Next]_vars, NoFaults', NEW b,
         \A p \in Procs : CommitBatch(p) => BatchIn(p) # b
  PROVE  Keeps(b)' <=> Keeps(b)
<1>1. ASSUME GivenUp(b), UpdatedIn(b)' PROVE UpdatedIn(b)
  BY <1>1, NoLateUpdate DEF UpdatedIn, BatchIn, GivenUp
<1>2. ASSUME UpdatedIn(b) PROVE UpdatedIn(b)'
  BY <1>2, UpdatesGoOn DEF UpdatedIn, BatchIn
<1>3. ~GivenUp(b) /\ GivenUp(b)' => UpdatedIn(b)'
  BY GivenUpByUpdate DEF UpdatedIn
<1>4. GivenUp(b) => GivenUp(b)'
  BY GivenUpStays
<1>5. QED
  BY <1>1, <1>2, <1>3, <1>4 DEF Keeps

(* The commit that gives a number back is the last to update its batch.    *)
LEMMA LastUpdate ==
  ASSUME SafeInv, FreshInv, UpdaterInv, [Next]_vars, NEW p \in Procs, CommitBatch(p), GivenUp(BatchIn(p))
  PROVE  \A b : b = BatchIn(p) => ~Keeps(b)' /\ Keeps(b)
<1> TAKE b
<1> HAVE b = BatchIn(p)
<1>1. Updates(p) /\ OnlyMoves(p) /\ ~Updates(p)'
  BY CommitWhat DEF Updates
<1>2. ASSUME NEW q \in Procs, Updates(q)', BatchIn(q)' = b PROVE FALSE
  <2>1. Updates(q) /\ job'[q] = job[q]
    BY <1>2, NoLateUpdate DEF GivenUp
  <2>2. BatchIn(q) = BatchIn(p)
    BY <1>2, <2>1 DEF BatchIn
  <2>3. q = p
    BY <1>1, <2>1, <2>2, AloneWhenDone DEF GivenUp
  <2>4. QED
    BY <1>1, <1>2, <2>3
<1>3. GivenUp(b)'
  BY GivenUpStays
<1>4. QED
  BY <1>1, <1>2, <1>3 DEF Keeps, UpdatedIn

LEMMA StepNumber ==
  ASSUME SafeInv, FreshInv, BumpInv, UpdaterInv, NumberInv, [Next]_vars
  PROVE  NumberInv'
<1>1. ASSUME NEW b \in Batches, bumpedFrom[b] # NoNumber PROVE bumpedFrom'[b] # NoNumber
  BY <1>1, NumberStays
<1>2. ASSUME NEW b \in Batches, batchStatus[b] # "none" PROVE batchStatus'[b] # "none"
  <2>1. ASSUME NEW p \in Procs, DraftRaises(p) \/ CommitBatch(p) PROVE batchStatus'[b] # "none"
    <3>1. Flushed(p) /\ pc[p] \in {"drafting", "updating"}
      BY <2>1, RaiseWhat, CommitWhat
    <3>2. pend[p].now # "none"
      BY <3>1 DEF SafeInv, UpdateInv
    <3>3. QED
      BY <1>2, <3>1, <3>2 DEF Flushed
  <2>2. ASSUME NEW p \in Procs, WinClaim(p) PROVE batchStatus'[b] # "none"
    BY <1>2, <2>2, WinWhat
  <2>3. ASSUME NEW c \in Batches, EnqueueBuildBatch(c) PROVE batchStatus'[b] # "none"
    BY <1>2, <2>3, EnqueueWhat
  <2>4. ASSUME NEW p \in Procs, Begins(p) \/ ReadBatch(p) PROVE batchStatus'[b] # "none"
    BY <1>2, <2>4, BeginsWhat, ReadWhat
  <2>5. QED
    BY <1>2, <2>1, <2>2, <2>3, <2>4, OtherWhat
<1>3. ASSUME NEW p \in Procs, WinClaim(p)
      PROVE  bumpedFrom'[BatchIn(p)] # NoNumber /\ batchStatus[BatchIn(p)] # "none"
  <2>1. pc[p] = "claiming" /\ Running = {}
    BY <1>3 DEF WinClaim, IndexFree
  <2>2. job[p] \in Images /\ status[job[p]] = "queued"
    BY <2>1 DEF SafeInv, ClaimInv
  <2>3. BatchIn(p) \in Batches
    BY <2>2 DEF BatchIn
  <2>4. bumpedFrom'[BatchIn(p)] # NoNumber
    <3>1. pend[p].from = bumpedFrom[BatchIn(p)]
      BY <2>1 DEF BumpInv, JustBegun, Running, BatchIn
    <3>2. pend[p].number \in Nat /\ bumpedFrom \in [Batches -> Number]
      BY DEF SafeInv, TypeOK, Pend
    <3>3. ASSUME FirstClaim(p) PROVE bumpedFrom'[BatchIn(p)] = pend[p].number
      BY <1>3, <2>3, <3>2, <3>3 DEF WinClaim, BatchIn
    <3>4. ASSUME ~FirstClaim(p) PROVE bumpedFrom'[BatchIn(p)] = bumpedFrom[BatchIn(p)] /\ bumpedFrom[BatchIn(p)] # NoNumber
      BY <1>3, <3>1, <3>4 DEF WinClaim, FirstClaim
    <3>5. QED
      BY <3>2, <3>3, <3>4
  <2>5. batchStatus[BatchIn(p)] # "none"
    BY <2>2 DEF SafeInv, RowInv, BatchIn
  <2>6. QED
    BY <2>4, <2>5
<1>4. ASSUME NEW i \in Images, status'[i] \notin {"none", "queued"}, status[i] \in {"none", "queued"}
      PROVE  \E p \in Procs : WinClaim(p) /\ job[p] = i
  <2>1. status'[i] = "running"
    BY <1>4, StatusWrites
  <2>2. ASSUME NEW c \in Batches, EnqueueBuildBatch(c) PROVE FALSE
    BY <1>4, <2>2 DEF EnqueueBuildBatch, SafeInv, TypeOK
  <2>3. ASSUME NEW p \in Procs, ReadBatch(p) \/ DraftRaises(p) \/ CommitBatch(p) PROVE FALSE
    BY <1>4, <2>3, ReadWhat, RaiseWhat, CommitWhat
  <2>4. ASSUME NEW p \in Procs, Begins(p) PROVE FALSE
    BY <1>4, <2>4, BeginsWhat
  <2>5. PICK p \in Procs : WinClaim(p)
    BY <1>4, <2>2, <2>3, <2>4, OtherWhat
  <2>6. QED
    BY <1>4, <2>5, WinWhat
<1>5. ASSUME NEW i \in Images, status'[i] \notin {"none", "queued"} PROVE bumpedFrom'[BatchOf[i]] # NoNumber
  <2>1. CASE status[i] \in {"none", "queued"}
    BY <1>3, <1>4, <1>5, <2>1 DEF BatchIn
  <2>2. CASE status[i] \notin {"none", "queued"}
    <3>1. BatchOf[i] \in Batches
      OBVIOUS
    <3>2. QED
      BY <1>1, <2>2, <3>1 DEF NumberInv
  <2>3. QED
    BY <2>1, <2>2
<1>6. ASSUME NEW b \in Batches, bumpedFrom'[b] # NoNumber PROVE batchStatus'[b] # "none"
  <2>1. CASE bumpedFrom'[b] = bumpedFrom[b]
    BY <1>2, <1>6, <2>1 DEF NumberInv
  <2>2. ASSUME bumpedFrom'[b] # bumpedFrom[b] PROVE batchStatus[b] # "none"
    <3>1. PICK p \in Procs : WinClaim(p)
      BY <2>2 DEF Next, vars, PollThread, EnqueueBuildBatch, EditVersion, ReapStaleRunningJob,
         NothingToReap, NothingToClaim, SelectQueued, LoseClaim, StartRun, SyncRepo, PushImage,
         PublishSuccess, PublishFailure, PublishStatus, ReadBatch, DraftDescription, DraftRaises,
         CommitBatch, DuplicateDocumentation, HeartbeatExpires, HeartbeatTick, Crash, LoseFailure,
         DbError, Release, dbVars
    <3>2. b = BatchIn(p)
      BY <2>2, <3>1 DEF WinClaim, BatchIn, SafeInv, TypeOK
    <3>3. QED
      BY <1>3, <3>1, <3>2
  <2>3. QED
    BY <1>2, <2>1, <2>2
<1>7. QED
  BY <1>5, <1>6 DEF NumberInv

(* The number of a batch that is to be given back is the last that was     *)
(* given, unless another batch was claimed on top of it.                   *)
LEMMA LastNumber ==
  ASSUME SafeInv, NEW v \in Versions, Orderly(v), ~Lost(v), NEW b \in Kept(v), GivenUp(b)
  PROVE  bumpedFrom[b] \in Nat /\ version[v] = bumpedFrom[b] + 1
<1>1. b \in Numbered(v) /\ bumpedFrom[b] \in Nat /\ version[v] \in Nat /\ bumpedFrom[b] < version[v]
  BY DEF Kept, Numbered, SafeInv, TypeOK, Number, Orderly
<1>2. ASSUME bumpedFrom[b] + 1 < version[v] PROVE FALSE
  <2>1. PICK c \in Kept(v) : bumpedFrom[c] = bumpedFrom[b] + 1
    BY <1>1, <1>2 DEF Orderly
  <2>2. c \in Numbered(v)
    BY DEF Kept
  <2>3. QED
    BY <1>1, <2>1, <2>2 DEF Lost, NumberOf, Bump
<1>3. QED
  BY <1>1, <1>2

(* Whoever has read a batch of which nothing was published has read that.  *)
LEMMA FailedNow ==
  ASSUME SafeInv, ReadInv, UpdaterInv, NEW p \in Procs, HasRead(p)
  PROVE  pend[p].now = "failed" <=> GivenUp(BatchIn(p))
<1> DEFINE b == BatchIn(p)
<1>1. job[p] \in Images /\ job[p] \in ImagesOf(b)
  BY DEF HasRead, Updates, UpdaterInv, ImagesOf, BatchIn
<1>2. ASSUME pend[p].now = "failed" PROVE GivenUp(b)
  <2>1. AllImagesDone(b) /\ Aggregate(Statuses(b)) = "failed"
    BY <1>2 DEF ReadInv, Terminal
  <2>2. Statuses(b) = {"failed"}
    BY <2>1 DEF Aggregate
  <2>3. QED
    BY <2>1, <2>2 DEF GivenUp, Published, Statuses
<1>3. ASSUME GivenUp(b) PROVE pend[p].now = "failed"
  <2>1. pend[p].now = Aggregate(Statuses(b))
    BY <1>3 DEF ReadInv, GivenUp
  <2>2. \A i \in ImagesOf(b) : status[i] = "failed"
    BY <1>3 DEF GivenUp, Published, AllImagesDone, Done
  <2>3. Statuses(b) = {"failed"}
    BY <1>1, <2>2 DEF Statuses
  <2>4. QED
    BY <2>1, <2>3 DEF Aggregate
<1>4. QED
  BY <1>2, <1>3

(* A batch that is updated has its number. *)
LEMMA UpdatedHasNumber ==
  ASSUME SafeInv, UpdaterInv, NumberInv, NEW p \in Procs, Updates(p)
  PROVE  /\ job[p] \in Images /\ BatchIn(p) \in Batches /\ VersionOf[BatchIn(p)] \in Versions
         /\ BatchIn(p) \in Numbered(VersionOf[BatchIn(p)]) /\ bumpedFrom[BatchIn(p)] \in Nat
<1>1. job[p] \in Images /\ status[job[p]] \notin {"none", "queued"}
  BY DEF UpdaterInv
<1>2. BatchIn(p) \in Batches /\ VersionOf[BatchIn(p)] \in Versions
  BY <1>1 DEF BatchIn
<1>3. bumpedFrom[BatchIn(p)] # NoNumber
  BY <1>1 DEF NumberInv, BatchIn
<1>4. QED
  BY <1>1, <1>2, <1>3 DEF Numbered, SafeInv, TypeOK, Number

(* What a commit does to the numbers. *)
LEMMA CommitNumbers ==
  ASSUME SafeInv, NEW p \in Procs, CommitBatch(p)
  PROVE  /\ UNCHANGED bumpedFrom
         /\ Restores(p) => version' = [version EXCEPT ![VersionOf[BatchIn(p)]] = pend[p].from]
         /\ ~Restores(p) => version' = version
         /\ \A q \in Procs : ~WinClaim(q) /\ (CommitBatch(q) => q = p)
<1>1. /\ UNCHANGED bumpedFrom
      /\ Restores(p) => version' = [version EXCEPT ![VersionOf[BatchIn(p)]] = pend[p].from]
      /\ ~Restores(p) => version' = version
  BY DEF CommitBatch, BatchIn
<1>2. ASSUME NEW q \in Procs, WinClaim(q) PROVE FALSE
  BY <1>2, WinWhat, CommitWhat
<1>3. ASSUME NEW q \in Procs, CommitBatch(q), q # p PROVE FALSE
  <2>1. Updates(q) /\ ~Updates(q)'
    BY <1>3, CommitWhat DEF Updates
  <2>2. OnlyMoves(p)
    BY CommitWhat
  <2>3. QED
    BY <1>3, <2>1, <2>2 DEF OnlyMoves, Updates
<1>4. QED
  BY <1>1, <1>2, <1>3

(* What a claim does to the numbers. *)
LEMMA WinNumbers ==
  ASSUME SafeInv, BumpInv, NEW p \in Procs, WinClaim(p)
  PROVE  /\ BatchIn(p) \in Batches /\ VersionOf[BatchIn(p)] \in Versions /\ pend[p].number \in Nat
         /\ FirstClaim(p) => /\ bumpedFrom[BatchIn(p)] = NoNumber
                             /\ bumpedFrom' = [bumpedFrom EXCEPT ![BatchIn(p)] = pend[p].number]
                             /\ version' = [version EXCEPT ![VersionOf[BatchIn(p)]] = pend[p].number + 1]
         /\ ~FirstClaim(p) => UNCHANGED <<bumpedFrom, version>>
         /\ \A i \in Images : ~JustBegun(i)
         /\ pc[p] = "claiming" /\ ~AllImagesDone(BatchIn(p))'
         /\ \A q \in Procs : ~CommitBatch(q)
<1>1. pc[p] = "claiming" /\ Running = {}
  BY DEF WinClaim, IndexFree
<1>2. \A i \in Images : ~JustBegun(i)
  BY <1>1 DEF JustBegun, Running
<1>3. BatchIn(p) \in Batches /\ VersionOf[BatchIn(p)] \in Versions /\ pend[p].number \in Nat
  <2>1. BatchIn(p) \in Batches /\ VersionOf[BatchIn(p)] \in Versions
    BY WinWhat DEF BatchIn
  <2>2. pend[p] \in Pend
    BY DEF SafeInv, TypeOK
  <2>3. QED
    BY <2>1, <2>2 DEF Pend
<1>4. pend[p].from = bumpedFrom[BatchIn(p)]
  BY <1>1, <1>2 DEF BumpInv, BatchIn
<1>5. ~AllImagesDone(BatchIn(p))'
  <2>1. job[p] \in Images /\ status'[job[p]] = "running"
    BY WinWhat
  <2>2. job'[p] = job[p]
    BY DEF WinClaim
  <2>3. QED
    BY <2>1, <2>2 DEF AllImagesDone, ImagesOf, BatchIn, Done
<1>6. ASSUME NEW q \in Procs, CommitBatch(q) PROVE FALSE
  BY <1>6, WinWhat, CommitWhat
<1>7. FirstClaim(p) => /\ bumpedFrom[BatchIn(p)] = NoNumber
                       /\ bumpedFrom' = [bumpedFrom EXCEPT ![BatchIn(p)] = pend[p].number]
                       /\ version' = [version EXCEPT ![VersionOf[BatchIn(p)]] = pend[p].number + 1]
  BY <1>4 DEF FirstClaim, WinClaim, BatchIn, Bump
<1>8. ~FirstClaim(p) => UNCHANGED <<bumpedFrom, version>>
  BY DEF WinClaim
<1>9. QED
  BY <1>1, <1>2, <1>3, <1>5, <1>6, <1>7, <1>8

(* Numbers and keepers unchanged, the order is unchanged.                  *)
LEMMA OrderRests ==
  ASSUME NEW v \in Versions, Orderly(v), version'[v] = version[v],
         \A b \in Batches : VersionOf[b] = v => bumpedFrom'[b] = bumpedFrom[b] /\ (Keeps(b)' <=> Keeps(b))
  PROVE  Orderly(v)'
<1>1. Kept(v)' = Kept(v)
  <2>1. \A b : b \in Kept(v)' <=> b \in Batches /\ VersionOf[b] = v /\ bumpedFrom'[b] # NoNumber /\ Keeps(b)'
    BY DEF Kept, Numbered
  <2>2. \A b : b \in Kept(v) <=> b \in Batches /\ VersionOf[b] = v /\ bumpedFrom[b] # NoNumber /\ Keeps(b)
    BY DEF Kept, Numbered
  <2>3. QED
    BY <2>1, <2>2
<1>2. \A b \in Kept(v) : bumpedFrom'[b] = bumpedFrom[b]
  BY DEF Kept, Numbered
<1>3. QED
  BY <1>1, <1>2 DEF Orderly

LEMMA StepOrderly ==
  ASSUME SafeInv, FreshInv, BumpInv, UpdaterInv, ReadInv, WrittenInv, NumberInv, GiveBackInv,
         [Next]_vars, Quiet', NEW v \in Versions
  PROVE  Lost(v)' \/ Orderly(v)'
<1>1. CASE Lost(v)
  BY <1>1, LostStays
<1>2. CASE ~Lost(v)
  <2> USE <1>2
  <2>1. Orderly(v)
    BY DEF GiveBackInv
  <2>2. NoFaults'
    BY DEF Quiet
  <2>3. bumpedFrom \in [Batches -> Number] /\ version \in [Versions -> Nat]
    BY DEF SafeInv, TypeOK
  <2>4. \A c \in Kept(v) : c \in Batches /\ VersionOf[c] = v /\ bumpedFrom[c] \in Nat /\ Keeps(c)
    BY <2>3 DEF Kept, Numbered, Number
  <2>5. ASSUME NEW b, \A p \in Procs : CommitBatch(p) => BatchIn(p) # b PROVE Keeps(b)' <=> Keeps(b)
    BY <2>2, <2>5, KeepsStays
  <2>6. CASE \A p \in Procs : ~WinClaim(p) /\ ~CommitBatch(p)
    <3>1. UNCHANGED <<bumpedFrom, version>>
      BY <2>6, NumbersRest
    <3>2. \A b \in Batches : Keeps(b)' <=> Keeps(b)
      BY <2>5, <2>6
    <3>3. Orderly(v)'
      BY <2>1, <3>1, <3>2, OrderRests
    <3>4. QED
      BY <3>3
  <2>7. ASSUME NEW p \in Procs, WinClaim(p) PROVE Lost(v)' \/ Orderly(v)'
    <3> DEFINE n == pend[p].number
    <3>1. PICK b \in Batches : b = BatchIn(p)
      BY <2>7, WinNumbers
    <3>2. \A c \in Batches : Keeps(c)' <=> Keeps(c)
      BY <2>5, <2>7, WinNumbers
    <3>3. CASE ~FirstClaim(p) \/ VersionOf[b] # v
      <4>1. version'[v] = version[v] /\ \A c \in Batches : VersionOf[c] = v => bumpedFrom'[c] = bumpedFrom[c]
        BY <2>3, <2>7, <3>1, <3>3, WinNumbers
      <4>2. Orderly(v)'
        BY <2>1, <3>2, <4>1, OrderRests
      <4>3. QED
        BY <4>2
    <3>4. CASE FirstClaim(p) /\ VersionOf[b] = v
      <4>1. /\ n \in Nat /\ bumpedFrom[b] = NoNumber
            /\ bumpedFrom' = [bumpedFrom EXCEPT ![b] = n] /\ version' = [version EXCEPT ![v] = n + 1]
        BY <2>7, <3>1, <3>4, WinNumbers
      <4>2. ~GivenUp(b)'
        <5>1. ~AllImagesDone(BatchIn(p))'
          BY <2>7, WinNumbers
        <5>2. BatchIn(p)' = b
          BY <2>7, <3>1 DEF WinClaim, BatchIn
        <5>3. ~AllImagesDone(b)'
          BY <2>7, <3>1, <5>2, WinWhat DEF AllImagesDone, ImagesOf, Done, BatchIn
        <5>4. QED
          BY <5>3 DEF GivenUp
      <4>3. OnTop(v, n)
        BY <2>7, <3>1, <3>4, WinNumbers DEF GiveBackInv, ClaimOf
      <4>4. CASE n = version[v]
        <5>1. \A c : c \in Kept(v)' <=> c \in Kept(v) \/ c = b
          <6>1. \A c : c \in Kept(v)' <=> c \in Batches /\ VersionOf[c] = v /\ bumpedFrom'[c] # NoNumber /\ Keeps(c)'
            BY DEF Kept, Numbered
          <6>2. \A c : c \in Kept(v) <=> c \in Batches /\ VersionOf[c] = v /\ bumpedFrom[c] # NoNumber /\ Keeps(c)
            BY DEF Kept, Numbered
          <6>3. bumpedFrom'[b] = n /\ n # NoNumber /\ \A c \in Batches \ {b} : bumpedFrom'[c] = bumpedFrom[c]
            BY <2>3, <4>1
          <6>4. Keeps(b)'
            BY <4>2 DEF Keeps
          <6>5. QED
            BY <3>1, <3>2, <3>4, <6>1, <6>2, <6>3, <6>4
        <5>2. /\ bumpedFrom'[b] = version[v] /\ version'[v] = version[v] + 1 /\ version[v] \in Nat
              /\ \A c \in Kept(v) : bumpedFrom'[c] = bumpedFrom[c] /\ bumpedFrom[c] \in Nat /\ bumpedFrom[c] < version[v]
          <6>1. \A c \in Kept(v) : c # b
            BY <2>4, <4>1
          <6>2. QED
            BY <2>1, <2>3, <2>4, <3>1, <4>1, <4>4, <6>1 DEF Orderly
        <5>3. \A c \in Kept(v)' : bumpedFrom'[c] < version'[v]
          BY <5>1, <5>2
        <5>4. ASSUME NEW c \in Kept(v)', NEW d \in Kept(v)', bumpedFrom'[c] = bumpedFrom'[d] PROVE c = d
          BY <2>1, <5>1, <5>2, <5>4 DEF Orderly
        <5>5. ASSUME NEW m \in 0 .. (version'[v] - 1) PROVE \E c \in Kept(v)' : bumpedFrom'[c] = m
          <6>1. CASE m = version[v]
            BY <5>1, <5>2, <6>1
          <6>2. CASE m # version[v]
            <7>1. m \in 0 .. (version[v] - 1)
              BY <5>2, <6>2
            <7>2. PICK c \in Kept(v) : bumpedFrom[c] = m
              BY <2>1, <7>1 DEF Orderly
            <7>3. QED
              BY <5>1, <5>2, <7>2
          <6>3. QED
            BY <6>1, <6>2
        <5>6. Orderly(v)'
          BY <5>3, <5>4, <5>5 DEF Orderly
        <5>7. QED
          BY <5>6
      <4>5. ASSUME NEW c \in Numbered(v), GivenUp(c), n = NumberOf(c) PROVE Lost(v)'
        <5>1. c \in Batches /\ VersionOf[c] = v /\ bumpedFrom[c] # NoNumber
          BY DEF Numbered
        <5>2. bumpedFrom'[c] = bumpedFrom[c] /\ bumpedFrom'[b] = n /\ n # NoNumber
          BY <2>3, <4>1, <5>1
        <5>3. c \in Numbered(v)' /\ b \in Numbered(v)'
          BY <3>4, <5>1, <5>2 DEF Numbered
        <5>4. GivenUp(c)'
          BY <4>5, GivenUpStays
        <5>5. bumpedFrom'[b] = NumberOf(c)'
          BY <4>5, <5>2 DEF NumberOf
        <5>6. QED
          BY <5>3, <5>4, <5>5 DEF Lost
      <4>6. QED
        BY <4>3, <4>4, <4>5 DEF OnTop
    <3>5. QED
      BY <3>3, <3>4
  <2>8. ASSUME NEW p \in Procs, CommitBatch(p) PROVE Orderly(v)'
    <3>1. pc[p] = "updating" /\ Updates(p) /\ HasRead(p)
      BY <2>8, CommitWhat DEF Updates, HasRead
    <3>2. PICK b \in Batches : b = BatchIn(p)
      BY <3>1, UpdatedHasNumber
    <3>3. VersionOf[b] \in Versions /\ b \in Numbered(VersionOf[b]) /\ bumpedFrom[b] \in Nat
      BY <3>1, <3>2, UpdatedHasNumber
    <3>4. /\ UNCHANGED bumpedFrom
          /\ Restores(p) => version' = [version EXCEPT ![VersionOf[b]] = pend[p].from]
          /\ ~Restores(p) => version' = version
      BY <2>8, <3>2, CommitNumbers
    <3>5. \A c \in Batches \ {b} : Keeps(c)' <=> Keeps(c)
      BY <2>5, <2>8, <3>2, CommitNumbers
    <3>6. CASE VersionOf[b] # v
      <4>1. version'[v] = version[v]
        BY <2>3, <3>3, <3>4, <3>6
      <4>2. \A c \in Batches : VersionOf[c] = v => bumpedFrom'[c] = bumpedFrom[c] /\ (Keeps(c)' <=> Keeps(c))
        BY <3>4, <3>5, <3>6
      <4>3. QED
        BY <2>1, <4>1, <4>2, OrderRests
    <3>7. CASE ~GivenUp(b)
      <4>1. ~Restores(p)
        BY <3>1, <3>2, <3>7, FailedNow DEF Restores
      <4>2. ~GivenUp(b)'
        <5>1. UNCHANGED status
          BY <2>8, CommitWhat
        <5>2. QED
          BY <3>7, <5>1 DEF GivenUp, AllImagesDone, Published, ImagesOf
      <4>3. Keeps(b)' <=> Keeps(b)
        BY <3>7, <4>2 DEF Keeps
      <4>4. QED
        BY <2>1, <3>4, <3>5, <4>1, <4>3, OrderRests
    <3>8. CASE GivenUp(b) /\ VersionOf[b] = v
      <4>1. ~Keeps(b)' /\ Keeps(b)
        BY <2>8, <3>2, <3>8, LastUpdate
      <4>2. b \in Kept(v)
        BY <3>3, <3>8, <4>1 DEF Kept
      <4>3. version[v] = bumpedFrom[b] + 1
        BY <2>1, <3>8, <4>2, LastNumber
      <4>4. Restores(p) /\ pend[p].from = bumpedFrom[b]
        <5>1. pend[p].now = "failed"
          BY <3>1, <3>2, <3>8, FailedNow
        <5>2. pend[p].from = bumpedFrom[b] /\ pend[p].number # pend[p].from
          BY <3>1, <3>2, <3>8 DEF GiveBackInv, RestoreOf
        <5>3. QED
          BY <3>3, <5>1, <5>2 DEF Restores
      <4>5. version'[v] = bumpedFrom[b]
        BY <2>3, <3>4, <3>8, <4>4
      <4>6. \A c : c \in Kept(v)' <=> c \in Kept(v) /\ c # b
        <5>1. \A c : c \in Kept(v)' <=> c \in Batches /\ VersionOf[c] = v /\ bumpedFrom'[c] # NoNumber /\ Keeps(c)'
          BY DEF Kept, Numbered
        <5>2. \A c : c \in Kept(v) <=> c \in Batches /\ VersionOf[c] = v /\ bumpedFrom[c] # NoNumber /\ Keeps(c)
          BY DEF Kept, Numbered
        <5>3. QED
          BY <3>4, <3>5, <4>1, <5>1, <5>2
      <4>7. \A c \in Kept(v)' : bumpedFrom'[c] < version'[v]
        <5> TAKE c \in Kept(v)'
        <5>1. c \in Kept(v) /\ c # b
          BY <4>6
        <5>2. bumpedFrom[c] < version[v] /\ bumpedFrom[c] # bumpedFrom[b] /\ bumpedFrom[c] \in Nat
          BY <2>1, <2>4, <4>2, <5>1 DEF Orderly
        <5>3. QED
          BY <3>3, <3>4, <4>3, <4>5, <5>2
      <4>8. \A c, d \in Kept(v)' : bumpedFrom'[c] = bumpedFrom'[d] => c = d
        BY <2>1, <3>4, <4>6 DEF Orderly
      <4>9. ASSUME NEW m \in 0 .. (version'[v] - 1) PROVE \E c \in Kept(v)' : bumpedFrom'[c] = m
        <5>1. m \in 0 .. (version[v] - 1) /\ m # bumpedFrom[b]
          BY <3>3, <4>3, <4>5
        <5>2. PICK c \in Kept(v) : bumpedFrom[c] = m
          BY <2>1, <5>1 DEF Orderly
        <5>3. QED
          BY <3>4, <4>6, <5>1, <5>2
      <4>10. QED
        BY <4>7, <4>8, <4>9 DEF Orderly
    <3>9. QED
      BY <3>6, <3>7, <3>8
  <2>9. QED
    BY <2>6, <2>7, <2>8
<1>3. QED
  BY <1>1, <1>2

(* What a claim has read stays on top.                                     *)
LEMMA StepClaim ==
  ASSUME Sharp, SafeInv, FreshInv, BumpInv, UpdaterInv, ReadInv, WrittenInv, NumberInv, GiveBackInv,
         [Next]_vars, Quiet', NEW q \in Procs
  PROVE  ClaimOf(q)'
<1> SUFFICES ASSUME pc'[q] = "claiming", FirstClaim(q)',
                    NEW v \in Versions, v = VersionOf[BatchOf[job'[q]]], NEW n, n = pend'[q].number
             PROVE  OnTop(v, n)' \/ \E i \in Images : JustBegun(i)'
  <2>1. ASSUME pc'[q] = "claiming" PROVE VersionOf[BatchOf[job'[q]]] \in Versions
    <3>1. SafeInv'
      BY StepSafe
    <3>2. job'[q] \in Images
      BY <2>1, <3>1 DEF SafeInv, ClaimInv
    <3>3. BatchOf[job'[q]] \in Batches
      BY <3>2
    <3>4. QED
      BY <3>3
  <2>2. ASSUME pc'[q] = "claiming", FirstClaim(q)'
        PROVE  OnTop(VersionOf[BatchIn(q)], pend[q].number)' \/ \E i \in Images : JustBegun(i)'
    BY <2>1, <2>2 DEF OnTop, BatchIn
  <2>3. QED
    BY <2>2 DEF ClaimOf
<1>1. ASSUME NEW i \in Images, SelectQueued(q, i) PROVE OnTop(v, n)'
  <2> DEFINE read == [NoPend EXCEPT !.from = bumpedFrom[BatchOf[i]],
                                    !.number = version[VersionOf[BatchOf[i]]]]
  <2>1. read.number = version[VersionOf[BatchOf[i]]]
    BY DEF NoPend
  <2>2. pend' = [pend EXCEPT ![q] = read] /\ job' = [job EXCEPT ![q] = i] /\ UNCHANGED version
    BY <1>1 DEF SelectQueued, dbVars
  <2> HIDE DEF read
  <2>3. n = version'[v]
    BY <2>1, <2>2 DEF SafeInv, TypeOK
  <2>4. QED
    BY <2>3 DEF OnTop
<1>2. ASSUME NEW p \in Procs, WinClaim(p) PROVE \E i \in Images : JustBegun(i)'
  BY <1>2, WinnerBegins
<1>3. ASSUME \A i \in Images : ~SelectQueued(q, i), \A p \in Procs : ~WinClaim(p)
      PROVE  OnTop(v, n)' \/ \E i \in Images : JustBegun(i)'
  <2>1. pc[q] = "claiming" /\ pend'[q] = pend[q] /\ job'[q] = job[q]
    BY <1>3, ClaimerStays
  <2>2. OnTop(v, n) \/ \E i \in Images : JustBegun(i)
    BY <2>1 DEF GiveBackInv, ClaimOf, FirstClaim, BatchIn
  <2>3. ASSUME NEW i \in Images, JustBegun(i) PROVE JustBegun(i)'
    BY <2>1, <2>3, BegunStays DEF ShortPcs, Sharp
  <2>4. UNCHANGED bumpedFrom
    BY <1>3, NumbersRest
  <2>5. ASSUME Lost(v) PROVE OnTop(v, n)'
    <3>1. Lost(v)'
      BY <2>5, LostStays
    <3>2. QED
      BY <3>1 DEF OnTop
  <2>6. ASSUME NEW c \in Numbered(v), GivenUp(c), n = NumberOf(c) PROVE OnTop(v, n)'
    <3>1. GivenUp(c)'
      BY <2>6, GivenUpStays
    <3>2. c \in Numbered(v)' /\ n = NumberOf(c)'
      BY <2>4, <2>6 DEF Numbered, NumberOf
    <3>3. QED
      BY <3>1, <3>2 DEF OnTop
  <2>7. ASSUME n = version[v], ~Lost(v) PROVE OnTop(v, n)'
    <3>1. CASE version'[v] = version[v]
      BY <2>7, <3>1 DEF OnTop
    <3>2. CASE version'[v] # version[v]
      <4>1. PICK p \in Procs : CommitBatch(p)
        BY <1>3, <3>2, NumbersRest
      <4>2. pc[p] = "updating" /\ Updates(p) /\ HasRead(p)
        BY <4>1, CommitWhat DEF Updates, HasRead
      <4>3. PICK b \in Batches : b = BatchIn(p)
        BY <4>2, UpdatedHasNumber
      <4>4. Restores(p) /\ VersionOf[b] = v
        BY <3>2, <4>1, <4>3, CommitNumbers DEF SafeInv, TypeOK
      <4>5. b \in Numbered(v)
        BY <4>2, <4>3, <4>4, UpdatedHasNumber
      <4>6. GivenUp(b)
        BY <4>2, <4>3, <4>4, FailedNow DEF Restores
      <4>7. b \in Kept(v)
        BY <4>1, <4>3, <4>5, <4>6, LastUpdate DEF Kept
      <4>8. Orderly(v)
        BY <2>7 DEF GiveBackInv
      <4>9. n = NumberOf(b)
        BY <2>7, <4>6, <4>7, <4>8, LastNumber DEF NumberOf, Bump
      <4>10. QED
        BY <2>6, <4>5, <4>6, <4>9
    <3>3. QED
      BY <3>1, <3>2
  <2>8. QED
    BY <2>2, <2>3, <2>5, <2>6, <2>7 DEF OnTop
<1>4. QED
  BY <1>1, <1>2, <1>3

(* An update keeps the numbers that it has read.                           *)
LEMMA ReaderStays ==
  ASSUME SafeInv, FreshInv, [Next]_vars, NEW q \in Procs, HasRead(q)', ~ReadBatch(q)
  PROVE  /\ HasRead(q) /\ job'[q] = job[q]
         /\ pend'[q].from = pend[q].from /\ pend'[q].number = pend[q].number
<1> DEFINE Same == /\ HasRead(q) /\ job'[q] = job[q]
                   /\ pend'[q].from = pend[q].from /\ pend'[q].number = pend[q].number
<1>1. ASSUME NEW p \in Procs, CommitBatch(p) PROVE Same
  BY <1>1, CommitWhat DEF OnlyMoves, Updates, HasRead
<1>2. ASSUME NEW p \in Procs, Begins(p) PROVE Same
  BY <1>2, BeginsWhat DEF OnlyMoves, Updates, HasRead
<1>3. ASSUME NEW p \in Procs, WinClaim(p) PROVE Same
  BY <1>3, WinWhat DEF OnlyMoves, Updates, HasRead
<1>4. ASSUME NEW p \in Procs, ReadBatch(p) PROVE Same
  <2>1. p # q /\ OnlyMoves(p)
    BY <1>4, ReadWhat
  <2>2. QED
    BY <2>1 DEF OnlyMoves, HasRead
<1>5. ASSUME NEW p \in Procs, DraftRaises(p) PROVE Same
  <2>1. OnlyMoves(p) /\ pc[p] = "drafting" /\ job'[p] = job[p]
    BY <1>5, RaiseWhat
  <2>2. CASE p # q
    BY <2>1, <2>2 DEF OnlyMoves, HasRead
  <2>3. CASE p = q
    <3>1. pend' = [pend EXCEPT ![q].dirty = FALSE]
      BY <1>5, <2>3 DEF DraftRaises
    <3>2. pend'[q].from = pend[q].from /\ pend'[q].number = pend[q].number
      BY <3>1 DEF SafeInv, TypeOK, Pend
    <3>3. QED
      BY <2>1, <2>3, <3>2 DEF HasRead
  <2>4. QED
    BY <2>2, <2>3
<1>6. ASSUME NEW b \in Batches, EnqueueBuildBatch(b) PROVE Same
  BY <1>6, EnqueueWhat DEF HasRead
<1>7. CASE /\ \A b \in Batches : ~EnqueueBuildBatch(b)
           /\ \A p \in Procs : /\ ~Begins(p) /\ ~WinClaim(p) /\ ~ReadBatch(p)
                               /\ ~DraftRaises(p) /\ ~CommitBatch(p)
  <2>1. Carries(q)
    BY <1>7, OtherWhat
  <2>2. QED
    BY <2>1 DEF Carries, Updates, HasRead
<1>8. QED
  BY <1>1, <1>2, <1>3, <1>4, <1>5, <1>6, <1>7

LEMMA StepRestore ==
  ASSUME SafeInv, FreshInv, BumpInv, UpdaterInv, UpdaterInv', NumberInv, GiveBackInv,
         [Next]_vars, NEW q \in Procs
  PROVE  RestoreOf(q)'
<1> SUFFICES ASSUME HasRead(q)', NEW b, b = BatchOf[job'[q]]
             PROVE  /\ pend'[q].from = bumpedFrom'[b]
                    /\ GivenUp(b)' => pend'[q].number # pend'[q].from \/ Lost(VersionOf[b])'
  <2>1. GivenUp(BatchIn(q))' <=> (\E b : b = BatchOf[job'[q]] /\ GivenUp(b)')
    BY DEF BatchIn, GivenUp, AllImagesDone, Published, ImagesOf
  <2>2. Lost(VersionOf[BatchIn(q)])' <=> (\E b : b = BatchOf[job'[q]] /\ Lost(VersionOf[b])')
    BY DEF BatchIn, Lost, Numbered
  <2>3. QED
    BY <2>1, <2>2 DEF RestoreOf, BatchIn
<1>1. CASE ReadBatch(q)
  <2>1. /\ pc[q] \in {"reaped", "finishing"} /\ job'[q] = job[q] /\ UNCHANGED status
    BY <1>1, ReadWhat
  <2>2. Updates(q) /\ b = BatchIn(q)
    BY <2>1 DEF Updates, BatchIn
  <2>3. /\ pend'[q].from = bumpedFrom[b] /\ pend'[q].number = version[VersionOf[b]]
        /\ UNCHANGED <<bumpedFrom, version>>
    BY <1>1, <2>2 DEF ReadBatch, BatchIn, dbVars, SafeInv, TypeOK
  <2>4. ASSUME GivenUp(b)', ~Lost(VersionOf[b])' PROVE pend'[q].number # pend'[q].from
    <3>1. PICK v \in Versions : v = VersionOf[b]
      BY <2>2, UpdatedHasNumber
    <3>2. ~Lost(v)
      BY <2>4, <3>1, LostStays
    <3>3. GivenUp(b)
      BY <2>1, <2>4 DEF GivenUp, AllImagesDone, Published, ImagesOf
    <3>4. b \in Kept(v)
      BY <2>2, <3>1, UpdatedHasNumber DEF Kept, Keeps, UpdatedIn
    <3>5. version[v] = bumpedFrom[b] + 1 /\ bumpedFrom[b] \in Nat
      BY <3>2, <3>3, <3>4, LastNumber DEF GiveBackInv
    <3>6. QED
      BY <2>3, <3>1, <3>5
  <2>5. QED
    BY <2>3, <2>4
<1>2. CASE ~ReadBatch(q)
  <2>1. /\ HasRead(q) /\ job'[q] = job[q] /\ b = BatchIn(q)
        /\ pend'[q].from = pend[q].from /\ pend'[q].number = pend[q].number
    BY <1>2, ReaderStays DEF BatchIn
  <2>2. Updates(q)
    BY <2>1 DEF Updates, HasRead
  <2>3. b \in Batches /\ bumpedFrom[b] # NoNumber
    BY <2>1, <2>2, UpdatedHasNumber
  <2>4. bumpedFrom'[b] = bumpedFrom[b]
    BY <2>3, NumberStays
  <2>5. pend[q].from = bumpedFrom[b]
    BY <2>1 DEF GiveBackInv, RestoreOf
  <2>6. ASSUME GivenUp(b)' PROVE GivenUp(b)
    <3>1. SUFFICES ASSUME ~GivenUp(b) PROVE FALSE
      OBVIOUS
    <3>2. PICK p \in Procs : Begins(p) /\ Updates(p)' /\ BatchIn(p)' = b
      BY <2>6, <3>1, GivenUpByUpdate
    <3>3. p # q
      BY <3>2, BeginsWhat DEF HasRead
    <3>4. Updates(q)' /\ BatchIn(q)' = b
      BY DEF Updates, HasRead, BatchIn
    <3>5. \E i \in Images : BatchOf[i] = b /\ status'[i] = "running"
      BY <3>2, <3>3, <3>4 DEF UpdaterInv
    <3>6. QED
      BY <2>6, <3>5 DEF GivenUp, AllImagesDone, ImagesOf, Done
  <2>7. ASSUME Lost(VersionOf[b]) PROVE Lost(VersionOf[b])'
    BY <2>7, LostStays
  <2>8. GivenUp(b) => pend[q].number # pend[q].from \/ Lost(VersionOf[b])
    BY <2>1 DEF GiveBackInv, RestoreOf
  <2>9. QED
    BY <2>1, <2>4, <2>5, <2>6, <2>7, <2>8
<1>3. QED
  BY <1>1, <1>2

(* Numbers in order count those who have them. *)
LEMMA OrderCounts ==
  ASSUME NEW v \in Versions, version[v] \in Nat, Orderly(v), \A b \in Kept(v) : bumpedFrom[b] \in Nat
  PROVE  Cardinality(Kept(v)) = version[v]
<1> DEFINE f == [m \in 1 .. version[v] |-> CHOOSE b \in Kept(v) : bumpedFrom[b] = m - 1]
<1>1. ASSUME NEW m \in 1 .. version[v] PROVE f[m] \in Kept(v) /\ bumpedFrom[f[m]] = m - 1
  <2>1. m - 1 \in 0 .. (version[v] - 1)
    OBVIOUS
  <2>2. \E b \in Kept(v) : bumpedFrom[b] = m - 1
    BY <2>1 DEF Orderly
  <2>3. QED
    BY <2>2
<1>2. f \in [1 .. version[v] -> Kept(v)]
  BY <1>1
<1>3. ASSUME NEW m \in 1 .. version[v], NEW k \in 1 .. version[v], f[m] = f[k] PROVE m = k
  <2>1. m - 1 = k - 1
    BY <1>1, <1>3
  <2>2. QED
    BY <2>1
<1>4. ASSUME NEW b \in Kept(v) PROVE \E m \in 1 .. version[v] : f[m] = b
  <2>1. bumpedFrom[b] \in Nat /\ bumpedFrom[b] < version[v]
    BY DEF Orderly
  <2>2. bumpedFrom[b] + 1 \in 1 .. version[v]
    BY <2>1
  <2>3. f[bumpedFrom[b] + 1] \in Kept(v) /\ bumpedFrom[f[bumpedFrom[b] + 1]] = bumpedFrom[b]
    BY <1>1, <2>1, <2>2
  <2>4. f[bumpedFrom[b] + 1] = b
    BY <2>3 DEF Orderly
  <2>5. QED
    BY <2>2, <2>4
<1> HIDE DEF f
<1>5. ExistsBijection(1 .. version[v], Kept(v))
  <2>1. IsInjective(f)
    BY <1>2, <1>3 DEF IsInjective
  <2>2. f \in Bijection(1 .. version[v], Kept(v))
    BY <1>2, <1>4, <2>1 DEF Bijection, Injection, Surjection
  <2>3. QED
    BY <2>2 DEF ExistsBijection
<1>6. QED
  BY <1>5, FS_CountingElements

(* A batch that failed outright has given its number back once everything  *)
(* is idle, or another was claimed on top of it: as long as heartbeats are *)
(* on time, no whole build fits inside another process's transaction,      *)
(* nothing fails but builds, and nobody types numbers.                     *)
THEOREM NumbersAreGivenBack ==
  ASSUME ~LateHeartbeats, ~SlowTransactions
  PROVE  Spec => []FailedBatchesGiveBack
<1> DEFINE IInv == /\ SafeInv /\ FreshInv /\ BumpInv /\ UpdaterInv /\ ReadInv /\ WrittenInv /\ NumberInv
                   /\ Quiet => GiveBackInv
<1>1. ASSUME Init PROVE IInv
  <2>1. SafeInv
    BY <1>1, InitSafe
  <2>2. FreshInv /\ UpdaterInv /\ WrittenInv /\ BumpInv
    BY <1>1 DEF Init, FreshInv, Owns, OwnerPcs, UpdaterInv, Updates, HasRead, WrittenInv, BumpInv
  <2>3. ReadInv
    BY <1>1 DEF Init, ReadInv, HasRead, TrueStatus, Terminal
  <2>4. NumberInv
    BY <1>1 DEF Init, NumberInv
  <2>5. \A p \in Procs : ClaimOf(p) /\ RestoreOf(p)
    BY <1>1 DEF Init, ClaimOf, RestoreOf, HasRead
  <2>6. ASSUME NEW v \in Versions PROVE Orderly(v)
    <3>1. Kept(v) = {} /\ version[v] = 0
      BY <1>1 DEF Init, Kept, Numbered
    <3>2. QED
      BY <3>1 DEF Orderly
  <2>7. GiveBackInv
    BY <2>5, <2>6 DEF GiveBackInv
  <2>8. QED
    BY <2>1, <2>2, <2>3, <2>4, <2>7
<1>2. ASSUME IInv, [Next]_vars PROVE IInv'
  <2>1. SafeInv' /\ FreshInv' /\ BumpInv'
    BY <1>2, StepSafe, StepFresh, StepBump
  <2>2. UpdaterInv' /\ ReadInv' /\ WrittenInv'
    BY <1>2, StepUpdater, StepRead, StepWritten DEF Sharp
  <2>3. NumberInv'
    BY <1>2, StepNumber
  <2>4. ASSUME Quiet' PROVE GiveBackInv'
    <3>1. GiveBackInv
      BY <1>2, <2>4, QuietStays
    <3>2. ASSUME NEW p \in Procs PROVE ClaimOf(p)' /\ RestoreOf(p)'
      BY <1>2, <2>2, <2>4, <3>1, StepClaim, StepRestore DEF Sharp
    <3>3. ASSUME NEW v \in Versions PROVE Lost(v)' \/ Orderly(v)'
      BY <1>2, <2>4, <3>1, StepOrderly
    <3>4. QED
      BY <3>2, <3>3 DEF GiveBackInv
  <2>5. QED
    BY <2>1, <2>2, <2>3, <2>4
<1>3. IInv => FailedBatchesGiveBack
  <2> SUFFICES ASSUME IInv, crashes + dbErrors + edits = 0, \A p \in Procs : job[p] = NoImage,
                      \A b \in Batches : batchStatus[b] # "none" => AllImagesDone(b), NEW v \in Versions
               PROVE  \/ ClaimedOnTop(v)
                      \/ version[v] = Cardinality({b \in Batches : VersionOf[b] = v /\ Published(b)})
    BY DEF FailedBatchesGiveBack
  <2>1. Quiet
    BY DEF Quiet, NoFaults, SafeInv, TypeOK
  <2>2. Lost(v) => ClaimedOnTop(v)
    BY DEF Lost, ClaimedOnTop, Numbered, GivenUp
  <2>3. ASSUME ~Lost(v) PROVE version[v] = Cardinality({b \in Batches : VersionOf[b] = v /\ Published(b)})
    <3>1. Orderly(v) /\ version[v] \in Nat
      BY <2>1, <2>3 DEF GiveBackInv, SafeInv, TypeOK
    <3>2. \A b \in Kept(v) : bumpedFrom[b] \in Nat
      BY DEF Kept, Numbered, SafeInv, TypeOK, Number
    <3>3. \A b \in Batches : ~UpdatedIn(b)
      BY DEF UpdatedIn, UpdaterInv
    <3>4. ASSUME NEW b \in Kept(v) PROVE b \in Batches /\ VersionOf[b] = v /\ Published(b)
      <4>1. b \in Batches /\ VersionOf[b] = v /\ bumpedFrom[b] # NoNumber /\ Keeps(b)
        BY DEF Kept, Numbered
      <4>2. AllImagesDone(b)
        BY <4>1 DEF NumberInv
      <4>3. QED
        BY <3>3, <4>1, <4>2 DEF Keeps, GivenUp
    <3>5. ASSUME NEW b \in Batches, VersionOf[b] = v, Published(b) PROVE b \in Kept(v)
      <4>1. PICK i \in Images : BatchOf[i] = b /\ status[i] = "success"
        BY <3>5 DEF Published, ImagesOf
      <4>2. bumpedFrom[b] # NoNumber
        BY <4>1 DEF NumberInv
      <4>3. QED
        BY <3>5, <4>2 DEF Kept, Numbered, Keeps, GivenUp
    <3>6. Kept(v) = {b \in Batches : VersionOf[b] = v /\ Published(b)}
      BY <3>4, <3>5
    <3>7. QED
      BY <3>1, <3>2, <3>6, OrderCounts
  <2>4. QED
    BY <2>2, <2>3
<1>4. QED
  BY <1>1, <1>2, <1>3, PTL DEF Spec
=============================================================================
