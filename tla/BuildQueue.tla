------------------------------ MODULE BuildQueue ------------------------------
(***************************************************************************)
(* The build queue of app/services/build/worker.py: one poll thread and    *)
(* one heartbeat thread per gunicorn worker process, sharing the           *)
(* image_builds, build_batches, versions and version_documentations tables *)
(* of one PostgreSQL database.  A step is one committed transaction, one   *)
(* read a later commit depends on, or one call to an external service.     *)
(***************************************************************************)
EXTENDS Naturals, FiniteSets

CONSTANTS
  Procs,             (* worker processes (gunicorn --workers)               *)
  Images,            (* ImageBuild rows that may be enqueued                *)
  Batches,           (* BuildBatch rows that may be enqueued                *)
  Versions,          (* Version rows                                        *)
  BatchOf,           (* ImageBuild.batch_id                                 *)
  VersionOf,         (* BuildBatch.version_id                               *)
  CreatedAt,         (* ImageBuild.created_at, the claim order              *)
  NoImage,           (* a process with no job                               *)
  NoNumber,          (* bumped_from_* and full_version_string still NULL    *)
  EditNumbers,       (* numbers a user may type into the Version edit form  *)
  MaxEdits,          (* bound: submissions of the Version edit form         *)
  MaxCrashes,        (* bound: process crashes (each followed by a restart) *)
  MaxDbErrors,       (* bound: database errors raised into a poll thread    *)
  LateHeartbeats,    (* may a live owner's heartbeat be late (stall, pool)? *)
  SlowTransactions   (* may a whole build fit inside another process's      *)
                     (* read-then-commit transaction?                       *)

ASSUME QueueAssumption ==
  /\ BatchOf \in [Images -> Batches]
  /\ VersionOf \in [Batches -> Versions]
  /\ CreatedAt \in [Images -> Nat]
  /\ NoImage \notin Images
  /\ NoNumber \notin Nat
  /\ EditNumbers \subseteq Nat
  /\ MaxEdits \in Nat /\ MaxCrashes \in Nat /\ MaxDbErrors \in Nat
  /\ LateHeartbeats \in BOOLEAN
  /\ SlowTransactions \in BOOLEAN

VARIABLES
  (* the database *)
  status,        (* ImageBuild.status; "none" before the row exists         *)
  stale,         (* running rows whose heartbeat_at is past the threshold   *)
  batchStatus,   (* BuildBatch.status                                       *)
  bumpedFrom,    (* BuildBatch.bumped_from_*; full_version_string is its    *)
                 (* Bump and is set in the same assignment                  *)
  version,       (* Version.major/minor/patch, as one number                *)
  documented,    (* batches with a VersionDocumentation row                 *)
  (* the outside world *)
  finishNotices, (* notify_build_finished calls per batch                   *)
  (* each process *)
  pc,            (* where its poll thread is                                *)
  job,           (* the image its poll thread is working on                 *)
  current,       (* _current_build_id                                       *)
  pend,          (* what the transaction in progress has read               *)
  (* bounds *)
  crashes, dbErrors, edits

dbVars    == <<status, stale, batchStatus, bumpedFrom, version, documented>>
procVars  == <<pc, job, current, pend>>
boundVars == <<crashes, dbErrors, edits>>
vars      == <<dbVars, finishNotices, procVars, boundVars>>

-----------------------------------------------------------------------------
ImageStatus == {"none", "queued", "running", "success", "failed"}
Done        == {"success", "failed"}
Terminal    == {"success", "failed", "partial_failure"}
BatchStatus == {"none", "queued", "running"} \union Terminal

(* The poll thread's program points. *)
OwnerPcs == {"announce", "syncing", "building", "pushed"}
ShortPcs == {"claiming", "reaped", "finishing", "updating"}
Pcs      == {"poll", "claim", "drafting", "dead"} \union OwnerPcs \union ShortPcs

Number == Nat \union {NoNumber}
Pend   == [wasTerminal: BOOLEAN, dirty: BOOLEAN, undocumented: BOOLEAN,
           now: BatchStatus, from: Number, number: Nat]
NoPend == [wasTerminal |-> FALSE, dirty |-> FALSE, undocumented |-> FALSE,
           now |-> "none", from |-> NoNumber, number |-> 0]

ImagesOf(b) == {i \in Images : BatchOf[i] = b}
Statuses(b) == {status[i] : i \in ImagesOf(b)}
Running     == {i \in Images : status[i] = "running"}

(* ix_image_builds_single_running: one row at most may be 'running'. *)
NoIndex   == TRUE                                            (* mutant *)
IndexFree == Running = {}

(* What the reaper's WHERE clause matches. *)
NeverMatches == {}                                           (* mutant *)
Reapable     == Running \intersect stale

(* Rows held by SELECT ... FOR UPDATE in another claim. *)
NoLocks == {}                                                (* mutant *)
Locked  == {job[q] : q \in {r \in Procs : pc[r] = "claiming"}}

Owns(p) == pc[p] \in OwnerPcs

(* compute_next_version for one bump type: the number moves up by one. *)
Bump(n) == n + 1

(* Every build, and every heartbeat timeout, outlasts the short            *)
(* transactions of the other processes unless SlowTransactions.            *)
Quick == SlowTransactions \/ \A q \in Procs : pc[q] \notin ShortPcs

(* The status _update_batch_status derives from the images' statuses S. *)
IgnoresQueued(S) ==                                          (* mutant *)
  IF "running" \in S THEN "running"
  ELSE IF "failed" \in S THEN "failed" ELSE "success"
Aggregate(S) ==
  IF "running" \in S THEN "running"
  ELSE IF "queued" \in S THEN "queued"
  ELSE IF S = {"success"} THEN "success"
  ELSE IF S = {"failed"} THEN "failed"
  ELSE "partial_failure"

TypeOK ==
  /\ status \in [Images -> ImageStatus]
  /\ stale \subseteq Images
  /\ batchStatus \in [Batches -> BatchStatus]
  /\ bumpedFrom \in [Batches -> Number]
  /\ version \in [Versions -> Nat]
  /\ documented \subseteq Batches
  /\ finishNotices \in [Batches -> Nat]
  /\ pc \in [Procs -> Pcs]
  /\ job \in [Procs -> Images \union {NoImage}]
  /\ current \in [Procs -> Images \union {NoImage}]
  /\ pend \in [Procs -> Pend]
  /\ crashes \in 0..MaxCrashes
  /\ dbErrors \in 0..MaxDbErrors
  /\ edits \in 0..MaxEdits

Init ==
  /\ status = [i \in Images |-> "none"]
  /\ stale = {}
  /\ batchStatus = [b \in Batches |-> "none"]
  /\ bumpedFrom = [b \in Batches |-> NoNumber]
  /\ version = [v \in Versions |-> 0]
  /\ documented = {}
  /\ finishNotices = [b \in Batches |-> 0]
  /\ pc = [p \in Procs |-> "poll"]
  /\ job = [p \in Procs |-> NoImage]
  /\ current = [p \in Procs |-> NoImage]
  /\ pend = [p \in Procs |-> NoPend]
  /\ crashes = 0 /\ dbErrors = 0 /\ edits = 0

-----------------------------------------------------------------------------
(* Requests. *)

(* enqueue_build_batch: the batch and all its images in one commit.  The   *)
(* rows carry the present time: the last is younger than any row claimed.  *)
EnqueueBuildBatch(b) ==
  /\ batchStatus[b] = "none"
  /\ ImagesOf(b) # {}
  /\ \A j \in Images : status[j] \notin {"none", "queued"} =>
       \E i \in ImagesOf(b) : CreatedAt[j] < CreatedAt[i]
  /\ batchStatus' = [batchStatus EXCEPT ![b] = "queued"]
  /\ status' = [i \in Images |-> IF i \in ImagesOf(b) THEN "queued" ELSE status[i]]
  /\ UNCHANGED <<stale, bumpedFrom, version, documented, finishNotices, procVars, boundVars>>

(* edit_version writes whatever numbers the form carries. *)
EditVersion(v, n) ==
  /\ edits < MaxEdits
  /\ edits' = edits + 1
  /\ version' = [version EXCEPT ![v] = n]
  /\ UNCHANGED <<status, stale, batchStatus, bumpedFrom, documented, finishNotices,
                 procVars, crashes, dbErrors>>

-----------------------------------------------------------------------------
(* The reaper, first half of a poll iteration. *)

(* The guarded UPDATE of _reap_stale_running_job, committed. *)
ReapStaleRunningJob(p, i) ==
  /\ pc[p] = "poll"
  /\ i \in Reapable
  /\ status' = [status EXCEPT ![i] = "failed"]
  /\ stale' = stale \ {i}
  /\ pc' = [pc EXCEPT ![p] = "reaped"]
  /\ job' = [job EXCEPT ![p] = i]
  /\ UNCHANGED <<batchStatus, bumpedFrom, version, documented, finishNotices,
                 current, pend, boundVars>>

NothingToReap(p) ==
  /\ pc[p] = "poll"
  /\ Reapable = {}
  /\ pc' = [pc EXCEPT ![p] = "claim"]
  /\ UNCHANGED <<dbVars, finishNotices, job, current, pend, boundVars>>

-----------------------------------------------------------------------------
(* _claim_next_job, second half of a poll iteration. *)

NothingToClaim(p) ==
  /\ pc[p] = "claim"
  /\ \A i \in Images : status[i] = "queued" => i \in Locked
  /\ pc' = [pc EXCEPT ![p] = "poll"]
  /\ UNCHANGED <<dbVars, finishNotices, job, current, pend, boundVars>>

(* SELECT the oldest queued row FOR UPDATE SKIP LOCKED, and load the batch *)
(* and the version the commit is computed from.                            *)
SelectQueued(p, i) ==
  LET b == BatchOf[i]
      Claimable == {j \in Images : status[j] = "queued"} \ Locked
  IN  /\ pc[p] = "claim"
      /\ i \in Claimable
      /\ \A j \in Claimable : CreatedAt[i] <= CreatedAt[j]
      /\ pc' = [pc EXCEPT ![p] = "claiming"]
      /\ job' = [job EXCEPT ![p] = i]
      /\ pend' = [pend EXCEPT ![p] =
                    [NoPend EXCEPT !.from = bumpedFrom[b],
                                   !.number = version[VersionOf[b]]]]
      /\ UNCHANGED <<dbVars, finishNotices, current, boundVars>>

(* The commit violates ix_image_builds_single_running and is rolled back. *)
LoseClaim(p) ==
  /\ pc[p] = "claiming"
  /\ ~IndexFree
  /\ pc' = [pc EXCEPT ![p] = "poll"]
  /\ job' = [job EXCEPT ![p] = NoImage]
  /\ pend' = [pend EXCEPT ![p] = NoPend]
  /\ UNCHANGED <<dbVars, finishNotices, current, boundVars>>

(* full_version_string is still NULL in the batch that was loaded. *)
AlwaysFirst(p) == TRUE                                       (* mutant *)
FirstClaim(p)  == pend[p].from = NoNumber

(* The commit succeeds; the first claim of a batch also bumps its Version. *)
WinClaim(p) ==
  LET i == job[p]
      b == BatchOf[i]
      v == VersionOf[b]
      first == FirstClaim(p)
  IN  /\ pc[p] = "claiming"
      /\ IndexFree
      /\ status' = [status EXCEPT ![i] = "running"]
      /\ bumpedFrom' = IF first THEN [bumpedFrom EXCEPT ![b] = pend[p].number] ELSE bumpedFrom
      /\ version' = IF first THEN [version EXCEPT ![v] = Bump(pend[p].number)] ELSE version
      /\ batchStatus' = IF first THEN [batchStatus EXCEPT ![b] = "running"] ELSE batchStatus
      /\ pc' = [pc EXCEPT ![p] = "announce"]
      /\ pend' = [pend EXCEPT ![p] = NoPend]
      /\ UNCHANGED <<stale, documented, finishNotices, job, current, boundVars>>

(* notify_build_started has returned: _poll_loop stores the id the         *)
(* heartbeat thread reads and calls _run_build.                            *)
StartRun(p) ==
  /\ pc[p] = "announce"
  /\ current' = [current EXCEPT ![p] = job[p]]
  /\ pc' = [pc EXCEPT ![p] = "syncing"]
  /\ UNCHANGED <<dbVars, finishNotices, job, pend, boundVars>>

-----------------------------------------------------------------------------
(* _run_build. *)

(* sync_repo, commit history and log flushes; none of it changes a status. *)
SyncRepo(p) ==
  /\ pc[p] = "syncing"
  /\ Quick
  /\ pc' = [pc EXCEPT ![p] = "building"]
  /\ UNCHANGED <<dbVars, finishNotices, job, current, pend, boundVars>>

(* The engine (Kaniko) or push_image puts the image into the registry. *)
PushImage(p) ==
  /\ pc[p] = "building"
  /\ pc' = [pc EXCEPT ![p] = "pushed"]
  /\ UNCHANGED <<dbVars, finishNotices, job, current, pend, boundVars>>

(* An unguarded ORM UPDATE by primary key publishes the outcome. *)
PublishStatus(p, outcome) ==
  /\ status' = [status EXCEPT ![job[p]] = outcome]
  /\ stale' = stale \ {job[p]}
  /\ pc' = [pc EXCEPT ![p] = "finishing"]
  /\ UNCHANGED <<batchStatus, bumpedFrom, version, documented, finishNotices,
                 job, current, pend, boundVars>>

(* flush_log in the finally block commits the pending 'success'. *)
PublishSuccess(p) ==
  /\ pc[p] = "pushed"
  /\ PublishStatus(p, "success")

(* An exception, or a result without success: log_error commits the        *)
(* pending 'failed'.  The engine can report failure after it has pushed.   *)
PublishFailure(p) ==
  /\ pc[p] \in {"building", "pushed"}
  /\ PublishStatus(p, "failed")

-----------------------------------------------------------------------------
(* _update_batch_status, from _run_build's finally block or the reaper. *)

(* Which aggregate makes a batch worth documenting. *)
AnySuccess(now) == now \in {"success", "partial_failure"}    (* mutant *)
Documents(now)  == now = "success"

ReadBatch(p) ==
  LET b == BatchOf[job[p]]
      now == Aggregate(Statuses(b))
      undocumented == Documents(now) /\ b \notin documented
  IN  /\ pc[p] \in {"reaped", "finishing"}
      /\ pend' = [pend EXCEPT ![p] =
                    [wasTerminal  |-> batchStatus[b] \in Terminal,
                     dirty        |-> batchStatus[b] # now,
                     undocumented |-> undocumented,
                     now          |-> now,
                     from         |-> bumpedFrom[b],
                     number       |-> version[VersionOf[b]]]]
      /\ pc' = [pc EXCEPT ![p] = IF undocumented THEN "drafting" ELSE "updating"]
      /\ UNCHANGED <<dbVars, finishNotices, job, current, boundVars>>

(* The pending batch.status, written only when it differs from what was    *)
(* loaded (the ORM emits an UPDATE for changed columns only).              *)
FlushBatchStatus(p) ==
  batchStatus' = IF pend[p].dirty
                 THEN [batchStatus EXCEPT ![BatchOf[job[p]]] = pend[p].now]
                 ELSE batchStatus

(* _generate_ai_description returned a draft, or none is configured. *)
DraftDescription(p) ==
  /\ pc[p] = "drafting"
  /\ pc' = [pc EXCEPT ![p] = "updating"]
  /\ UNCHANGED <<dbVars, finishNotices, job, current, pend, boundVars>>

(* The AI provider raised: log_error commits the session, and with it the  *)
(* batch's new status, before the documentation row has been added.        *)
DraftRaises(p) ==
  /\ pc[p] = "drafting"
  /\ FlushBatchStatus(p)
  /\ pend' = [pend EXCEPT ![p].dirty = FALSE]
  /\ pc' = [pc EXCEPT ![p] = "updating"]
  /\ UNCHANGED <<status, stale, bumpedFrom, version, documented, finishNotices,
                 job, current, boundVars>>

(* The thread is done with its job: back to _poll_loop. *)
Release(p, where) ==
  /\ pc' = [pc EXCEPT ![p] = where]
  /\ job' = [job EXCEPT ![p] = NoImage]
  /\ current' = [current EXCEPT ![p] = NoImage]
  /\ pend' = [pend EXCEPT ![p] = NoPend]

(* _current_build_id tells a build from the reaper, which goes on to claim. *)
AfterUpdate(p) == IF current[p] = NoImage THEN "claim" ELSE "poll"

(* Where an exception leaves the thread: _poll_loop catches what its own   *)
(* tick raises, nothing catches what escapes _run_build's finally block.   *)
AfterException(p) == IF current[p] = NoImage THEN "poll" ELSE "dead"

(* The restore is written only when it changes the numbers loaded. *)
RestoresTruthy(p) == pend[p].now = "failed" /\ pend[p].from \in Nat \ {0}   (* mutant *)
Restores(p)       == pend[p].now = "failed" /\ pend[p].from \in Nat \ {pend[p].number}

(* The batch was not terminal when loaded and is now. *)
Announces(p)   == ~pend[p].wasTerminal /\ batchStatus'[BatchOf[job[p]]] \in Terminal

CommitBatch(p) ==
  LET b == BatchOf[job[p]]
      v == VersionOf[b]
  IN  /\ pc[p] = "updating"
      /\ ~(pend[p].undocumented /\ b \in documented)
      /\ FlushBatchStatus(p)
      /\ documented' = IF pend[p].undocumented THEN documented \union {b} ELSE documented
      /\ version' = IF Restores(p) THEN [version EXCEPT ![v] = pend[p].from] ELSE version
      /\ finishNotices' =
           IF Announces(p) THEN [finishNotices EXCEPT ![b] = @ + 1] ELSE finishNotices
      /\ Release(p, AfterUpdate(p))
      /\ UNCHANGED <<status, stale, bumpedFrom, boundVars>>

(* A second VersionDocumentation for the batch: its unique batch_id raises *)
(* IntegrityError and nothing of this transaction is written.              *)
DuplicateDocumentation(p) ==
  /\ pc[p] = "updating"
  /\ pend[p].undocumented /\ BatchOf[job[p]] \in documented
  /\ Release(p, AfterException(p))
  /\ UNCHANGED <<dbVars, finishNotices, boundVars>>

-----------------------------------------------------------------------------
(* Heartbeats and time. *)

(* HEARTBEAT_STALE_SECONDS pass without a heartbeat on running row i. *)
HeartbeatExpires(i) ==
  /\ i \in Running \ stale
  /\ LateHeartbeats \/ \A p \in Procs : current[p] # i /\ ~(Owns(p) /\ job[p] = i)
  /\ Quick
  /\ stale' = stale \union {i}
  /\ UNCHANGED <<status, batchStatus, bumpedFrom, version, documented,
                 finishNotices, procVars, boundVars>>

(* _heartbeat_tick on the heartbeat thread of p: the UPDATE is guarded by  *)
(* status = 'running'.                                                     *)
HeartbeatTick(p) ==
  /\ current[p] \in stale
  /\ stale' = stale \ {current[p]}
  /\ UNCHANGED <<status, batchStatus, bumpedFrom, version, documented,
                 finishNotices, procVars, boundVars>>

-----------------------------------------------------------------------------
(* Failures. *)

(* The process dies and gunicorn starts another: its threads begin again,  *)
(* its open transaction and its row lock are gone.                         *)
Crash(p) ==
  /\ crashes < MaxCrashes
  /\ crashes' = crashes + 1
  /\ Release(p, "poll")
  /\ UNCHANGED <<dbVars, finishNotices, dbErrors, edits>>

(* A database error in the build: log_error's first commit fails on the    *)
(* broken transaction, its rollback takes the pending 'failed' along, and  *)
(* only the retry of the log entry commits.  The row is still 'running'.   *)
LoseFailure(p) ==
  /\ dbErrors < MaxDbErrors
  /\ dbErrors' = dbErrors + 1
  /\ pc[p] \in {"syncing", "building", "pushed"}
  /\ pc' = [pc EXCEPT ![p] = "finishing"]
  /\ UNCHANGED <<dbVars, finishNotices, job, current, pend, crashes, edits>>

(* A database error in the poll tick, in the commits of _run_build's       *)
(* finally block, or one that lasts until then.                            *)
DbError(p) ==
  /\ dbErrors < MaxDbErrors
  /\ pc[p] # "dead"
  /\ dbErrors' = dbErrors + 1
  /\ Release(p, AfterException(p))
  /\ UNCHANGED <<dbVars, finishNotices, crashes, edits>>

-----------------------------------------------------------------------------
PollThread(p) ==
  \/ \E i \in Images : ReapStaleRunningJob(p, i)
  \/ NothingToReap(p)
  \/ NothingToClaim(p)
  \/ \E i \in Images : SelectQueued(p, i)
  \/ LoseClaim(p)
  \/ WinClaim(p)
  \/ StartRun(p)
  \/ SyncRepo(p)
  \/ PushImage(p)
  \/ PublishSuccess(p)
  \/ PublishFailure(p)
  \/ ReadBatch(p)
  \/ DraftDescription(p)
  \/ DraftRaises(p)
  \/ CommitBatch(p)
  \/ DuplicateDocumentation(p)

Next ==
  \/ \E b \in Batches : EnqueueBuildBatch(b)
  \/ \E v \in Versions, n \in EditNumbers : EditVersion(v, n)
  \/ \E p \in Procs : PollThread(p)
  \/ \E i \in Images : HeartbeatExpires(i)
  \/ \E p \in Procs : HeartbeatTick(p)
  \/ \E p \in Procs : Crash(p)
  \/ \E p \in Procs : LoseFailure(p) \/ DbError(p)

Spec == Init /\ [][Next]_vars

(* Each poll thread keeps taking its next step and time keeps passing.     *)
(* SyncRepo and HeartbeatExpires wait for a moment without short           *)
(* transactions, which recurs but does not last: strong fairness.          *)
Fairness ==
  /\ \A p \in Procs : WF_vars(PollThread(p)) /\ SF_vars(SyncRepo(p))
  /\ \A i \in Images : SF_vars(HeartbeatExpires(i))

FairSpec == Spec /\ Fairness
-----------------------------------------------------------------------------
(* Properties. *)

AllImagesDone(b) == \A i \in ImagesOf(b) : status[i] \in Done
BeingServed(b)   == \E p \in Procs : job[p] \in ImagesOf(b)
Published(b)     == \E i \in ImagesOf(b) : status[i] = "success"
NumberOf(b)      == Bump(bumpedFrom[b])

(* At most one process is between claiming an image and publishing its     *)
(* outcome: builds are physically serialized over the whole fleet, also    *)
(* when a process has crashed and its row was reaped.  Holds only while    *)
(* heartbeats of live owners are on time.                                  *)
OneBuilder == \A p, q \in Procs : Owns(p) /\ Owns(q) => p = q

(* The row the index leaves as the only 'running' one, and no row has two  *)
(* owners, even when a live owner has been reaped and builds on.           *)
OneOwnerPerImage ==
  /\ \A i, j \in Running : i = j
  /\ \A p, q \in Procs : Owns(p) /\ Owns(q) /\ job[p] = job[q] => p = q

(* A documented batch has only successful images: _update_batch_status     *)
(* reads the statuses long before it commits the row (an AI call lies in   *)
(* between), and a reaped owner may still publish over its row.            *)
DocumentedBatchesSucceeded ==
  \A b \in documented : Statuses(b) = {"success"}

(* The only outcome that is ever overwritten is the reaper's 'failed', by  *)
(* the owner it took for dead.  A success stays, and nothing ever returns  *)
(* to the queue or to 'running'.                                           *)
OutcomesAreFinal ==
  [][\A i \in Images :
       /\ status[i] = "success" => status'[i] = "success"
       /\ status[i] = "failed" => status'[i] \in Done
       /\ status[i] = "running" => status'[i] \in {"running"} \union Done]_vars

(* While heartbeats are on time the reaper only ever fails a build that    *)
(* nobody is working on, so no outcome is overwritten at all.              *)
DoneIsDone ==
  [][\A i \in Images : status[i] \in Done => status'[i] = status[i]]_vars

(* The Version is bumped once per batch: the number and full version       *)
(* string a batch got at its first claim are those of all its images, also *)
(* of those claimed by other processes from a snapshot of the batch.       *)
BumpedOncePerBatch ==
  [][\A b \in Batches :
       bumpedFrom[b] # NoNumber => bumpedFrom'[b] = bumpedFrom[b]]_vars

(* A terminal batch status is the aggregate of the images' statuses and    *)
(* comes with images that are all done, whatever crashed on the way.       *)
TrueStatus(b) ==
  batchStatus[b] \in Terminal =>
    AllImagesDone(b) /\ batchStatus[b] = Aggregate(Statuses(b))

(* While nothing crashes and the database answers: once no process works   *)
(* on a batch whose images are all done, the batch has its final status,   *)
(* its documentation exactly when it succeeded, and its requester has been *)
(* told once.                                                              *)
Settled(b) ==
  crashes + dbErrors = 0 /\ batchStatus[b] # "none" /\ AllImagesDone(b) /\ ~BeingServed(b) =>
    /\ batchStatus[b] = Aggregate(Statuses(b))
    /\ (b \in documented) = (batchStatus[b] = "success")
    /\ finishNotices[b] = 1

(* The outcome of a batch is true and told at most once, although two      *)
(* processes may finish images of one batch, each updating it from what it *)
(* read before an AI call, and it is complete where nothing failed.        *)
BatchOutcomeIsTrue ==
  \A b \in Batches : TrueStatus(b) /\ finishNotices[b] <= 1 /\ Settled(b)

(* Some batch was claimed on top of the number of a batch that failed.     *)
ClaimedOnTop(v) ==
  \E b, c \in Batches :
    /\ VersionOf[b] = v /\ VersionOf[c] = v
    /\ bumpedFrom[c] # NoNumber /\ bumpedFrom[b] = NumberOf(c) /\ ~Published(c)

(* models/build_batch.py: "a batch that fails outright never leaves the    *)
(* Version's numbers bumped for nothing".  Whenever every process is idle  *)
(* and every queued image done, a Version has moved once per batch that    *)
(* published an image, unless a batch was claimed on top of a number that  *)
(* was then given back: the restore of _update_batch_status takes for      *)
(* granted that builds are serialized until it commits, and they are not.  *)
FailedBatchesGiveBack ==
  /\ crashes + dbErrors + edits = 0
  /\ \A p \in Procs : job[p] = NoImage
  /\ \A b \in Batches : batchStatus[b] # "none" => AllImagesDone(b)
  => \A v \in Versions :
       \/ ClaimedOnTop(v)
       \/ version[v] = Cardinality({b \in Batches : VersionOf[b] = v /\ Published(b)})

(* Every queued image is built or failed, whichever processes crash, as    *)
(* long as one poll thread survives.                                       *)
EveryImageEnds == \A i \in Images : status[i] = "queued" ~> status[i] \in Done
-----------------------------------------------------------------------------
(* The abstract queue this module implements. *)

PhaseOf == [none |-> "absent", queued |-> "waiting", running |-> "active",
            success |-> "succeeded", failed |-> "failed"]

Flight == INSTANCE SingleFlight WITH
            Jobs    <- Images,
            phase   <- [i \in Images |-> PhaseOf[status[i]]],
            workers <- {p \in Procs : Owns(p)}

(* While heartbeats are on time the queue is a single flight: crashes,     *)
(* database errors, reaping and SKIP LOCKED claims never let two processes *)
(* work, never change an outcome and never abandon a job someone works on. *)
ImplementsSingleFlight == Flight!Spec

OutcomeOf ==
  [none |-> "absent", queued |-> "open", running |-> "open", success |-> "success",
   failed |-> "failed", partial_failure |-> "partial_failure"]

Board == INSTANCE JobBoard WITH
           Jobs    <- Batches,
           outcome <- [b \in Batches |-> OutcomeOf[batchStatus[b]]]

(* A batch that has an outcome keeps it: no update that was computed from  *)
(* older images is written over it, and it is not reopened by the next     *)
(* claim.  The orchestrator reads it once and goes on.                     *)
BatchesAreJobs == Board!Spec
=============================================================================
