----------------------------- MODULE BuildContext -----------------------------
(***************************************************************************)
(* What a claimed build does with the clone of its repository, and who     *)
(* else touches that clone meanwhile: services/git/github.py,              *)
(* services/build/engine.py, _run_build of services/build/worker.py, the   *)
(* previews (services/build/prefill.py) and the repository routes of       *)
(* blueprints/git_sources.                                                 *)
(*                                                                         *)
(* There is one repository with one working copy on disk.  A branch is the *)
(* set of its commits, locally and at the origin.  BuildQueue says when a  *)
(* build is claimed; here a build may be claimed when none is running.     *)
(***************************************************************************)
EXTENDS Integers, FiniteSets

CONSTANTS Builds,        \* queued images of Builders of the repository
          Previews,      \* calls of compute_build_prefill
          Resyncs,       \* requests to re-sync the repository
          Unguarded,     \* previews of the orchestrator and of the bots
          BranchOf,      \* the branch a build, preview or re-sync asks for
          Branches, Default, NoBranch,
          AtStart,       \* the origin's branches when the repository is registered
          MaxEvents      \* bound: pushes to the origin, crashes, failing calls

Callers == Previews \union Resyncs
CloneUsers   == Builds \union Callers

ASSUME ContextAssumption ==
    /\ Unguarded \subseteq Previews
    /\ Builds \intersect Previews = {} /\ Builds \intersect Resyncs = {} /\ Previews \intersect Resyncs = {}
    /\ BranchOf \in [CloneUsers -> Branches]
    /\ Default \in Branches /\ NoBranch \notin Branches
    /\ AtStart \in [Branches -> SUBSET Int]
    /\ MaxEvents \in Nat

VARIABLES
    origin,      \* the branches at the origin
    local,       \* the local branches of the clone, {} if there is none yet
    head,        \* the branch checked out, NoBranch if there is no clone on disk
    repository,  \* the row: absent, cloning, ready or error
    row,         \* ImageBuild.status
    at,          \* where a build, preview or re-sync is
    sha,         \* ImageBuild.commit_sha: the commits recorded as built
    kjob,         \* the Kubernetes Job (or the docker build) of a build
    content,     \* the commits a build's engine has read
    image,       \* the commits in the pushed image of a build
    secret,      \* builds whose registry Secret exists in the cluster
    events,      \* how many pushes and failures there have been
    intruded,    \* whoever another user of the clone got in the way of
    mixed,       \* some branch was pulled into another one
    left         \* builds whose Job or Secret a crash or failing call left

contextVars == <<origin, local, head, repository, row, at, sha, kjob, content, image,
                 secret, events, intruded, mixed, left>>
cloneVars   == <<origin, local, head, mixed>>
engineVars  == <<kjob, content, image, secret, left>>

None        == {}
Ended       == {"success", "failed"}
JobStates   == {"none", "pending", "reading", "succeeded", "failed"}
SyncPcs     == {"sync", "opened", "checked_out"}
EnginePcs   == {"secret", "kjob", "stream", "wait", "final", "cleanup_ok", "cleanup_fail"}

ContextTypeOK ==
    /\ origin \in [Branches -> SUBSET Int] /\ local \in [Branches -> SUBSET Int]
    /\ head \in Branches \union {NoBranch}
    /\ repository \in {"absent", "cloning", "dead", "ready", "error"}
    /\ row \in [Builds -> {"queued", "running"} \union Ended]
    /\ at \in [CloneUsers -> {"idle", "synced", "docker", "push", "finish_ok", "finish_fail",
                         "dead", "done"} \union SyncPcs \union EnginePcs]
    /\ sha \in [Builds -> SUBSET Int] /\ content \in [Builds -> SUBSET Int]
    /\ image \in [Builds -> SUBSET Int]
    /\ kjob \in [Builds -> JobStates] /\ secret \subseteq Builds
    /\ events \in 0 .. MaxEvents
    /\ intruded \subseteq CloneUsers /\ left \subseteq Builds /\ mixed \in BOOLEAN

ContextInit ==
    /\ origin = AtStart
    /\ local = [b \in Branches |-> None] /\ head = NoBranch
    /\ repository = "absent"
    /\ row = [b \in Builds |-> "queued"]
    /\ at = [u \in CloneUsers |-> "idle"]
    /\ sha = [b \in Builds |-> None] /\ content = [b \in Builds |-> None]
    /\ image = [b \in Builds |-> None]
    /\ kjob = [b \in Builds |-> "none"] /\ secret = {}
    /\ events = 0
    /\ intruded = {} /\ left = {} /\ mixed = FALSE

Goto(u, place) == at' = [at EXCEPT ![u] = place]
AFault         == events < MaxEvents /\ events' = events + 1

(* A sync is at work on the clone, and a build until its engine has read   *)
(* the context, be it in a Job that has outlived the build.                *)
AtWork(u) == \/ at[u] \in {"opened", "checked_out", "synced", "docker", "secret", "kjob"}
             \/ u \in Builds /\ kjob[u] = "pending"
(* A step of u on the clone gets in the way of everyone else at work.      *)
Disturbs(u) == intruded' = intruded \union {o \in CloneUsers \ {u} : AtWork(o)}

----------------------------------------------------------------------------
(* Registering the repository. *)

FreshClone ==
    /\ local' = [b \in Branches |-> IF b = Default THEN origin[Default] ELSE None]
    /\ head' = Default

(* The row is committed with status cloning before the clone begins. *)
RegisterRepo ==
    /\ repository = "absent"
    /\ repository' = "cloning"
    /\ UNCHANGED <<cloneVars, row, at, sha, engineVars, events, intruded>>

(* Cloned, failed, or the process died and the row says cloning for good.  *)
CloneRepo ==
    /\ repository = "cloning"
    /\ \/ FreshClone /\ repository' = "ready" /\ UNCHANGED events
       \/ AFault /\ repository' \in {"error", "dead"} /\ UNCHANGED <<local, head>>
    /\ UNCHANGED <<origin, mixed, row, at, sha, engineVars, intruded>>

----------------------------------------------------------------------------
(* sync_repo, step by step: it is called by builds, previews, re-syncs.    *)

(* A clone that is missing on disk is cloned again in the same place.      *)
OpenClone(u) ==
    /\ at[u] = "sync"
    /\ \/ head = NoBranch /\ FreshClone /\ Disturbs(u)
       \/ head # NoBranch /\ UNCHANGED <<local, head, intruded>>
    /\ Goto(u, "opened")
    /\ UNCHANGED <<origin, mixed, repository, row, sha, engineVars, events>>

(* mutant: the branch asked for is not checked out *)
PullsOnly(u) ==
    LET b == BranchOf[u] IN
    /\ at[u] = "opened" /\ head # NoBranch
    /\ local' = [local EXCEPT ![b] = IF @ = None THEN origin[b] ELSE @]
    /\ Disturbs(u)
    /\ Goto(u, "checked_out")
    /\ UNCHANGED <<origin, head, mixed, repository, row, sha, engineVars, events>>

(* fetch, then checkout, which creates a local branch the first time.      *)
Checkout(u) ==
    LET b == BranchOf[u] IN
    /\ at[u] = "opened" /\ head # NoBranch
    /\ local' = [local EXCEPT ![b] = IF @ = None THEN origin[b] ELSE @]
    /\ head' = b
    /\ Disturbs(u)
    /\ Goto(u, "checked_out")
    /\ UNCHANGED <<origin, mixed, repository, row, sha, engineVars, events>>

(* pull merges the origin's branch into whatever is checked out by now,    *)
(* forwards only: two histories that have diverged are refused.            *)
Pull(u) ==
    LET theirs == origin[BranchOf[u]] IN
    /\ at[u] = "checked_out" /\ head # NoBranch
    /\ theirs \subseteq local[head] \/ local[head] \subseteq theirs
    /\ local' = [local EXCEPT ![head] = @ \union theirs]
    /\ mixed' = (mixed \/ (head # BranchOf[u] /\ u \in intruded))
    /\ Disturbs(u)
    /\ repository' = IF repository = "absent" THEN "absent" ELSE "ready"
    /\ Goto(u, IF u \in Builds THEN "synced" ELSE "done")
    /\ UNCHANGED <<origin, head, row, sha, engineVars, events>>

Diverged(u) ==
    /\ at[u] = "checked_out" /\ head # NoBranch
    /\ ~(origin[BranchOf[u]] \subseteq local[head])
    /\ ~(local[head] \subseteq origin[BranchOf[u]])

(* The network, git or a clone that is gone: a build fails, a re-sync      *)
(* marks the repository, a preview goes on without its commits.            *)
SyncFails(u) ==
    /\ at[u] \in SyncPcs
    /\ \/ AFault
       \/ (Diverged(u) \/ (at[u] # "sync" /\ head = NoBranch)) /\ UNCHANGED events
    /\ Goto(u, IF u \in Builds THEN "finish_fail" ELSE "done")
    /\ repository' = IF u \in Resyncs THEN "error" ELSE repository
    /\ UNCHANGED <<cloneVars, row, sha, engineVars, intruded>>

----------------------------------------------------------------------------
(* Callers of sync_repo other than the worker. *)

NoBuildRuns == \A b \in Builds : row[b] # "running"
Registered  == repository \notin {"absent", "cloning"}

(* The preview route refuses while a build is running and then syncs; the  *)
(* orchestrator and the bots call compute_build_prefill without looking.   *)
StartPreview(p) ==
    /\ at[p] = "idle" /\ Registered
    /\ p \notin Unguarded => NoBuildRuns
    /\ Goto(p, "sync")
    /\ UNCHANGED <<cloneVars, repository, row, sha, engineVars, events, intruded>>

ResyncRepo(r) ==
    /\ at[r] = "idle" /\ Registered
    /\ NoBuildRuns
    /\ Goto(r, "sync")
    /\ UNCHANGED <<cloneVars, repository, row, sha, engineVars, events, intruded>>

----------------------------------------------------------------------------
(* _run_build. *)

ClaimBuild(b) ==
    /\ row[b] = "queued" /\ Registered /\ NoBuildRuns
    /\ row' = [row EXCEPT ![b] = "running"]
    /\ Goto(b, "sync")
    /\ UNCHANGED <<cloneVars, repository, sha, engineVars, events, intruded>>

(* commit_sha is the tip of the local branch, whatever is checked out; a   *)
(* history that cannot be read is logged and the build goes on.  The       *)
(* engine is the one that is configured by now.                            *)
RecordCommitHistory(b) ==
    /\ at[b] = "synced"
    /\ \/ sha' = [sha EXCEPT ![b] = local[BranchOf[b]]] /\ UNCHANGED events
       \/ AFault /\ UNCHANGED sha
    /\ \E engine \in {"docker", "secret"} : Goto(b, engine)
    /\ UNCHANGED <<cloneVars, repository, row, engineVars, intruded>>

(* docker buildx reads the context, then builds; the push is a step of its *)
(* own, and the image is removed from the daemon afterwards.               *)
DockerBuild(b) ==
    /\ at[b] = "docker" /\ head # NoBranch
    /\ content' = [content EXCEPT ![b] = local[head]]
    /\ \/ Goto(b, "push") /\ UNCHANGED events
       \/ Goto(b, "finish_fail") /\ AFault
    /\ UNCHANGED <<cloneVars, repository, row, sha, kjob, image, secret, left, intruded>>

DockerPush(b) ==
    /\ at[b] = "push"
    /\ \/ image' = [image EXCEPT ![b] = content[b]] /\ Goto(b, "finish_ok") /\ UNCHANGED events
       \/ Goto(b, "finish_fail") /\ AFault /\ UNCHANGED image
    /\ UNCHANGED <<cloneVars, repository, row, sha, kjob, content, secret, left, intruded>>

FinishBuild(b) ==
    /\ at[b] \in {"finish_ok", "finish_fail"}
    /\ row' = [row EXCEPT ![b] = IF at[b] = "finish_ok" THEN "success" ELSE "failed"]
    /\ Goto(b, "done")
    /\ UNCHANGED <<cloneVars, repository, sha, engineVars, events, intruded>>

(* The worker process dies; the reaper fails the row when its heartbeat is *)
(* old, and other builds may be claimed.                                   *)
WorkerDies(b) ==
    /\ row[b] = "running" /\ at[b] # "dead"
    /\ AFault
    /\ Goto(b, "dead")
    /\ left' = left \union {b}
    /\ UNCHANGED <<cloneVars, repository, row, sha, kjob, content, image, secret, intruded>>

ReapBuild(b) ==
    /\ at[b] = "dead" /\ row[b] = "running"
    /\ row' = [row EXCEPT ![b] = "failed"]
    /\ UNCHANGED <<cloneVars, repository, at, sha, engineVars, events, intruded>>

----------------------------------------------------------------------------
(* KanikoBuildEngine.build_image: a Secret and a Job, the Job's log, its   *)
(* status, and the clean-up.                                               *)

(* kubectl apply fails, and may fail although the object has been created. *)
ApplySecret(b) ==
    /\ at[b] = "secret"
    /\ \/ secret' = secret \union {b} /\ Goto(b, "kjob") /\ UNCHANGED events
       \/ AFault /\ Goto(b, "cleanup_fail") /\ secret' \in {secret, secret \union {b}}
    /\ UNCHANGED <<cloneVars, repository, row, sha, kjob, content, image, left, intruded>>

ApplyJob(b) ==
    /\ at[b] = "kjob"
    /\ \/ kjob' = [kjob EXCEPT ![b] = "pending"] /\ Goto(b, "stream") /\ UNCHANGED events
       \/ /\ AFault /\ Goto(b, "cleanup_fail")
          /\ \E j \in {"none", "pending"} : kjob' = [kjob EXCEPT ![b] = j]
    /\ UNCHANGED <<cloneVars, repository, row, sha, content, image, secret, left, intruded>>

(* A line of the log is passed on to the build's row: a commit that fails  *)
(* there is no RuntimeError and leaves build_image without a clean-up.     *)
LogFails(b) ==
    /\ AFault
    /\ Goto(b, "finish_fail")
    /\ left' = left \union {b}

(* kubectl logs follows the Job to its end, or gives up before.            *)
StreamJobLogs(b) ==
    /\ at[b] = "stream"
    /\ \/ /\ kjob[b] \in {"succeeded", "failed"} /\ Goto(b, "wait")
          /\ UNCHANGED <<events, left>>
       \/ AFault /\ (Goto(b, "final") \/ Goto(b, "cleanup_fail")) /\ UNCHANGED left
       \/ LogFails(b)
    /\ UNCHANGED <<cloneVars, repository, row, sha, kjob, content, image, secret, intruded>>

(* The status is final, or cannot be read in time.  "final" is the wait    *)
(* that goes on to fetch the log the stream has missed.                    *)
WaitForJob(b) ==
    /\ at[b] \in {"wait", "final"}
    /\ \/ /\ kjob[b] \in {"succeeded", "failed"}
          /\ Goto(b, IF kjob[b] = "succeeded" THEN "cleanup_ok" ELSE "cleanup_fail")
          /\ UNCHANGED <<events, left>>
       \/ AFault /\ Goto(b, "cleanup_fail") /\ UNCHANGED left
       \/ at[b] = "final" /\ kjob[b] \in {"succeeded", "failed"} /\ LogFails(b)
    /\ UNCHANGED <<cloneVars, repository, row, sha, kjob, content, image, secret, intruded>>

(* mutant: a Job that could not be applied is not cleaned up *)
KeepsWhatFailed(b) ==
    /\ at[b] \in {"cleanup_ok", "cleanup_fail"}
    /\ Goto(b, IF at[b] = "cleanup_ok" THEN "finish_ok" ELSE "finish_fail")
    /\ IF at[b] = "cleanup_ok"
       THEN kjob' = [kjob EXCEPT ![b] = "none"] /\ secret' = secret \ {b}
       ELSE UNCHANGED <<kjob, secret>>
    /\ UNCHANGED <<cloneVars, repository, row, sha, content, image, left, events, intruded>>

(* Job and Secret are deleted; a delete that fails is only logged.         *)
CleanUp(b) ==
    /\ at[b] \in {"cleanup_ok", "cleanup_fail"}
    /\ Goto(b, IF at[b] = "cleanup_ok" THEN "finish_ok" ELSE "finish_fail")
    /\ \/ kjob' = [kjob EXCEPT ![b] = "none"] /\ secret' = secret \ {b} /\ UNCHANGED <<events, left>>
       \/ /\ AFault /\ left' = left \union {b}
          /\ \/ kjob' = [kjob EXCEPT ![b] = "none"] /\ UNCHANGED secret
             \/ secret' = secret \ {b} /\ UNCHANGED kjob
    /\ UNCHANGED <<cloneVars, repository, row, sha, content, image, intruded>>

(* The Job's pod reads the clone through the shared volume, builds and     *)
(* pushes, whether or not anyone is waiting for it.                        *)
JobReads(b) ==
    /\ kjob[b] = "pending"
    /\ \/ /\ head # NoBranch /\ b \in secret
          /\ content' = [content EXCEPT ![b] = local[head]]
          /\ kjob' = [kjob EXCEPT ![b] = "reading"]
       \/ /\ head = NoBranch \/ b \notin secret
          /\ kjob' = [kjob EXCEPT ![b] = "failed"] /\ UNCHANGED content
    /\ UNCHANGED <<cloneVars, repository, row, at, sha, image, secret, left, events, intruded>>

JobEnds(b) ==
    /\ kjob[b] = "reading"
    /\ \/ /\ image' = [image EXCEPT ![b] = content[b]]
          /\ kjob' = [kjob EXCEPT ![b] = "succeeded"] /\ UNCHANGED events
       \/ AFault /\ kjob' = [kjob EXCEPT ![b] = "failed"] /\ UNCHANGED image
    /\ UNCHANGED <<cloneVars, repository, row, at, sha, content, secret, left, intruded>>

----------------------------------------------------------------------------
(* Outside: someone pushes; the volume with the clones is lost.            *)

Push(b) ==
    /\ AFault
    /\ origin' = [origin EXCEPT ![b] = @ \union {100 + events}]
    /\ UNCHANGED <<local, head, mixed, repository, row, at, sha, engineVars, intruded>>

CloneIsLost ==
    /\ head # NoBranch
    /\ AFault
    /\ head' = NoBranch /\ local' = [b \in Branches |-> None]
    /\ intruded' = intruded \union {u \in CloneUsers : AtWork(u)}
    /\ UNCHANGED <<origin, mixed, repository, row, at, sha, engineVars>>

BuildStep(b) ==
    \/ ClaimBuild(b) \/ RecordCommitHistory(b) \/ DockerBuild(b) \/ DockerPush(b)
    \/ FinishBuild(b) \/ WorkerDies(b) \/ ReapBuild(b)
    \/ ApplySecret(b) \/ ApplyJob(b) \/ StreamJobLogs(b) \/ WaitForJob(b) \/ CleanUp(b)
    \/ JobReads(b) \/ JobEnds(b)

ContextNext ==
    \/ RegisterRepo \/ CloneRepo
    \/ \E u \in CloneUsers : OpenClone(u) \/ Checkout(u) \/ Pull(u) \/ SyncFails(u)
    \/ \E p \in Previews : StartPreview(p)
    \/ \E r \in Resyncs : ResyncRepo(r)
    \/ \E b \in Builds : BuildStep(b)
    \/ \E b \in Branches : Push(b)
    \/ CloneIsLost

ContextSpec == ContextInit /\ [][ContextNext]_contextVars

----------------------------------------------------------------------------
(* An image holds exactly the commits that its build has recorded: nobody  *)
(* else moves the clone between the sync of a build and the reading of its *)
(* context, as the comments on the preview and on the re-sync say.         *)
ImageIsItsCommit ==
    \A b \in Builds : image[b] # None /\ sha[b] # None => image[b] = sha[b]

(* The same for builds nobody got in the way of: builds of several         *)
(* branches in one clone, one after the other, keep apart, whatever failed *)
(* before them.  Such an image has nothing but the branch it was asked     *)
(* for, in a clone where no branch has been pulled into another.           *)
ImageIsItsCommitAlone ==
    \A b \in Builds \ intruded :
        /\ image[b] # None /\ sha[b] # None => image[b] = sha[b]
        /\ ~mixed => image[b] \subseteq origin[BranchOf[b]]

(* When a build has ended, its Job and its Secret are gone from the        *)
(* cluster, unless the worker died, a line of log could not be saved or    *)
(* kubectl delete itself failed.                                           *)
JobsAreCleanedUp ==
    \A b \in Builds : row[b] \in Ended /\ b \notin left => kjob[b] = "none" /\ b \notin secret
=============================================================================
