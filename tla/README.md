# A verification of MASIMPLE CICD

MASIMPLE CICD is a Flask application that builds container images from git
repositories, pushes them to registries, applies manifests to Kubernetes
clusters, and strings such steps together in workflows. Everything of interest
happens between processes that share one PostgreSQL database: gunicorn starts
three worker processes (`entrypoint.sh:50`), and each of them starts a poll and
a heartbeat thread for builds, the same for deployments, an orchestrator of
workflows, a status poller and two chat bots (`app/__init__.py`). This project
models these processes, and the pages that write what they read, in TLA+, checks
them with TLC on small instances and proves with TLAPS, for every instance, the
safety of the queues, the orchestrator, the bots, the build engines, the
providers, the pages and the setup, and four refinements of three abstract
specifications.

`PROJECT.json` lists components, runs, mutants, the source lines each
definition stands for, findings, hazards and theorems.

## 1. Inventory

| Component (source) | State | Operations | Hard behaviour |
|---|---|---|---|
| Build queue, `services/build/worker.py` | `image_builds`, `build_batches`, `versions`, `version_documentations`; per process `_current_build_id` | enqueue a batch; claim; sync, build, push; publish the outcome; aggregate the batch; heartbeat; reap | three pollers per row; a partial unique index as mutual exclusion; commits that end transactions early; crash anywhere; a reaper that races a live owner |
| Deployment queue, `services/deployment/worker.py` | `deployment_runs`, `deployment_executions`; `_current_execution_id`; the clusters | enqueue deploy, stop or restart; claim; resolve and apply or delete; publish; aggregate and skip the rest; heartbeat; reap | as above, and a run that must stop at its first failure; sources of a stop fixed early; effects on a cluster that a failure does not undo |
| Workflow orchestrator, `services/workflow/worker.py` | `workflow_runs`, `workflow_step_runs` | tick: start queued runs, look at running ones; start, fail, finish a step; approve or reject a review | row locks released by the first commit of a loop; a helper that rolls its caller back; reviews from web and bots; steps edited under a run |
| Prefill and numbering, `services/build/{prefill,versioning,bump_heuristic}.py` | repositories' status | sync, read commits, guess a bump | commits and rolls back its caller's session |
| Repositories, `services/git/`, `blueprints/git_sources` | one working copy on disk per repository | clone, sync, read | builds, previews, orchestrator, bots and re-syncs share the copy |
| Build engines, `services/build/engine.py` | Kubernetes Job and Secret | read the context, build and push, stream logs, clean up | an exception in a log callback; a Job that outlives its build |
| Providers, `services/deployment/*_provider.py` | none | apply, delete, restart, wait for the rollout | one deadline for all workloads, a child process that hangs, fail-fast, half-applied manifests |
| Telegram bot, `services/telegram/` | last update id, leader lock | poll, handle, commit the offset | redelivery after a crash, change of leader, buttons of lists gone stale |
| Discord bot, `services/discord/` | session, sequence number, heartbeat, pool | identify, resume, heartbeat, reconnect, defer | threads of two connections, an acknowledgement that overtakes the mark, a stop that is undone |
| Cluster pages, `blueprints/deployment_pods` | none; objects of a cluster | render a form, save it, restart the users of a secret | three-way apply from a stale form; a form that knows less than the object |
| Catalogue routes, `blueprints/{builders,versions,deployment_manifests,...}` | the rows the queues refer to | create, edit, disable, delete | guards counted before the delete; forms that do not offer what a row refers to |
| Accounts, `blueprints/{users,roles,permissions,auth,account}` | users, roles, permissions | the same; login, reset | references nobody counts |
| Setup wizard and seeds, `blueprints/setup`, `seeds/`, `utils/{setup_status,system_config}.py` | revision of the schema, seeded rows, one row of settings | migrate, seed, open and close the wizard, create the settings on first access | a seed that fails, runs twice, or runs beside another |

The components meet in the database. A build request inserts a batch with its
images; the poll threads take the images one at a time; a workflow step inserts
a batch or a deployment run and the orchestrator reads its status every two
seconds; the bots and the pages do what the routes do. No process ever sends
another a message. Outside the database they share the working copies on the
volume of `REPO_CLONE_ROOT` and the clusters.

What makes each part correct:

* a queue: one job at a time over the whole fleet; no job with two owners; an
  outcome is final; every job ends, whichever process dies; the aggregate of a
  batch or run is true, final and announced once;
* version numbers: a batch bumps its Version once, keeps that number, gives it
  back exactly when nothing was built;
* a build: its image holds the commits it has recorded, and leaves nothing
  behind in the cluster;
* deployments: nothing of a run is deployed after a failure; what the
  application calls current is what is on the cluster; a rollout holds the
  queue for a bounded time and reports what it saw;
* a job, which is what a batch or a run is to the orchestrator: open until it
  has an outcome, which it then keeps;
* a workflow: each step once, in order, up to the first failure that stops the
  run; a run reports what happened, waits only where it should, and ends;
* a bot: what a user presses is done once, under the checks of the moment it is
  handled, and no press blocks those after it or is lost with a connection;
* a page: a save changes what its user changed;
* the catalogue: a row in use is not deleted from under its users, and a form
  does not take away what it does not show;
* setup: after the wizard has closed the database is whole, with each row once.

## 2. Modules

| Module | What it is |
|---|---|
| `SingleFlight` | abstract: a queue whose jobs are worked on one at a time |
| `JobBoard` | abstract: what the orchestrator relies on of a batch or a run: it is open until it has an outcome, and keeps that |
| `BuildQueue` | the build worker; implements `SingleFlight` and, with its batches, `JobBoard` |
| `BuildContext` | what a claimed build does with the shared working copy and its engine |
| `DeployQueue` | the deployment worker: the same queue, in which a failure calls off the rest of its run; one worker process implements `JobBoard` with its runs |
| `Rollout` | one kubectl apply, delete or restart with its wait for the workloads |
| `Pipeline` | abstract: a run that executes ordered steps once each |
| `Workflow` | the orchestrator and the review routes; implements `Pipeline` for runs taken one at a time |
| `BotActions` | what the commands and buttons of both bots do to the application |
| `TelegramBot` | the polling processes, on `BotActions` |
| `DiscordGateway`, `DiscordBot` | the supervisor and its gateways; the handlers and the pool on them and on `BotActions` |
| `ClusterObjects`, `NetworkPolicyForm` | the pages that edit objects of a cluster; the network policy editor |
| `Catalogue` | the rows, their references, and the routes that keep them |
| `Setup` | the wizard, the seeds and the row of settings |
| `BuildQueueProofs`, `DeployQueueProofs`, `BotProofs` | the theorems about the module of that name, and about both bots |
| `WorkflowProofs`, `WorkflowHistoryProofs` | the theorems about `Workflow`: who acts on a run; what becomes of it, and the refinement of `Pipeline` |
| `ClusterProofs` | the theorems about `Rollout`, `ClusterObjects` and `NetworkPolicyForm` |
| `StoreProofs` | the theorems about what pages and builds keep in tables and on disk: `Setup`, `Catalogue` and `BuildContext` |
| `SiteProofs` | the theorems about `MCSite`: the modules side by side keep to their specifications |
| `MCBuildQueue`, `MCDeployQueue`, `MCWorkflow`, `MCBuildContext` | instances for TLC |
| `MCBots`, `MCSite` | instances of several modules at once (see section 3) |

An action is one committed transaction, one read that a later commit depends
on, or one call to an external service, because these are the points between
which another process can act (PostgreSQL at READ COMMITTED, sessions that
expire on commit). Definitions marked as mutants are wrong variants of the
definition that follows; each property is known to fail with one of them.

### BuildQueue

`status`, `batchStatus`, `bumpedFrom`, `version` and `documented` are columns;
`stale` is the set of running rows whose `heartbeat_at` has passed the
threshold. A process is at a program point `pc` of `_poll_loop`, has a `job`, `current` (`_current_build_id`) and `pend`,
what its transaction in progress has read.

`SelectQueued`/`WinClaim`/`LoseClaim` are `_claim_next_job` around its commit,
where the partial unique index decides; `SyncRepo`, the build and the push are
`_run_build`; publishing an outcome is its own commit (`log_error` and
`flush_log` commit, too), and `_update_batch_status` is a read, possibly a slow
AI draft, and a commit. `Crash` ends a process and restarts it; `DbError` raises
a database error into a poll thread, with what `log_error` then rolls back or
commits; an error in the `finally` block ends the poll thread (`dead`).

Abstractions: a version triple is one number and every bump adds one; the batch
and its images are read at once; restarting takes no time.

Two assumptions on time are constants. `LateHeartbeats` says whether a live
owner's heartbeat can be later than the 60 s threshold. `SlowTransactions` says
whether a sync, a build or a heartbeat timeout (seconds to minutes) can fit
inside another process's read-then-commit transaction (milliseconds). Properties
that need either to be FALSE say so; the others are checked with both TRUE.

### DeployQueue

The same queue with its own index and reaper, plus: a run has several executions
and a status of its own; `_update_run_status` reads them, writes `skipped` over
the queued ones of a failed run, and commits (`ReadRun`, `CommitRun`); the count
that decides whether a start is announced is taken after the claim's commit
(`CountStarted`). `live` is what is applied for each (manifest, server) pair and
`touched` and `last` which executions changed it and which was the last to: an
apply may take effect and the execution still fail. `Oldest` is the ORDER BY of
the claim. A restart is a delete followed by an apply. Enqueuing a
stop or restart picks its `source` from `CurrentDeployment`, and an enqueue in
which nothing is deployed leaves a run without executions.

### Workflow

One workflow is modelled; runs share nothing else. A build batch or deployment
run is a job with a status, which the queues end (`JobEnds`). Where the queue is
a `JobBoard` the outcome is final. Where it is not, with late heartbeats for a
batch and always for a deployment run, which two processes may aggregate at once,
the job is `Revisable`: its outcome may change, be overwritten for good by what
an older update has read, or, for a run without executions, never come
(`endless`). `Kind` tells deploy steps, build steps with typed metadata,
generated metadata, and reviewed metadata apart.

A tick lists the queued runs with FOR UPDATE SKIP LOCKED (`ListQueued`), takes
them one by one without looking at their status again (`TakeQueued`), then the
running runs (`ListRunning`, `ReadOutcome`). `held` is the set of rows a process
has locked; every commit empties it (`Commit`), and writing a run, or inserting
a row that refers to it, waits until no other process holds it (`Free`). The
shared part `_start_step`/`finish_step` is `Advance`, used by ticks and by the
rejection of a review. `compute_build_prefill` runs inside: it commits when a
sync succeeds and rolls back when the first one fails (`Prefill`,
`PrefillRollsBack`). Adding a step is two actions because the next order is read
first. `Abort` is a crash or an exception that ends the tick or the request. A
tick that finds nothing is not a step.

### BuildContext

One repository with one clone. A branch is the set of its commits, `origin` and
`local`; `head` is what is checked out. `OpenClone`, `Checkout` and `Pull` are
`sync_repo`, step by step, for every caller: builds, previews, re-syncs.
`RecordCommitHistory` reads the tip of the local branch, `DockerBuild` or the
Job (`JobReads`) the files of whatever is checked out by then. `Unguarded` names
the previews of the orchestrator and the bots, which do not look whether a build
is running. `ApplySecret` to `CleanUp` are `KanikoBuildEngine.build_image`, with
kubectl calls that fail after taking effect and a log callback that raises
(`LogFails`). `intruded` remembers the builds in whose way somebody got, `left`
those whose engine was cut off.

### Rollout

`now` is a clock that advances only while the provider waits (`Lasts` says how
long each wait may take); the budget of the request sets `deadline` when the
wait begins, after the apply. `turn` is the workload in hand, `child` its
`kubectl rollout status`. `Shift` lets pods become ready, get stuck or disappear
at any moment, and the child may report late, fail or hang. `failFast` is
`fail_fast_detail`, `failedLabels` what the summary will call failed.

### BotActions, TelegramBot, DiscordGateway, DiscordBot

A press is a user, an action and a target, taken from a list the bot shows at
that moment (`HandleMessage`, `DispatchCommand`). A handler checks everything
again (`HandleCallbackQuery`, `DispatchComponent`) and then writes, one commit
to a step: `Enqueue`; `Approve` and `BindBatch`; `EnqueueNothing` and
`DropEmptyRun` for a stop of what is not deployed. Between them rows are
disabled and deleted, permissions revoked, stops carried out (`World`).

Telegram: `BecomePollLeader` is the advisory lock; `GetUpdates` confirms what
lies below the committed offset; `CommitOffset` is the commit after each update.
`UpdateFails` is an exception inside the loop over the updates, `TickFails` one
outside, `Crash` the end of the process.

Discord: a gateway has a `link` (thread and socket), a `session`, the last
sequence number `seq`, and a heartbeat thread (`beat`), whose send and mark are
two steps (`SendBeat`, `MarkBeat`), with the acknowledgement in between if it
comes early. The supervisor starts and stops gateways as the settings change
(`StartGateway`, `StopGateway`). Discord keeps a session over a lost connection
and replays what follows `seq` on a resume. Handlers run on the thread that
reads, except builds, which a pool takes over (`Defer`, `RunDeferred`).

### ClusterObjects, NetworkPolicyForm

A field of an object is the number of the write that set it. A page holds what
was rendered (`seen`), a save is a manifest, and `Applied` is the three-way merge
of kubectl apply against the last applied fields. What distinguishes the kinds
is what their form carries back: labels and config maps whole, a secret only
the keys typed (merged with what the cluster holds when the save arrives), an
ingress what its form or its YAML knows. A save of a secret scans for the
Deployments that use it and restarts them one by one. In `NetworkPolicyForm` a
policy is taken to the traffic it allows (`Allowed`), and the form and its
inverse (`SpecToFormFields`, `BuildPolicy`) are the code's.

### Catalogue

Every foreign key, association table and reference by code of `app/models` is an
`Edge`, with what happens to it when its target is deleted. A behaviour is about
one edge. A route looks first, at what its form offers (`BuilderChoices`, ...)
or at the referrers it counts (`Delete`), and commits later; two requests
interleave. This is one small action for each of about fifty routes, whose
differences are exactly in the choices, the kinds counted and the edges.

### Setup

`RunSetup` starts the processes of `_run_setup_steps`, one after the other; each
seed looks for its row and commits it later. `ReadConfig` and `CreateConfig` are
`get_system_config` of any thread. `Ship` puts a new release, with a new
revision and new permissions and menus, onto the database.

## 3. Runs

Eight runs pass; four end in the counterexample that section 5 describes.

| Run | Shows | Instance |
|---|---|---|
| `build_faults` | the refinements of `SingleFlight` (one builder at a time, outcomes final) and `JobBoard`, `BumpedOncePerBatch` and `BatchOutcomeIsTrue`, whatever crashes; `FailedBatchesGiveBack` until something does | 2 processes, a batch of two images and one of one, 1 crash, 1 database error, 1 edit of the Version, heartbeats on time |
| `build_zombie` | one owner per image, documentation only for successes, outcomes final except the reaper's; every queued image ends | 2 processes, a batch of two images, 1 crash, 1 database error, late heartbeats, slow transactions, fair threads |
| `deploy_faults` | deployments overlap only through a skip written over a claimed row; terminal runs have nothing left and their start was announced once; nothing of a failed run is claimed after its update; where executions acted in turn, `CurrentMatchesCluster` | 2 processes, a run of two executions, one of one, a stop, 1 crash, 1 database error, heartbeats on time |
| `deploy_zombie` | one owner, nothing runs twice; every queued execution ends | 2 processes, a run of two executions on two targets, 1 crash, 1 database error, late heartbeats, slow transactions, fair threads |
| `workflow_faults` | no automatic step enqueued twice; one build per review, and one more per approval that was cut off; an ended run rests; refinement of `Pipeline`; without the crash every run ends or waits for a reviewer or an endless job | 2 orchestrators, a reviewer, 1 run of an automatic, a reviewed and a deploy step, 1 crash, revised outcomes, fair orchestrators and queues |
| `workflow_edits` | what a run reports agrees with its step runs, also under edits; no step starts before those ahead of it are over, also when a repository cannot be read | 2 orchestrators, a reviewer, 2 steps, 3 edits or 1 failing sync |
| `bots` | types of both bots. Telegram: a press is acted on once per fault, what Telegram forgets was taken up, the offset passes every update. Discord: a press is acted on once unless two gateways are connected, none is lost while its session is held | Telegram: 2 processes, 2 presses, 1 fault, 1 switch of the settings or 1 row or permission taken away. Discord: 2 gateways, a pool thread, 1 press, 1 lost connection, session or process, off and on again |
| `site` | types of the seven modules; `ActsInTurn`, `RunsSettle` and `RunsAreJobs`, the refinement of `JobBoard`, of DeployQueue; `HeldForOneBudget`, `WaitIsHonest`; `UsersCatchUp`, `UntouchedKeysSurvive`; `SaveKeepsTraffic`; `ImageIsItsCommitAlone`, `JobsAreCleanedUp`; `ReferencesSurvive`; `SeededOnceAndWhole` | see below |
| `deploy_overlap`, `workflow_double`, `workflow_git_fails`, `build_context` | violations, section 5 | |

`bots` and `site` check several modules in one run. Their parts do not call each
other: `part` is chosen in the initial state and the variables of the other
parts rest, so the state space is the sum of the parts', not their product, and
each property is about the part it names. The parts of `site`:

* DeployQueue: 1 process; deploy, deploy, stop, restart of one target, the first
  deploy with an execution on a second target; 1 crash. One process, because
  with two, executions of one target may be claimed out of order and two updates
  of a run may commit out of order (section 5);
* Rollout: 3 workloads, two of which can be probed, budgets of 0 and 3 ticks and
  a buffer of 2, so that the deadline falls before, in and after a turn, 3
  changes of the cluster;
* ClusterObjects: 2 administrators, 2 keys, 2 Deployments, 2 writes, 1 change
  from outside;
* NetworkPolicyForm: every policy and form of one peer at most per rule (a rule
  is a union over its peers, so that two add nothing that one does not show);
* BuildContext: 2 builds, of two branches one of which is ahead, a preview that
  does not look, a re-sync, 1 push or fault;
* Catalogue: every edge, 2 referrers, 2 requests;
* Setup: 2 presses of the button, 1 reader of the settings, 1 fault, 1 release,
  1 save.

Why these bounds: every hazard listed needs two actors at most (a third only
repeats a role), two batches or runs that touch the same Version, target or
tick, and one batch or run with two members, so that "first" and "last" of it
differ. One fault reaches every program point. The runs with late heartbeats
have a single batch or run, because their fair state graphs are the largest and
the reaper acts on rows, not on batches. One reviewer, because an approval
and a rejection that overlap break what these runs check (section 5); the bound
of `ApprovedOnce` is proved for any number. One Discord press is enough for what is
said of each press, as no action looks at two. Rows and permissions are taken
away under Telegram's users only, since nothing that is said of Discord looks at
them and the handlers share `BotActions`. Where two bounded events cannot
matter to one property together (an edit and an unreadable repository in
`workflow_edits`; a switch and an edit in `bots`; a failed seed and a release, a
preview and a re-sync in `site`) the MC module allows one of them in a
behaviour, and no write of a network policy while its form is open. No symmetry
is used.

CHECK_DEADLOCK is off where the system may stop: all poll threads may have died
(`build_zombie`, `deploy_zombie`), or users, administrators and faults are used
up (`bots`, `site`, `build_context`). An edit makes `FailedBatchesGiveBack` void
but not the others of `build_faults`: it is there to let the numbers change
between a claim and a restore.

### Fairness

Poll threads run for ever, so each process takes a poll step that stays possible
(WF). Syncs, kubectl calls and heartbeat timeouts wait, in the model, for a
moment without short transactions of others; such moments recur but do not
last, which is strong fairness. Liveness is checked in `build_zombie` and
`deploy_zombie`, which allow slow transactions, so that it does not hang on that
assumption. In Workflow, a writer that waits for a row lock gets it when the holder's
transaction ends, before the holder's next tick two seconds later (SF on
`Advance`), and the queues give every job an outcome or leave it endless;
`EveryImageEnds` and `EveryExecutionEnds` check of them that they carry out what
they have. In TelegramBot every
process goes on with its poll thread (WF): it is restarted by gunicorn when it
has died, waits for the lock, polls and handles. Users need not act, commands
need not stay enabled (`EveryUpdateIsPassed` says what follows if they do), and
nothing has to crash. The other modules state safety only.

## 4. Theorems

Each theorem holds for every value of the constants that the module's named
assumption allows: any sets of processes, rows, targets, users or keys, any
bound on failures. The assumptions give the constants their types. They also say
that the executions, the steps and the threads of bots are finitely many (so
that there is a youngest, a first and a number of them), that what is deployed at
first is deployed by a manifest that exists, and that builds, previews and
re-syncs are different things. TLC evaluates all of them. What a theorem needs
beyond that is a hypothesis of its own, in the third column. None of the
properties is inductive, so each module of proofs starts from an inductive
invariant, whose parts are named below.

### The build queue

| Theorem | States | If |
|---|---|---|
| `TypeCorrect` | `[]TypeOK` | |
| `OneOwner` | `[]OneOwnerPerImage` | |
| `OnlySuccessIsDocumented` | `[]DocumentedBatchesSucceeded` | |
| `OutcomesFinal` | `OutcomesAreFinal` | |
| `OneBuilderAtATime` | `[]OneBuilder` | heartbeats on time |
| `DoneStaysDone` | `DoneIsDone` | heartbeats on time |
| `QueueIsSingleFlight` | the refinement of `SingleFlight` | heartbeats on time |
| `NumberedOnce` | `BumpedOncePerBatch` | no slow transactions |
| `OutcomeIsTrue` | `[]BatchOutcomeIsTrue` | both |
| `NumbersAreGivenBack` | `[]FailedBatchesGiveBack` | both |
| `BatchesKeepTheirOutcome` | `BatchesAreJobs`, the refinement of `JobBoard` | both |

One owner per image depends on what claimers have locked, and documentation on
what an update has read long before it commits. `SafeInv` is the conjunction of
`TypeOK`; `ClaimInv` (a claimer's row is queued and locked by it alone);
`OwnerInv` (an owner's row is running, or was failed by the reaper, and is its
own alone); `RowInv` (one running row, stale rows run, images exist only with
their batch) and `UpdateInv` (an update that saw a successful, undocumented
batch is still right, because successes are final; documented batches have
images and all succeeded). `StepSafe` proves it inductive action by action.
With heartbeats on time `FreshInv` is added: every owner's row is running and
not stale. Then a running row has one owner at most and an owner one running
row, which gives `OneBuilder` and, step by step in `FlightStep`, the refinement:
each action is a `Submit`, `Start`, `Finish` or abandonment of `SingleFlight`,
or a stutter.

`BumpInv` says that a claim is computed from its batch as it is, unless another
claim has won meanwhile and its build has just begun; a build cannot end within
a claim unless transactions are slow, so the loser finds the index taken.
`OutcomeInv` follows an update from its read to its commit: `UpdaterInv` (two
updates of one batch overlap only while one of its images runs), `ReadInv` (if
all images were done when they were read, they are as they were read),
`NoticeInv` and `AnnouncedInv` (who finishes the batch announces it),
`WrittenInv` and `SettledInv` (once the images are done, the batch has its
outcome or somebody is about to write it, until something crashes). Both
hypotheses are needed: the reaper of a live owner, and an update held up for the
length of a build, let a second update commit first (section 5). The same
invariant gives `TerminalStays`, that no claim reopens a batch that has ended
and no update revises it, and with it the refinement of `JobBoard`, in
`JobStep`: a batch is submitted, ends, or moves between two open statuses.

`GiveBackInv` is about numbers, as long as nothing but builds fails and nobody
types them. A batch *keeps* its number until it has failed outright and the
update of that failure has committed; a Version is `Lost` once a batch was
claimed on top of one that failed, and stays so. Until then it is `Orderly`: the
batches that keep their numbers have exactly those below the Version's, each its
own. So a batch that is to give its number back has the last one that was given
(`LastNumber`), and its commit restores the number that was bumped. `ClaimOf`
carries this across the gap in which another claim has read the Version before
the commit: its number is then on top of the batch that failed, and the claim
makes the Version `Lost`. `RestoreOf` says that what an update has read to
restore differs from what it found, so that the restore is written. When
everything is idle the batches that keep a number are those that published, and
`OrderCounts` counts them.

### The deployment queue

| Theorem | States | If |
|---|---|---|
| `TypeCorrect` | `[]TypeOK` | |
| `OneOwner` | `[]OneOwnerPerExecution` | |
| `EndedRunsAreDone` | `[]TerminalRunsAreDone` | |
| `NothingIsRunTwice` | `NothingRunsTwice` | |
| `ClaimsEndAtUpdate` | `ClaimedOnlyBeforeSkip` | |
| `OverlapNeedsSkip` | `[]OverlapOnlyBySkip` | heartbeats on time |
| `CurrentIsLive` | `[]CurrentMatchesCluster` | |
| `ActingIsInTurn` | `[]ActsInTurn` | one process |
| `DoneRunsSettle` | `[]RunsSettle` | one process |
| `RunsKeepTheirOutcome` | `RunsAreJobs`, the refinement of `JobBoard` | one process |

`SafeInv` is that of the build queue with `skipped` added and two parts more:
`EndedInv` (a terminal run has nothing left) and `StartedInv` (its start is
announced by the first claim). `CallOffInv` says that, until something crashes,
a run with a failure and a queued execution has an updater that is going to
skip it. `ClusterInv` is about the cluster, for any fleet: `TimeInv` (the rows of
a target are told apart by their time), `TouchInv` (a success has acted, what
waits has not), `LastInv` (who changed a target last is one of those that did)
and `ShownInv` (what is live is the outcome of the last to change it, once that
one is past its kubectl calls). Where the last is also the youngest, the
youngest success is either the last or older than it, and
`CurrentMatchesCluster` follows.

The last three theorems are about a fleet of one worker process. The three of
`entrypoint.sh` break each of them, because SKIP LOCKED lets the second of two
processes claim the younger execution first, and because nothing keeps two
updates of a run apart (section 5). They say what the design gives as long as
the queue is not shared, or once claim and update are serialized.
`OrderInv` says that what has acted is older than what waits. `RunInv` follows a
run: `JobInv` (an update holds what its run has now, as nobody else writes it),
`TellInv` (a run was announced exactly when it has ended, and rows are skipped
only behind a failure) and `SettleInv` (a run that is done has its outcome, or
its update is still to come, until something crashes).

### The orchestrator

`Exclusive` means one run or one process: a tick that lists several runs
releases the locks on all of them with its first commit, which is the
counterexample of `workflow_double`. `OneReviewer` excludes two overlapping
reviews of a step (section 5), `NoRollbacks` the rolled back start of
`workflow_git_fails`, `NoReordering` a step that is moved behind the current
one and so comes again.

| Theorem | States | If |
|---|---|---|
| `WorkflowTypeCorrect` | `[]TypeOK` | |
| `ReviewsAreActedOnOnce` | `[]ApprovedOnce` | |
| `FlowHolds` | `FlowInv` while no repository has failed | `Exclusive`, `OneReviewer` |
| `AwaitingRunsRest` | `[]AwaitingRunsWait` | and `NoRollbacks` |
| `EndedRunsAreClosed` | `EndedRunsRest` | and `NoRollbacks` |
| `RunsEndHonestly` | `[]EndsHonestly` | `Exclusive`, `OneReviewer`, `DistinctOrders` |
| `StepsRunOnce` | `[]OneJobPerStep` | `Exclusive`, `OneReviewer`, `NoRollbacks`, `NoReordering` |
| `RunsArePipelines` | the refinement of `Pipeline` | `Exclusive`, `OneReviewer`, `NoRollbacks`, `FixedSteps` |

`HandInv` ties what an agent has in hand to its program point. `CountInv` counts
the batches of a reviewed step, for any number of reviewers who tap at once: a
reviewer is `Spent` for a step run once they have approved it or can no longer
reach the code that does, every batch has a spent reviewer of its own or was
enqueued by an approval that was cut off, and a spent reviewer stays so.
`FlowInv` is the heart of the rest. `LockInv` (a row has one holder; with one run
whoever has listed it and not committed holds it), `WatchInv` (the step run in
hand is as it was read), `OwnInv` (what its agent may assume of a run),
`AloneInv` (nobody else acts on that run or is about to start it), `RunInv` (one
open step run at most, that of the current step; a run that has not started has
left no trace; a run is announced exactly when it has ended). On it stand
`HistoryInv` (flag, status and step runs tell one story), `OrderInv` (a step run
has the steps ahead of it settled), `OnceInv` (the jobs of a run are those of
its current and earlier steps, which their step runs keep from being deleted)
and, for the refinement, `PlaceInv` (one step run per step). `AllInv` is their
conjunction, and one lemma per action of Workflow shows it to be an action of
`Pipeline` or a stutter.

### The bots

| Theorem | States |
|---|---|
| `BotsTypeCorrect` | `[]BotsTypeOK` |
| `TelegramTypeCorrect` | `[]TelegramTypeOK` |
| `TelegramActsOnce` | `[]ActedOnOncePerFault` |
| `DiscordTypeCorrect` | `[]DiscordTypeOK` |
| `DiscordActsOnce` | `[]ActedOnOnce` |
| `NoInteractionIsLost` | `[]NoInteractionLost` |

Telegram: `PollInv` (the holder of the advisory lock, and nobody else, polls and
has the first uncommitted update in hand), `TriedInv` (what was committed was
taken up), `CountInv`, `BatchInv` and `DropInv` (an update not yet past its
write has been acted on at most once per fault, one past it once more; the same
for the batches of a review and for empty runs). Discord: `LinkInv` (as long as
no two sessions were held at once, the one held is ahead of all that was handed
over), `ReadInv`, and `PlaceInv` (an interaction has one thread or one place in
the queue of the pool, and none once it was acted on). `BotsInv` has the invariant of the bot at
work, and the other at rest.

### Builds, clusters and tables

| Theorem | States |
|---|---|
| `ContextTypeCorrect` | `[]ContextTypeOK` |
| `ImagesAreTheirCommits` | `[]ImageIsItsCommitAlone` |
| `JobsAreGone` | `[]JobsAreCleanedUp` |
| `RolloutTypeCorrect` | `[]RolloutTypeOK` |
| `OneBudgetForAll` | `[]HeldForOneBudget` |
| `HonestWait` | `[]WaitIsHonest` |
| `ClusterTypeCorrect` | `[]ClusterTypeOK` |
| `SecretUsersCatchUp` | `[]UsersCatchUp` |
| `UntouchedKeysAreKept` | `UntouchedKeysSurvive` |
| `PolicyTypeCorrect` | `[]PolicyTypeOK` |
| `SavesKeepTraffic` | `SaveKeepsTraffic` |
| `SetupTypeCorrect` | `[]SetupTypeOK` |
| `SeedsAreWhole` | `[]SeededOnceAndWhole` |
| `CatalogueTypeCorrect` | `[]CatalogueTypeOK` |
| `ReferencesAreKept` | `ReferencesSurvive` |
| `PartsKeepTheirSpecs` | every module's specification, of their composition |
| `SiteTypeCorrect` | `[]SiteTypeOK` |

* BuildContext: `StageInv` (a build goes through its stages once), `CleanInv` (as
  long as nobody got in its way its branch is checked out, as recorded, until its
  engine has read it), `LeftInv` (a Job or a Secret has an engine on the way to
  its clean-up, or was left).
* Rollout, for every number of workloads and every budget: `ClockInv` bounds how
  far the clock can be past the one deadline in each phase of a poll, `ChildInv`
  (no child outlives its turn), `LabelInv` (what was reported for the turns that
  are over), `OutcomeInv`.
* ClusterObjects: `BehindInv` (a user of a secret that is behind it is still to
  be restarted) and `CarriesInv` (a request differs from what it saw only in the
  fields its user typed). `SavesKeepTraffic` needs no invariant: a peer the form
  can make comes back from the row that shows it, hence a rule, hence a policy.
* Setup: `FoundInv`, `RaceInv` (two transactions that both miss a row have raced
  for it), `SavedInv`, `DoneInv` (whoever is past a seed left it done) and
  `LeadInv`: as long as no seed failed of itself, some press of the button is at
  the first seed that is not done. Of two presses, then, one finishes.
* Catalogue: `KeptInv` (a request about to delete has counted every reference
  that is not late), for every edge of the schema.

### Only model-checked

Liveness (`EveryImageEnds`, `EveryExecutionEnds`, `EveryRunEnds`,
`EveryUpdateIsPassed`), which needs fairness and ENABLED and is beyond the
prover. Every other property of a passing run is a theorem above. (The types of
the build queue and of the orchestrator, `OneBuilder` and `DoneIsDone`, which
follow from the refinement of `SingleFlight`, are theorems that no run repeats.) `OneDeployer`,
`AwaitingRunsWait` and `ImageIsItsCommit` are properties that the code breaks;
`AwaitingRunsRest` states what the second one needs.

## 5. Where code and documentation disagree

Four runs end in a counterexample; `PROJECT.json` quotes the lines.

1. `deploy_overlap`: `_update_run_status` writes `skipped` over a row that has
   been claimed since it was read and frees the slot under a working process, so
   two deployments run at once (`deployment/worker.py:4-7` rules that out).
2. `workflow_double`: two orchestrators start the same step of a run
   (`workflow/worker.py:329-331`).
3. `workflow_git_fails`: an unreadable repository undoes the start of the run
   and the step is started again in every tick (`workflow/worker.py:211-213`).
4. `build_context`: a preview of another branch, allowed before the build was
   claimed, checks it out between the sync of the build and the reading of its
   context; the image then holds other commits than those recorded.

The models show more that the passing properties have to allow for. Each is
named where a property makes its exception:

* the failed status of a build is visible before the Version's number is
  restored; another batch may bump in between and lose its bump
  (`ClaimedOnTop` in `FailedBatchesGiveBack`; the comment at
  `build/worker.py:359-362` excludes it). A crash between the two commits leaves
  the number bumped and the batch running for good (`crashes` in the same
  property and in `Settled`);
* a build may fail after its push, and the number is given back all the same
  (`PublishFailure` from `pushed`; `build/worker.py:358-359`);
* a stalled heartbeat fails a build with a live owner, who later writes over the
  reaper's `failed` (`OutcomesAreFinal`; `build/worker.py:29-34`), and
  `_current_build_id` may be set in two processes, one of which is aggregating
  (`build/worker.py:41-43`);
* the Job of a build that was reaped, or whose log could not be saved, goes on
  and may push after the build has failed (`left` in `JobsAreCleanedUp`);
* the next execution of a failed run can be claimed before the rest is skipped
  (`ClaimedOnlyBeforeSkip`; `deployment/worker.py:232-234`);
* SKIP LOCKED lets a younger execution be claimed first (`ActedInTurn` in
  `CurrentMatchesCluster`, and `ActsInTurn` is for one process;
  `deployment/worker.py:127-128`), and a stop acts on the deployment before the
  one still queued (`deployment/worker.py:116-119`);
* a failed execution may have changed the cluster (`Unfinished` in
  `CurrentMatchesCluster`; `deployment/worker.py:54-55`);
* two updates of one run may commit in the other order and leave it running for
  good, or revise an outcome that the orchestrator has acted on
  (`TerminalRunsAreDone` is one-sided, `RunsSettle` and `RunsAreJobs` are for one
  process, `Revisable` in Workflow; `deployment/worker.py:238-239`). A crash
  between the commit of an execution and that of its run leaves it so, too
  (`crashes` in `RunsSettle`);
* a workload whose turn comes after the shared deadline counts as failed
  although it may be ready (`WaitIsHonest` speaks of those reported ready);
* two approvals that overlap enqueue two builds, and so does one that was cut
  off and repeated (`Reviewers` and `aborts` in `ApprovedOnce`;
  `telegram/worker.py:437-439`); an approval that overlaps a rejection has its
  step running in a run that has gone on or ended (`OneReviewer`);
* a crash between the commits of a step run and of its run leaves the run at a
  decided step (`aborts` in `EveryRunEnds`; `APP_SUMMARY.md:166-168`);
* two steps added at once share an order, and a run executes one of them and
  reports success (`StartedAfterPredecessors` is checked without edits;
  `models/workflow_run.py:10-11`);
* Telegram delivers an update again after a crash, or a failing commit, behind
  its handling: the build or deployment is enqueued twice (`faults` in
  `ActedOnOncePerFault`);
* a Discord gateway stopped before its Hello stays connected, because
  `_start_heartbeat` clears the event that `stop()` has set; switched on again,
  there are two and both handle each interaction (`doubled` in `ActedOnOnce`;
  `_supervise` says that it tears a live connection down);
* the network policy form turns a default-deny direction, a peer with two
  selectors, expressions or exceptions into something else (`Expressible` in
  `SaveKeepsTraffic`; `deployment_pods/routes.py:1359-1365` promises that nothing
  is dropped), and the ingress form and its YAML drop annotations and what else
  they do not know (the ingress is not in `UntouchedKeysSurvive`);
* a form that was open while somebody else saved brings the older values back
  (`seen` in `UntouchedKeysSurvive`);
* deleting a role or a user takes it off access lists nobody counts, and an
  empty list means everyone; a builder whose repository is not ready is moved to
  another one by any edit; a manifest's edit drops users who are disabled
  (`LetGo` in `ReferencesSurvive`). A reference made after a delete has counted
  goes with it or makes the delete fail (`late`);
* two first accesses create two rows of settings, and two presses of the setup
  button duplicate menus and prompts (`raced` in `SeededOnceAndWhole`). A seed
  that fails after the user was created leaves the wizard closed on a database
  that is not whole (`faults` there; `setup_status.py:25-28`).

## 6. Not modelled

* The text of logs, manifests, prompts and messages, forms and pages, layout and
  listings; what a version number looks like and which bump a heuristic
  suggests; the substitution of the manifest resolver; the YAML generators apart
  from the network policy. These are pure functions of text.
* The live-status poller of the deployment worker (lines 494-558): it writes a
  column that no code reads.
* Login, password reset and the account page: each changes one row in one
  request. Permissions are checked in `BotActions`, where they may be revoked
  under a list that is still shown; elsewhere a request in the model is one that
  was allowed.
* One-off data migrations of menus and permissions in `seeds/`, and the
  deployment files.
* The database itself: transactions are atomic, unique constraints and row
  locks do what PostgreSQL documents at READ COMMITTED. Connections may fail
  where `DbError` says.
* More than one workflow, more than one repository, the delete of a network
  policy.

## 7. Plan

The modelling is complete but for what section 6 names, and every property of a
passing run in section 3 that is not liveness is a theorem of section 4. What
could come next:

1. The hypotheses `OneReviewer` and `OneProcess` name what the code does not
   serialize. A status guard on the writes of a review and of `skipped`, and a
   row lock around `_update_run_status`, would be new versions of
   `OpenReview`, `CommitRun` and `ReadRun` for which the theorems could be proved
   without them.
2. What still holds under `NoReordering` and `DistinctOrders` dropped: a weaker
   form of `StepsRunOnce` and of the order of steps.

The map of `PROJECT.json` covers about 7700 of the 21,000 lines of the Python code, most of
them in the workers, the two bots, the cluster pages and the catalogue routes.
