----------------------------- MODULE BotActions -----------------------------
(***************************************************************************)
(* What a command or a button of the Telegram and Discord bots does to the *)
(* application: the tables and lookups both share (app/services/           *)
(* bot_shared.py) and the steps in which a handler, after its checks,      *)
(* writes to the database.  A button outlives the list it was shown in, so *)
(* what it names may be disabled, deleted, decided or out of reach by the  *)
(* time it is pressed.  A write is one commit; an approval takes two, and  *)
(* so does a stop of nothing (the run is committed and then deleted).      *)
(***************************************************************************)
EXTENDS Naturals, FiniteSets

CONSTANTS
  Actors,        (* threads that handle what users press                    *)
  MaxPresses,    (* bound: buttons pressed                                  *)
  Users,
  Workflows, Builders, Manifests,
  Steps,         (* WorkflowStepRun rows that await a review                *)
  GroupOf,       (* group_name of a builder or a manifest                   *)
  VersionOf,     (* Builder.version_id                                      *)
  NoGroup,
  NoButton,
  Deployed,      (* manifests deployed at the start                         *)
  Contested,     (* bound: rows and permissions that may be taken away      *)
  MaxEdits       (* bound: how many of these changes                        *)

Permissions == {"workflow.run", "builder.build", "deployment.deploy", "deployment.stop"}
NoPress == 0
Presses == 1..MaxPresses          (* in the order in which they are pressed *)
Things  == Workflows \union Builders \union Manifests

ASSUME BotAssumption ==
  /\ IsFiniteSet(Actors) /\ MaxPresses \in Nat
  /\ Deployed \subseteq Manifests
  /\ DOMAIN GroupOf = Builders \union Manifests
  /\ DOMAIN VersionOf = Builders
  /\ Contested \subseteq Things \union Steps \union Permissions
  /\ MaxEdits \in Nat

VARIABLES
  (* the database *)
  present,       (* rows not deleted                                        *)
  enabled,       (* is_active; for a builder, with a default branch too     *)
  granted,       (* (user, permission) and (user, accessible row) pairs     *)
  review,        (* WorkflowStepRun.status of each step                     *)
  live,          (* manifests is_currently_deployed is true of              *)
  stopping,      (* manifests a queued run will stop                        *)
  queued,        (* per press, runs and batches committed for it            *)
  batches,       (* per step, batches committed by its approvals            *)
  emptyRuns,     (* committed deployment runs without executions            *)
  (* the users *)
  button,        (* what each press is                                      *)
  (* each handling thread *)
  at, on, targets,
  (* bounds *)
  edits

dataVars  == <<present, enabled, granted, review, live, stopping, queued, batches, emptyRuns>>
actorVars == <<at, on, targets>>
botVars   == <<dataVars, actorVars, button, edits>>

-----------------------------------------------------------------------------
(* DEPLOY_ACTIONS: restart goes as stop, update as deploy. *)
Teardown == {"stop", "gstop"}
OnGroup  == {"gdeploy", "gstop", "gbuild"}
Permission(action) ==
  CASE action \in {"run", "approve", "reject"} -> "workflow.run"
    [] action \in {"build", "gbuild"}          -> "builder.build"
    [] action \in {"deploy", "gdeploy"}        -> "deployment.deploy"
    [] action \in {"stop", "gstop"}            -> "deployment.stop"

Groups == {GroupOf[t] : t \in Builders \union Manifests} \ {NoGroup}
Press(u, action, S) == {[user |-> u, action |-> action, target |-> t] : t \in S}
Buttons ==
  UNION {Press(u, "run", Workflows) \union Press(u, "approve", Steps) \union Press(u, "reject", Steps)
           \union Press(u, "build", Builders) \union Press(u, "gbuild", Groups)
           \union Press(u, "deploy", Manifests) \union Press(u, "gdeploy", Groups)
           \union Press(u, "stop", Manifests) \union Press(u, "gstop", Groups) : u \in Users}

May(b)           == <<b.user, Permission(b.action)>> \in granted
Accessible(u, S) == {t \in S : <<u, t>> \in granted}

(* _groups_among: groups of more than one member. *)
InGroup(g, S)  == {t \in S : GroupOf[t] = g}
GroupsAmong(S) == {g \in Groups : Cardinality(InGroup(g, S)) > 1}

(* _single_version_groups_among *)
OneVersion(B) == \A a, b \in B : VersionOf[a] = VersionOf[b]
SingleVersionGroupsAmong(B) == {g \in GroupsAmong(B) : OneVersion(InGroup(g, B))}

(* resolve_group_build_target; nothing if the group may not be built. *)
GroupBuildTarget(u, g) ==
  LET B == InGroup(g, Builders \intersect enabled)
  IN  IF B = Accessible(u, B) /\ OneVersion(B) THEN B ELSE {}

(* _manifests_in_group *)
ManifestsInGroup(g, activeOnly) ==
  InGroup(g, Manifests \intersect (IF activeOnly THEN enabled ELSE present))

-----------------------------------------------------------------------------
(* The writes of a handler, once its checks have let the button through.   *)

Working(a)   == at[a] \in {"check", "write", "link", "undo"}
Action(a)    == button[on[a]].action
Go(a, stage) == at' = [at EXCEPT ![a] = stage]
Touches(a)   == targets[a] \subseteq present

(* The result of the checks: what to act on, nothing if refused. *)
Decide(a, T) ==
  /\ at[a] = "check"
  /\ targets' = [targets EXCEPT ![a] = T]
  /\ Go(a, IF T = {} THEN "done" ELSE "write")
  /\ UNCHANGED <<dataVars, on, button, edits>>

(* A workflow run, a build batch or a deployment run with its executions.  *)
Enqueue(a) ==
  /\ at[a] = "write" /\ Touches(a)
  /\ \/ Action(a) \in {"run", "build", "gbuild", "deploy", "gdeploy"}
     \/ Action(a) \in Teardown /\ targets[a] \intersect live # {}
  /\ queued' = [queued EXCEPT ![on[a]] = @ + 1]
  /\ Go(a, "done")
  /\ stopping' = IF Action(a) \in Teardown THEN stopping \union (targets[a] \intersect live) ELSE stopping
  /\ UNCHANGED <<present, enabled, granted, review, live, batches, emptyRuns, on, targets, button, edits>>

(* A stop or a restart of what is not deployed. *)
EnqueueNothing(a) ==
  /\ at[a] = "write" /\ Action(a) \in Teardown
  /\ targets[a] \intersect live = {}
  /\ emptyRuns' = emptyRuns + 1
  /\ Go(a, "undo")
  /\ UNCHANGED <<present, enabled, granted, review, live, stopping, queued, batches, on, targets, button, edits>>

DropEmptyRun(a) ==
  /\ at[a] = "undo"
  /\ emptyRuns' = emptyRuns - 1
  /\ Go(a, "done")
  /\ UNCHANGED <<present, enabled, granted, review, live, stopping, queued, batches, on, targets, button, edits>>

(* approve_awaiting_step commits the batch, then binds it to the step.     *)
Approve(a) ==
  /\ at[a] = "write" /\ Action(a) = "approve"
  /\ queued' = [queued EXCEPT ![on[a]] = @ + 1]
  /\ batches' = [s \in Steps |-> IF s \in targets[a] THEN batches[s] + 1 ELSE batches[s]]
  /\ Go(a, "link")
  /\ UNCHANGED <<present, enabled, granted, review, live, stopping, emptyRuns, on, targets, button, edits>>

Settle(a, outcome) ==
  /\ review' = [s \in Steps |-> IF s \in targets[a] THEN outcome ELSE review[s]]
  /\ Go(a, "done")
  /\ UNCHANGED <<present, enabled, granted, live, stopping, queued, batches, emptyRuns, on, targets, button, edits>>
Misspells(a) == at[a] = "link" /\ Settle(a, "runing")          (* mutant *)
BindBatch(a) == at[a] = "link" /\ Settle(a, "running")
Reject(a)    == at[a] = "write" /\ Action(a) = "reject" /\ Settle(a, "failed")

(* An exception in the handler, or a row it needs is gone: rolled back.    *)
HandlerFails(a) ==
  /\ Working(a)
  /\ Go(a, "done")
  /\ UNCHANGED <<dataVars, on, targets, button, edits>>
RowGone(a) == at[a] = "write" /\ ~Touches(a) /\ HandlerFails(a)

Write(a) ==
  \/ Enqueue(a) \/ EnqueueNothing(a) \/ DropEmptyRun(a)
  \/ Approve(a) \/ BindBatch(a) \/ Reject(a) \/ RowGone(a)

-----------------------------------------------------------------------------
(* Administrators and the deployment worker. *)

Edited == edits < MaxEdits /\ edits' = edits + 1

Disable(t) ==
  /\ Edited /\ t \in enabled
  /\ enabled' = enabled \ {t}
  /\ UNCHANGED <<present, granted, review, live, stopping, queued, batches, emptyRuns, actorVars, button>>

(* A manifest that is deployed is not deleted. *)
Delete(t) ==
  /\ Edited /\ t \in present \ live
  /\ present' = present \ {t} /\ enabled' = enabled \ {t}
  /\ UNCHANGED <<granted, review, live, stopping, queued, batches, emptyRuns, actorVars, button>>

Revoke(pair) ==
  /\ Edited /\ pair \in granted
  /\ granted' = granted \ {pair}
  /\ UNCHANGED <<present, enabled, review, live, stopping, queued, batches, emptyRuns, actorVars, button>>

(* A queued stop is executed. *)
Stopped(m) ==
  /\ m \in stopping
  /\ live' = live \ {m} /\ stopping' = stopping \ {m}
  /\ UNCHANGED <<present, enabled, granted, review, queued, batches, emptyRuns, actorVars, button, edits>>

World ==
  \/ \E t \in Things \intersect Contested : Disable(t) \/ Delete(t)
  \/ \E u \in Users, c \in Contested : Revoke(<<u, c>>)
  \/ \E m \in Manifests : Stopped(m)

(* Nothing is pressed yet. *)
BotInit ==
  /\ present = Things /\ enabled = Things
  /\ granted = Users \X (Permissions \union Things \union Steps)
  /\ review = [s \in Steps |-> "awaiting_review"]
  /\ live = Deployed /\ stopping = {}
  /\ queued = [x \in Presses |-> 0]
  /\ batches = [s \in Steps |-> 0]
  /\ emptyRuns = 0
  /\ button = [x \in Presses |-> NoButton]
  /\ at = [a \in Actors |-> "idle"]
  /\ on = [a \in Actors |-> NoPress]
  /\ targets = [a \in Actors |-> {}]
  /\ edits = 0

BotTypeOK ==
  /\ enabled \subseteq present /\ present \subseteq Things
  /\ granted \subseteq Users \X (Permissions \union Things \union Steps)
  /\ review \in [Steps -> {"awaiting_review", "running", "failed"}]
  /\ live \subseteq present /\ stopping \subseteq live
  /\ queued \in [Presses -> Nat] /\ batches \in [Steps -> Nat] /\ emptyRuns \in Nat
  /\ button \in [Presses -> Buttons \union {NoButton}]
  /\ at \in [Actors -> {"idle", "check", "write", "link", "undo", "done"}]
  /\ on \in [Actors -> Presses \union {NoPress}]
  /\ targets \in [Actors -> SUBSET (Things \union Steps)]
  /\ edits \in 0..MaxEdits
=============================================================================
