----------------------------- MODULE DiscordBot -----------------------------
(***************************************************************************)
(* The Discord bot of app/services/discord/worker.py on its gateways:      *)
(* interactions are handled on the thread that reads the connection, but   *)
(* for previews and confirmations of builds, which a pool of threads takes *)
(* over.  An interaction is a press of BotActions; it is not delivered     *)
(* again once its number was kept.                                         *)
(***************************************************************************)
EXTENDS BotActions, DiscordGateway, Sequences

CONSTANTS
  PoolThreads,     (* threads of _build_executor                            *)
  PickedActions    (* bound: what users pick                                *)

ASSUME DiscordAssumption ==
  /\ Gateways \union PoolThreads \subseteq Actors /\ Gateways \intersect PoolThreads = {}
  /\ MaxInteractions <= MaxPresses

VARIABLE deferred       (* interactions submitted to the pool *)

discordVars == <<botVars, gatewayVars, deferred>>

-----------------------------------------------------------------------------
(* The slash commands list what the user may act on now. *)

RunOptions(u)    == Press(u, "run", Accessible(u, Workflows \intersect enabled))
ReviewOptions(u) ==
  LET S == {s \in Accessible(u, Steps) : review[s] = "awaiting_review"}
  IN  Press(u, "approve", S) \union Press(u, "reject", S)
BuildOptions(u)  ==
  LET B == Accessible(u, Builders \intersect enabled)
  IN  Press(u, "build", B) \union Press(u, "gbuild", SingleVersionGroupsAmong(B))
DeployOptions(u) ==
  LET M == Accessible(u, Manifests \intersect enabled)
  IN  Press(u, "deploy", M) \union Press(u, "gdeploy", GroupsAmong(M))
StopOptions(u) ==
  LET M == Accessible(u, live)
  IN  Press(u, "stop", M) \union Press(u, "gstop", GroupsAmong(M))

DispatchCommand(u) ==
  {b \in RunOptions(u) \union ReviewOptions(u) \union BuildOptions(u) \union DeployOptions(u)
           \union StopOptions(u) : May(b)}

-----------------------------------------------------------------------------
(* _dispatch_component: what an interaction acts on, nothing if refused. *)

RunSelect(b) == Accessible(b.user, {b.target} \intersect enabled)

(* _awaiting_review_step_run_for_user *)
ReviewOf(b)      == Accessible(b.user, {s \in {b.target} : review[s] = "awaiting_review"})
ApproveReview(b) == {ReviewOf(b), {}}
RejectReview(b)  == {ReviewOf(b)}

ManifestActionSelect(b) ==
  LET M == IF b.action \in OnGroup THEN ManifestsInGroup(b.target, b.action \notin Teardown)
           ELSE {b.target} \intersect present
  IN  IF M = Accessible(b.user, M) /\ (b.action \in Teardown \/ M \subseteq enabled) THEN M ELSE {}

DispatchComponent(b) ==
  IF ~May(b) THEN {{}}
  ELSE CASE b.action = "run"     -> {RunSelect(b)}
         [] b.action = "approve" -> ApproveReview(b)
         [] b.action = "reject"  -> RejectReview(b)
         [] OTHER                -> {ManifestActionSelect(b)}

(* _handle_build_select, _handle_build_confirm_select and, for a group,    *)
(* which is not looked up yet, their group variants.                       *)
Deferrable(b) ==
  May(b) /\ (b.action = "gbuild" \/ Accessible(b.user, {b.target} \intersect enabled) # {})

(* _run_build_confirm and _run_group_build_confirm: the permission is not  *)
(* asked for again; the prefill may not be ready.                          *)
RunBuildConfirm(b)      == {Accessible(b.user, {b.target} \intersect enabled), {}}
RunGroupBuildConfirm(b) == {GroupBuildTarget(b.user, b.target), {}}

IsBuild(b) == b.action \in {"build", "gbuild"}

-----------------------------------------------------------------------------
Take(a, x) ==
  /\ at' = [at EXCEPT ![a] = "check"]
  /\ on' = [on EXCEPT ![a] = x]
  /\ UNCHANGED <<dataVars, targets, button, edits>>

Release(a) ==
  /\ at' = [at EXCEPT ![a] = "idle"]
  /\ on' = [on EXCEPT ![a] = NoPress]
  /\ targets' = [targets EXCEPT ![a] = {}]
  /\ UNCHANGED <<dataVars, button, edits>>

(* _on_dispatch for an INTERACTION_CREATE *)
OnDispatch(g) ==
  /\ reading[g] # Nothing /\ at[g] = "idle"
  /\ Take(g, reading[g])
  /\ UNCHANGED <<gatewayVars, deferred>>

HandleInteraction(g) ==
  /\ at[g] = "check" /\ ~IsBuild(button[on[g]])
  /\ \E T \in DispatchComponent(button[on[g]]) : Decide(g, T)
  /\ UNCHANGED <<gatewayVars, deferred>>

Defer(g) ==
  /\ at[g] = "check" /\ IsBuild(button[on[g]])
  /\ deferred' = IF Deferrable(button[on[g]]) THEN Append(deferred, on[g]) ELSE deferred
  /\ Go(g, "done")
  /\ UNCHANGED <<dataVars, on, targets, button, edits, gatewayVars>>

(* The handler returns to the thread that reads the connection. *)
EndDispatch(g) ==
  /\ at[g] = "done"
  /\ Release(g)
  /\ reading' = Put(reading, g, Nothing)
  /\ UNCHANGED <<switchedOn, active, socketVars, stopEvent, sessionVars, worldVars, deferred>>

RunDeferred(t) ==
  /\ at[t] = "idle" /\ deferred # <<>>
  /\ Take(t, Head(deferred))
  /\ deferred' = Tail(deferred)
  /\ UNCHANGED gatewayVars

ConfirmBuild(t) ==
  /\ at[t] = "check"
  /\ LET b == button[on[t]]
     IN  \E T \in (IF b.action = "build" THEN RunBuildConfirm(b) ELSE RunGroupBuildConfirm(b)) : Decide(t, T)
  /\ UNCHANGED <<gatewayVars, deferred>>

EndDeferred(t) ==
  /\ at[t] = "done"
  /\ Release(t)
  /\ UNCHANGED <<gatewayVars, deferred>>

WriteOn(a) == Write(a) /\ UNCHANGED <<gatewayVars, deferred>>

(* An exception in a handler is logged and rolled back. *)
DispatchFails(a) ==
  /\ Breaks
  /\ HandlerFails(a)
  /\ UNCHANGED <<switchedOn, active, socketVars, stopEvent, sessionVars, reading, sent, taken, missed, doubled,
                 switches, deferred>>

-----------------------------------------------------------------------------
(* A user picks from a list shown now. *)
Pick ==
  /\ Interact
  /\ \E u \in Users : \E b \in DispatchCommand(u) :
       b.action \in PickedActions /\ button' = [button EXCEPT ![sent + 1] = b]
  /\ UNCHANGED <<dataVars, actorVars, edits, deferred>>

Dies ==
  /\ ProcessDies
  /\ at' = [a \in Actors |-> "idle"] /\ on' = [a \in Actors |-> NoPress]
  /\ targets' = [a \in Actors |-> {}]
  /\ deferred' = <<>>
  /\ UNCHANGED <<dataVars, button, edits>>

Socket(A) == A /\ UNCHANGED <<botVars, deferred>>

Handles(g) == OnDispatch(g) \/ HandleInteraction(g) \/ Defer(g) \/ EndDispatch(g) \/ WriteOn(g)
Pools(t)   == RunDeferred(t) \/ ConfirmBuild(t) \/ EndDeferred(t) \/ WriteOn(t)

DiscordInit ==
  /\ BotInit /\ GatewayInit
  /\ deferred = <<>>

DiscordNext ==
  \/ \E g \in Gateways : Handles(g) \/ Socket(Runs(g)) \/ Socket(Trouble(g))
  \/ \E t \in PoolThreads : Pools(t)
  \/ \E a \in Actors : DispatchFails(a)
  \/ Socket(StopGateway) \/ Socket(Switch) \/ Pick \/ Dies
  \/ World /\ UNCHANGED <<gatewayVars, deferred>>

DiscordSpec == DiscordInit /\ [][DiscordNext]_discordVars

-----------------------------------------------------------------------------
DiscordTypeOK ==
  /\ BotTypeOK /\ GatewayTypeOK
  /\ deferred \in Seq(Presses)

(* The docstrings of DiscordGateway and _supervise: an interaction is acted*)
(* on once, however often the connection is lost and its session resumed,  *)
(* unless a gateway that was stopped is still connected beside a new one.  *)
ActedOnOnce ==
  doubled \/ \A x \in 1..sent : queued[x] <= 1

(* The docstring of the gateway module: a dispatch is "delivered reliably *)
(* across reconnects".  An interaction of a session that is never given up *)
(* is taken up or still ahead of its sequence number; neither a lost       *)
(* connection nor one closed although its beats are answered loses any.    *)
NoInteractionLost ==
  \A x \in 1..sent : x \in taken \union missed \/ \E g \in Gateways : session[g] /\ seq[g] < x
=============================================================================
