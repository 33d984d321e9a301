----------------------------- MODULE TelegramBot -----------------------------
(***************************************************************************)
(* The Telegram bot of app/services/telegram/worker.py: one thread per     *)
(* gunicorn worker process, of which the holder of an advisory lock polls  *)
(* getUpdates, handles each update and then commits its number as the      *)
(* offset.  Telegram forgets the updates below the offset of a poll and    *)
(* delivers all others again.                                              *)
(***************************************************************************)
EXTENDS BotActions

CONSTANTS
  Procs,           (* worker processes: the bot threads handle the updates  *)
  NoProc,
  MaxFaults,       (* bound: process crashes (each followed by a restart)   *)
                   (* and exceptions raised into a poll thread              *)
  MaxToggles       (* bound: changes of telegram_bot_commands_enabled       *)

ASSUME TelegramAssumption ==
  /\ Procs \subseteq Actors /\ NoProc \notin Procs
  /\ MaxFaults \in Nat /\ MaxToggles \in Nat

VARIABLES
  leader,          (* the holder of pg_advisory_lock                        *)
  stage,           (* where each process's bot thread is                    *)
  upto,            (* the last update of the batch in hand                  *)
  lastId,          (* SystemConfig.telegram_last_update_id                  *)
  commandsOn,      (* telegram_bot_commands_enabled                         *)
  (* Telegram *)
  arrived,         (* updates sent so far                                   *)
  confirmed,       (* updates it has forgotten                              *)
  (* history and bounds *)
  tried,           (* per update, how often a handler took it up            *)
  faults, toggles

pollVars     == <<leader, stage, upto, lastId>>
serverVars   == <<arrived, confirmed>>
faultVars    == <<faults, toggles>>
telegramVars == <<botVars, pollVars, serverVars, commandsOn, tried, faultVars>>

-----------------------------------------------------------------------------
(* The lists behind /run, /review, /build, /deploy and /stop. *)

ManifestList(u, action) ==
  LET M == Accessible(u, Manifests \intersect (IF action = "stop" THEN present ELSE enabled))
  IN  IF action = "stop" THEN M \intersect live ELSE M

ManifestKeyboard(u, action, gaction) ==
  LET M == ManifestList(u, action)
  IN  Press(u, action, M) \union Press(u, gaction, GroupsAmong(M))

RunCommand(u)    == Press(u, "run", Accessible(u, Workflows \intersect enabled))
ReviewCommand(u) ==
  LET S == {s \in Accessible(u, Steps) : review[s] = "awaiting_review"}
  IN  Press(u, "approve", S) \union Press(u, "reject", S)
BuildCommand(u)  ==
  LET B == Accessible(u, Builders \intersect enabled)
  IN  Press(u, "build", B) \union Press(u, "gbuild", SingleVersionGroupsAmong(B))

HandleMessage(u) ==
  {b \in RunCommand(u) \union ReviewCommand(u) \union BuildCommand(u)
           \union ManifestKeyboard(u, "deploy", "gdeploy")
           \union ManifestKeyboard(u, "stop", "gstop") : May(b)}

-----------------------------------------------------------------------------
(* _handle_callback_query: what a button acts on, nothing if it is refused.*)

RunCallback(b) == Accessible(b.user, {b.target} \intersect enabled)

(* _awaiting_review_step_run_for_user.  An approval also needs a suggested *)
(* bump and change type: Suggested is the reply to that check.             *)
AwaitingForUser(b)   == Accessible(b.user, {s \in {b.target} : review[s] = "awaiting_review"})
ApproveCallback(b)   == {AwaitingForUser(b), {}}
RejectCallback(b)    == {AwaitingForUser(b)}

ManifestActionCallback(b) ==
  LET M == IF b.action \in OnGroup THEN ManifestsInGroup(b.target, b.action \notin Teardown)
           ELSE {b.target} \intersect present
  IN  IF M = Accessible(b.user, M) /\ (b.action \in Teardown \/ M \subseteq enabled) THEN M ELSE {}

(* Preview and confirmation: both compute the prefill, which may not be    *)
(* ready any more when it is confirmed.                                    *)
BuildConfirmCallback(b)      == {Accessible(b.user, {b.target} \intersect enabled), {}}
GroupBuildConfirmCallback(b) == {GroupBuildTarget(b.user, b.target), {}}

HandleCallbackQuery(b) ==
  IF ~May(b) THEN {{}}
  ELSE CASE b.action = "run"                                    -> {RunCallback(b)}
         [] b.action = "approve"                                -> ApproveCallback(b)
         [] b.action = "reject"                                 -> RejectCallback(b)
         [] b.action = "build"                                  -> BuildConfirmCallback(b)
         [] b.action = "gbuild"                                 -> GroupBuildConfirmCallback(b)
         [] b.action \in {"deploy", "stop", "gdeploy", "gstop"} -> {ManifestActionCallback(b)}

-----------------------------------------------------------------------------
(* The poll thread. *)

LockIsFree(p) == stage[p] = "waiting" /\ leader = NoProc

BecomePollLeader(p) ==
  /\ LockIsFree(p)
  /\ leader' = p
  /\ stage' = [stage EXCEPT ![p] = "polling"]
  /\ UNCHANGED <<botVars, upto, lastId, serverVars, commandsOn, tried, faultVars>>

Hold(p, x) ==
  /\ on' = [on EXCEPT ![p] = x]
  /\ targets' = [targets EXCEPT ![p] = {}]
  /\ upto' = [upto EXCEPT ![p] = IF x = NoPress THEN 0
                                     ELSE IF upto[p] = 0 THEN arrived ELSE upto[p]]

(* The offset of a poll confirms what it skips; a batch may be empty.      *)
GetUpdates(p) ==
  /\ stage[p] = "polling" /\ commandsOn
  /\ lastId < arrived \/ confirmed < lastId
  /\ confirmed' = lastId
  /\ button' = [x \in Presses |-> IF x <= lastId THEN NoButton ELSE button[x]]
  /\ Hold(p, IF lastId < arrived THEN lastId + 1 ELSE NoPress)
  /\ stage' = [stage EXCEPT ![p] = IF lastId < arrived THEN "handling" ELSE "polling"]
  /\ UNCHANGED <<dataVars, at, edits, leader, lastId, arrived, commandsOn, tried, faultVars>>

HandleUpdate(p) ==
  /\ stage[p] = "handling" /\ at[p] = "idle"
  /\ Go(p, "check")
  /\ tried' = [tried EXCEPT ![on[p]] = @ + 1]
  /\ UNCHANGED <<dataVars, on, targets, button, edits, pollVars, serverVars, commandsOn, faultVars>>

Dispatch(p) ==
  /\ at[p] = "check"
  /\ \E T \in HandleCallbackQuery(button[on[p]]) : Decide(p, T)
  /\ UNCHANGED <<pollVars, serverVars, commandsOn, tried, faultVars>>

WriteStep(p) == Write(p) /\ UNCHANGED <<pollVars, serverVars, commandsOn, tried, faultVars>>

(* telegram_last_update_id = update_id; commit.  On to the next update.    *)
StartsOver(x) == x - 1                                       (* mutant *)
Processed(x)  == x
CommitOffset(p) ==
  /\ stage[p] = "handling" /\ at[p] = "done"
  /\ lastId' = Processed(on[p])
  /\ Hold(p, IF on[p] < upto[p] THEN on[p] + 1 ELSE NoPress)
  /\ stage' = [stage EXCEPT ![p] = IF on[p] < upto[p] THEN "handling" ELSE "polling"]
  /\ Go(p, "idle")
  /\ UNCHANGED <<dataVars, button, edits, leader, serverVars, commandsOn, tried, faultVars>>

Faulty == faults < MaxFaults /\ faults' = faults + 1

(* An exception in the handler is rolled back and the offset moves on.     *)
UpdateFails(p) ==
  /\ Faulty
  /\ HandlerFails(p)
  /\ UNCHANGED <<pollVars, serverVars, commandsOn, tried, toggles>>

(* The poll thread gives up its batch and polls again from the offset it   *)
(* committed last: an exception where the offset is committed.             *)
TickFails(p) ==
  /\ Faulty
  /\ stage[p] = "handling" /\ at[p] = "done"
  /\ stage' = [stage EXCEPT ![p] = "polling"]
  /\ Go(p, "idle") /\ Hold(p, NoPress)
  /\ UNCHANGED <<dataVars, button, edits, leader, lastId, serverVars, commandsOn, tried, toggles>>

(* PostgreSQL releases the lock of a process that dies. *)
OutlivesTheProcess(p) == leader                              (* mutant *)
LockAfterDeath(p)     == IF leader = p THEN NoProc ELSE leader
Crash(p) ==
  /\ Faulty
  /\ stage[p] # "dead"
  /\ stage' = [stage EXCEPT ![p] = "dead"]
  /\ leader' = LockAfterDeath(p)
  /\ Go(p, "idle") /\ Hold(p, NoPress)
  /\ UNCHANGED <<dataVars, button, edits, lastId, serverVars, commandsOn, tried, toggles>>

Restart(p) ==
  /\ stage[p] = "dead"
  /\ stage' = [stage EXCEPT ![p] = "waiting"]
  /\ UNCHANGED <<botVars, leader, upto, lastId, serverVars, commandsOn, tried, faultVars>>

-----------------------------------------------------------------------------
(* A user presses a button of a list the bot shows now; until an update is *)
(* handled, any of that may change.                                        *)
SendUpdate ==
  /\ arrived + 1 \in Presses
  /\ arrived' = arrived + 1
  /\ \E u \in Users : \E b \in HandleMessage(u) : button' = [button EXCEPT ![arrived + 1] = b]
  /\ UNCHANGED <<dataVars, actorVars, edits, pollVars, confirmed, commandsOn, tried, faultVars>>

ToggleCommands ==
  /\ toggles < MaxToggles /\ toggles' = toggles + 1
  /\ commandsOn' = ~commandsOn
  /\ UNCHANGED <<botVars, pollVars, serverVars, tried, faults>>

PollThread(p) ==
  \/ BecomePollLeader(p) \/ GetUpdates(p) \/ HandleUpdate(p) \/ Dispatch(p) \/ WriteStep(p)
  \/ CommitOffset(p) \/ Restart(p)

TelegramInit ==
  /\ BotInit
  /\ leader = NoProc /\ stage = [p \in Procs |-> "waiting"] /\ upto = [p \in Procs |-> 0]
  /\ lastId = 0 /\ commandsOn = TRUE
  /\ arrived = 0 /\ confirmed = 0
  /\ tried = [x \in Presses |-> 0]
  /\ faults = 0 /\ toggles = 0

TelegramNext ==
  \/ \E p \in Procs : PollThread(p) \/ UpdateFails(p) \/ TickFails(p) \/ Crash(p)
  \/ SendUpdate \/ ToggleCommands
  \/ World /\ UNCHANGED <<pollVars, serverVars, commandsOn, tried, faultVars>>

TelegramFairness == \A p \in Procs : WF_telegramVars(PollThread(p))

TelegramSpec == TelegramInit /\ [][TelegramNext]_telegramVars /\ TelegramFairness

-----------------------------------------------------------------------------
TelegramTypeOK ==
  /\ BotTypeOK
  /\ leader \in Procs \union {NoProc}
  /\ stage \in [Procs -> {"waiting", "polling", "handling", "dead"}]
  /\ upto \in [Procs -> Presses \union {0}]
  /\ lastId \in Presses \union {0} /\ arrived \in Presses \union {0} /\ confirmed \in Presses \union {0}
  /\ tried \in [Presses -> Nat]

(* The comment in _handle_manifest_action_callback: a stop of nothing      *)
(* leaves no run behind, unless its handler was cut off.                   *)
EmptyRunsAreDropped ==
  emptyRuns <= faults + Cardinality({a \in Actors : at[a] = "undo"})

(* The docstring of _become_poll_leader and the comment on the offset: one *)
(* process polls, and what Telegram may forget was taken up.  An update is *)
(* acted on again only after a crash or a failed commit of the offset, and *)
(* a review is decided by one press, again but for those faults.           *)
ActedOnOncePerFault ==
  \A x \in 1..arrived :
    /\ x <= confirmed => tried[x] > 0
    /\ queued[x] <= 1 + faults
    /\ \A s \in Steps : batches[s] + (IF review[s] = "failed" THEN 1 ELSE 0) <= 1 + faults
    /\ EmptyRunsAreDropped

(* The comment on the offset: a failure "must still advance past the       *)
(* offending update".  While commands stay enabled the offset ends past    *)
(* every update that arrived.                                              *)
EveryUpdateIsPassed == <>[]commandsOn => <>[](lastId = arrived)
=============================================================================
