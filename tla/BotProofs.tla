------------------------------ MODULE BotProofs ------------------------------
(* Theorems about the bots: what a user presses is acted on once, per      *)
(* fault with Telegram, and unless two gateways are connected with         *)
(* Discord; and no interaction of a held session is lost.                  *)
EXTENDS MCBots, FiniteSetTheorems, TLAPS

USE BotAssumption

-----------------------------------------------------------------------------
(* What both bots do to the application.                                   *)

Undoing == {a \in Actors : at[a] = "undo"}

(* A thread at work has a press in hand that its user made, and every      *)
(* thread that is to drop an empty run has committed one.                  *)
WorkInv  == \A a \in Actors : at[a] # "idle" => on[a] \in Presses /\ button[on[a]] \in Buttons
EmptyInv == Cardinality(Undoing) <= emptyRuns
BotInv   == BotTypeOK /\ live \subseteq Manifests /\ WorkInv /\ EmptyInv

LEMMA ReviewTargets ==
  ASSUME NEW b \in Buttons, b.action \in {"approve", "reject"}
  PROVE  b.target \in Steps
  BY DEF Buttons, Press

(* Both bots act on rows only. *)
LEMMA CallbackActsOnRows ==
  ASSUME BotTypeOK, NEW b \in Buttons, NEW T \in HandleCallbackQuery(b)
  PROVE  T \subseteq Things \union Steps
<1>1. \A S : Accessible(b.user, S) \subseteq S
  BY DEF Accessible
<1>2. enabled \subseteq Things /\ present \subseteq Things
  BY DEF BotTypeOK
<1>3. RunCallback(b) \subseteq Things
  BY <1>1, <1>2 DEF RunCallback
<1>4. b.action \in {"approve", "reject"} => AwaitingForUser(b) \subseteq Steps
  BY <1>1, ReviewTargets DEF AwaitingForUser
<1>5. ManifestActionCallback(b) \subseteq Things
  BY <1>2 DEF ManifestActionCallback, ManifestsInGroup, InGroup
<1>6. Accessible(b.user, {b.target} \intersect enabled) \subseteq Things
  BY <1>1, <1>2
<1>7. GroupBuildTarget(b.user, b.target) \subseteq Things
  BY <1>2 DEF GroupBuildTarget, InGroup
<1>8. CASE ~May(b)
  BY <1>8 DEF HandleCallbackQuery
<1>9. CASE b.action = "run" /\ May(b)
  BY <1>3, <1>9 DEF HandleCallbackQuery
<1>10. CASE b.action = "approve" /\ May(b)
  BY <1>4, <1>10 DEF HandleCallbackQuery, ApproveCallback
<1>11. CASE b.action = "reject" /\ May(b)
  BY <1>4, <1>11 DEF HandleCallbackQuery, RejectCallback
<1>12. CASE b.action = "build" /\ May(b)
  BY <1>6, <1>12 DEF HandleCallbackQuery, BuildConfirmCallback
<1>13. CASE b.action = "gbuild" /\ May(b)
  BY <1>7, <1>13 DEF HandleCallbackQuery, GroupBuildConfirmCallback
<1>14. CASE b.action \in {"deploy", "stop", "gdeploy", "gstop"} /\ May(b)
  BY <1>5, <1>14 DEF HandleCallbackQuery
<1>15. QED
  BY <1>8, <1>9, <1>10, <1>11, <1>12, <1>13, <1>14 DEF Buttons, Press

LEMMA ComponentActsOnRows ==
  ASSUME BotTypeOK, NEW b \in Buttons, NEW T \in DispatchComponent(b)
  PROVE  T \subseteq Things \union Steps
<1>1. \A S : Accessible(b.user, S) \subseteq S
  BY DEF Accessible
<1>2. enabled \subseteq Things /\ present \subseteq Things
  BY DEF BotTypeOK
<1>3. RunSelect(b) \subseteq Things
  BY <1>1, <1>2 DEF RunSelect
<1>4. b.action \in {"approve", "reject"} => ReviewOf(b) \subseteq Steps
  BY <1>1, ReviewTargets DEF ReviewOf
<1>5. ManifestActionSelect(b) \subseteq Things
  BY <1>2 DEF ManifestActionSelect, ManifestsInGroup, InGroup
<1>6. CASE ~May(b)
  BY <1>6 DEF DispatchComponent
<1>7. CASE b.action = "run" /\ May(b)
  BY <1>3, <1>7 DEF DispatchComponent
<1>8. CASE b.action = "approve" /\ May(b)
  BY <1>4, <1>8 DEF DispatchComponent, ApproveReview
<1>9. CASE b.action = "reject" /\ May(b)
  BY <1>4, <1>9 DEF DispatchComponent, RejectReview
<1>10. CASE b.action \notin {"run", "approve", "reject"} /\ May(b)
  BY <1>5, <1>10 DEF DispatchComponent
<1>11. QED
  BY <1>6, <1>7, <1>8, <1>9, <1>10

LEMMA ConfirmActsOnRows ==
  ASSUME BotTypeOK, NEW b, NEW T \in RunBuildConfirm(b) \union RunGroupBuildConfirm(b)
  PROVE  T \subseteq Things \union Steps
<1>1. enabled \subseteq Things
  BY DEF BotTypeOK
<1>2. QED
  BY <1>1 DEF RunBuildConfirm, RunGroupBuildConfirm, Accessible, GroupBuildTarget, InGroup, Things

(* The bots offer rows that are there. *)
LEMMA PressIsButton ==
  ASSUME NEW u \in Users
  PROVE  /\ \A S \in SUBSET Workflows : Press(u, "run", S) \subseteq Buttons
         /\ \A S \in SUBSET Steps : Press(u, "approve", S) \union Press(u, "reject", S) \subseteq Buttons
         /\ \A S \in SUBSET Builders : Press(u, "build", S) \subseteq Buttons
         /\ \A S \in SUBSET Manifests : Press(u, "deploy", S) \union Press(u, "stop", S) \subseteq Buttons
         /\ \A S \in SUBSET Groups :
              Press(u, "gbuild", S) \union Press(u, "gdeploy", S) \union Press(u, "gstop", S) \subseteq Buttons
  BY DEF Press, Buttons

LEMMA GroupsAreGroups ==
  ASSUME NEW S
  PROVE  GroupsAmong(S) \subseteq Groups /\ SingleVersionGroupsAmong(S) \subseteq Groups
  BY DEF GroupsAmong, SingleVersionGroupsAmong

LEMMA MessagesAreButtons ==
  ASSUME NEW u \in Users
  PROVE  HandleMessage(u) \subseteq Buttons
<1>1. \A S : Accessible(u, S) \subseteq S
  BY DEF Accessible
<1>2. RunCommand(u) \subseteq Buttons
  BY <1>1, PressIsButton DEF RunCommand
<1>3. ReviewCommand(u) \subseteq Buttons
  BY <1>1, PressIsButton DEF ReviewCommand
<1>4. BuildCommand(u) \subseteq Buttons
  BY <1>1, PressIsButton, GroupsAreGroups DEF BuildCommand
<1>5. \A action : ManifestList(u, action) \subseteq Manifests
  BY <1>1 DEF ManifestList
<1>6. ManifestKeyboard(u, "deploy", "gdeploy") \subseteq Buttons
  BY <1>5, PressIsButton, GroupsAreGroups DEF ManifestKeyboard
<1>7. ManifestKeyboard(u, "stop", "gstop") \subseteq Buttons
  BY <1>5, PressIsButton, GroupsAreGroups DEF ManifestKeyboard
<1>8. QED
  BY <1>2, <1>3, <1>4, <1>6, <1>7 DEF HandleMessage

LEMMA CommandsAreButtons ==
  ASSUME live \subseteq Manifests, NEW u \in Users
  PROVE  DispatchCommand(u) \subseteq Buttons
<1>1. \A S : Accessible(u, S) \subseteq S
  BY DEF Accessible
<1>2. RunOptions(u) \subseteq Buttons
  BY <1>1, PressIsButton DEF RunOptions
<1>3. ReviewOptions(u) \subseteq Buttons
  BY <1>1, PressIsButton DEF ReviewOptions
<1>4. BuildOptions(u) \subseteq Buttons
  BY <1>1, PressIsButton, GroupsAreGroups DEF BuildOptions
<1>5. DeployOptions(u) \subseteq Buttons
  BY <1>1, PressIsButton, GroupsAreGroups DEF DeployOptions
<1>6. StopOptions(u) \subseteq Buttons
  BY <1>1, PressIsButton, GroupsAreGroups DEF StopOptions
<1>7. QED
  BY <1>2, <1>3, <1>4, <1>5, <1>6 DEF DispatchCommand

-----------------------------------------------------------------------------
(* What the writes of a handler, and the world around it, do to all that.  *)

LEMMA UndoingFinite == IsFiniteSet(Undoing) /\ Cardinality(Undoing) \in Nat
  BY FS_Subset, FS_CardinalityType DEF Undoing

LEMMA UndoingShrinks ==
  ASSUME Undoing' \subseteq Undoing
  PROVE  Cardinality(Undoing') \in Nat /\ Cardinality(Undoing') <= Cardinality(Undoing)
  BY UndoingFinite, FS_Subset, FS_CardinalityType

(* A write leaves as many empty runs over as there were. *)
LEMMA WriteBalances ==
  ASSUME BotTypeOK, NEW a \in Actors, Write(a)
  PROVE  emptyRuns' + Cardinality(Undoing) = emptyRuns + Cardinality(Undoing')
<1>1. at \in [Actors -> {"idle", "check", "write", "link", "undo", "done"}] /\ emptyRuns \in Nat
  BY DEF BotTypeOK
<1>2. CASE EnqueueNothing(a)
  <2>1. Undoing' = Undoing \union {a} /\ a \notin Undoing /\ emptyRuns' = emptyRuns + 1
    BY <1>1, <1>2 DEF EnqueueNothing, Go, Undoing
  <2>2. Cardinality(Undoing') = Cardinality(Undoing) + 1
    BY <2>1, UndoingFinite, FS_AddElement
  <2>3. QED
    BY <1>1, <2>1, <2>2, UndoingFinite
<1>3. CASE DropEmptyRun(a)
  <2>1. Undoing' = Undoing \ {a} /\ a \in Undoing /\ emptyRuns' = emptyRuns - 1
    BY <1>1, <1>3 DEF DropEmptyRun, Go, Undoing
  <2>2. Cardinality(Undoing') = Cardinality(Undoing) - 1
    BY <2>1, UndoingFinite, FS_RemoveElement
  <2>3. QED
    BY <1>1, <2>1, <2>2, UndoingFinite
<1>4. ASSUME at[a] \in {"write", "link"}, at'[a] # "undo", \A c \in Actors \ {a} : at'[c] = at[c],
             emptyRuns' = emptyRuns
      PROVE  emptyRuns' + Cardinality(Undoing) = emptyRuns + Cardinality(Undoing')
  BY <1>1, <1>4 DEF Undoing
<1>5. CASE Enqueue(a)
  BY <1>1, <1>4, <1>5 DEF Enqueue, Go
<1>6. CASE Approve(a)
  BY <1>1, <1>4, <1>6 DEF Approve, Go
<1>7. CASE BindBatch(a)
  BY <1>1, <1>4, <1>7 DEF BindBatch, Settle, Go
<1>8. CASE Reject(a)
  BY <1>1, <1>4, <1>8 DEF Reject, Settle, Go
<1>9. CASE RowGone(a)
  BY <1>1, <1>4, <1>9 DEF RowGone, HandlerFails, Go, dataVars
<1>10. QED
  BY <1>2, <1>3, <1>5, <1>6, <1>7, <1>8, <1>9 DEF Write

LEMMA WriteKeeps ==
  ASSUME BotInv, NEW a \in Actors, Write(a)
  PROVE  BotInv'
<1>0. BotTypeOK /\ live \subseteq Manifests /\ WorkInv /\ EmptyInv
  BY DEF BotInv
<1>1. at[a] \in {"write", "link", "undo"} /\ on[a] \in Presses /\ button[on[a]] \in Buttons
  <2>1. at[a] \in {"write", "link", "undo"}
    BY DEF Write, Enqueue, EnqueueNothing, DropEmptyRun, Approve, BindBatch, Reject, RowGone
  <2>2. QED
    BY <1>0, <2>1 DEF WorkInv
<1>2. /\ UNCHANGED <<on, targets, button, edits, present, enabled, granted, live>>
      /\ \E where \in {"link", "undo", "done"} : Go(a, where)
  BY DEF Write, Enqueue, EnqueueNothing, DropEmptyRun, Approve, BindBatch, Reject, RowGone, Settle,
         HandlerFails, dataVars
<1>3. at' \in [Actors -> {"idle", "check", "write", "link", "undo", "done"}]
  BY <1>0, <1>2 DEF BotTypeOK, Go
<1>4. WorkInv'
  BY <1>0, <1>1, <1>2 DEF WorkInv, Go, BotTypeOK
<1>5. emptyRuns' \in Nat /\ EmptyInv'
  <2>1. emptyRuns' \in Int
    BY <1>0 DEF Write, Enqueue, EnqueueNothing, DropEmptyRun, Approve, BindBatch, Reject, RowGone, Settle,
         HandlerFails, dataVars, BotTypeOK
  <2>2. IsFiniteSet(Undoing') /\ Cardinality(Undoing') \in Nat
    <3>1. Undoing' \subseteq Actors
      BY DEF Undoing
    <3>2. QED
      BY <3>1, FS_Subset, FS_CardinalityType
  <2>3. QED
    BY <1>0, <2>1, <2>2, WriteBalances, UndoingFinite DEF EmptyInv, BotTypeOK
<1>6. queued' \in [Presses -> Nat] /\ batches' \in [Steps -> Nat]
  BY <1>0, <1>1 DEF Write, Enqueue, EnqueueNothing, DropEmptyRun, Approve, BindBatch, Reject, RowGone, Settle,
         HandlerFails, dataVars, BotTypeOK
<1>7. review' \in [Steps -> {"awaiting_review", "running", "failed"}]
  BY <1>0, <1>1 DEF Write, Enqueue, EnqueueNothing, DropEmptyRun, Approve, BindBatch, Reject, RowGone, Settle,
         HandlerFails, dataVars, BotTypeOK
<1>8. stopping' \subseteq live
  BY <1>0, <1>1 DEF Write, Enqueue, EnqueueNothing, DropEmptyRun, Approve, BindBatch, Reject, RowGone, Settle,
         HandlerFails, dataVars, BotTypeOK
<1>9. BotTypeOK'
  BY <1>0, <1>2, <1>3, <1>5, <1>6, <1>7, <1>8 DEF BotTypeOK
<1>10. QED
  BY <1>0, <1>2, <1>4, <1>5, <1>9 DEF BotInv

LEMMA WorldKeeps ==
  ASSUME BotInv, World
  PROVE  BotInv'
<1>0. BotTypeOK /\ live \subseteq Manifests /\ WorkInv /\ EmptyInv
  BY DEF BotInv
<1>1. UNCHANGED <<review, queued, batches, emptyRuns, actorVars, button>>
  BY DEF World, Disable, Delete, Revoke, Stopped
<1>2. /\ enabled' \subseteq present' /\ present' \subseteq Things
      /\ granted' \subseteq granted
      /\ live' \subseteq live /\ live' \subseteq present' /\ stopping' \subseteq live'
  BY <1>0 DEF World, Disable, Delete, Revoke, Stopped, BotTypeOK
<1>3. edits' \in 0..MaxEdits
  <2>1. edits' = edits \/ Edited
    BY DEF World, Disable, Delete, Revoke, Stopped
  <2>2. edits \in 0..MaxEdits
    BY <1>0 DEF BotTypeOK
  <2>3. QED
    BY <2>1, <2>2 DEF Edited
<1>4. BotTypeOK'
  BY <1>0, <1>1, <1>2, <1>3 DEF BotTypeOK, actorVars
<1>5. WorkInv' /\ EmptyInv'
  BY <1>0, <1>1 DEF WorkInv, EmptyInv, Undoing, actorVars
<1>6. QED
  BY <1>0, <1>2, <1>4, <1>5 DEF BotInv

(* A step that only moves threads, gives them presses, or makes them fail. *)
LEMMA MoveKeeps ==
  ASSUME BotInv, UNCHANGED <<dataVars, edits>>,
         at' \in [Actors -> {"idle", "check", "write", "link", "undo", "done"}],
         on' \in [Actors -> Presses \union {NoPress}],
         targets' \in [Actors -> SUBSET (Things \union Steps)],
         button' \in [Presses -> Buttons \union {NoButton}],
         WorkInv',
         \A a \in Actors : at'[a] = "undo" => at[a] = "undo"
  PROVE  BotInv'
<1>0. BotTypeOK /\ live \subseteq Manifests /\ EmptyInv
  BY DEF BotInv
<1>1. Undoing' \subseteq Undoing
  BY DEF Undoing
<1>2. EmptyInv'
  BY <1>0, <1>1, UndoingShrinks, UndoingFinite DEF EmptyInv, dataVars, BotTypeOK
<1>3. BotTypeOK'
  BY <1>0 DEF BotTypeOK, dataVars
<1>4. QED
  BY <1>0, <1>2, <1>3 DEF BotInv, dataVars
-----------------------------------------------------------------------------
(* Telegram: one process polls, and works through what it was given.       *)

(* The holder of the lock is the one that polls; nobody else has an update *)
(* in hand.  The one in hand is the first that was not committed, and what *)
(* lies ahead of it is still there.                                        *)
PollInv ==
  /\ lastId <= arrived /\ confirmed <= lastId /\ faults \in Nat
  /\ \A p \in Procs : stage[p] \in {"polling", "handling"} <=> leader = p
  /\ \A a \in Actors : at[a] # "idle" => a \in Procs /\ stage[a] = "handling"
  /\ \A p \in Procs : stage[p] # "handling" => on[p] = NoPress /\ upto[p] = 0
  /\ \A p \in Procs : stage[p] = "handling" => on[p] = lastId + 1 /\ on[p] <= upto[p] /\ upto[p] <= arrived
  /\ \A x \in Presses : lastId < x /\ x <= arrived => button[x] \in Buttons

(* What was committed, or is being handled, was taken up.                  *)
TriedInv ==
  /\ \A x \in Presses : x <= lastId => tried[x] > 0
  /\ \A p \in Procs : at[p] # "idle" => tried[on[p]] > 0

(* An update that was committed, or is past its write, was acted on once   *)
(* and once more per fault; any other one at most once per fault.          *)
Handled(x) == x <= lastId \/ \E p \in Procs : on[p] = x /\ at[p] \in {"link", "done"}
CountInv   == \A x \in Presses : queued[x] <= faults + 1 /\ (Handled(x) \/ queued[x] <= faults)

(* The same for the review of a step.  A step whose approval or rejection  *)
(* has passed the checks awaits it until it is written.                    *)
Deciding(p) == at[p] = "link" \/ (at[p] = "write" /\ Action(p) \in {"approve", "reject"})
Linking(s)  == \E p \in Procs : at[p] = "link" /\ s \in targets[p]
BatchInv ==
  /\ \A p \in Procs : Deciding(p) => \A s \in Steps \intersect targets[p] : review[s] = "awaiting_review"
  /\ \A s \in Steps :
       batches[s] <= faults + 1 /\ (review[s] = "running" \/ Linking(s) \/ batches[s] <= faults)

DropInv == emptyRuns <= faults + Cardinality(Undoing)

TelegramInv == TelegramTypeOK /\ BotInv /\ PollInv /\ TriedInv /\ CountInv /\ BatchInv /\ DropInv
-----------------------------------------------------------------------------
(* The step relation, with one disjunct for each kind of step. *)
TelegramStep(p) ==
  \/ BecomePollLeader(p) \/ GetUpdates(p) \/ HandleUpdate(p) \/ Dispatch(p) \/ WriteStep(p)
  \/ CommitOffset(p) \/ Restart(p) \/ UpdateFails(p) \/ TickFails(p) \/ Crash(p)

LEMMA TelegramCases ==
  ASSUME [TelegramNext]_telegramVars
  PROVE  \/ \E p \in Procs : TelegramStep(p)
         \/ SendUpdate \/ ToggleCommands
         \/ World /\ UNCHANGED <<pollVars, serverVars, commandsOn, tried, faultVars>>
         \/ UNCHANGED telegramVars
  BY DEF TelegramNext, PollThread, TelegramStep

LEMMA TelegramTypes ==
  ASSUME TelegramInv
  PROVE  /\ TelegramTypeOK /\ BotTypeOK /\ PollInv /\ EmptyInv /\ WorkInv
         /\ at \in [Actors -> {"idle", "check", "write", "link", "undo", "done"}]
         /\ on \in [Actors -> Presses \union {NoPress}]
         /\ stage \in [Procs -> {"waiting", "polling", "handling", "dead"}]
         /\ upto \in [Procs -> Presses \union {0}]
         /\ lastId \in Nat /\ arrived \in Nat /\ confirmed \in Nat
         /\ arrived \in Presses \union {0}
         /\ leader \in Procs \union {NoProc}
         /\ button \in [Presses -> Buttons \union {NoButton}]
         /\ tried \in [Presses -> Nat]
<1>1. TelegramTypeOK /\ BotInv /\ PollInv
  BY DEF TelegramInv
<1>2. BotTypeOK /\ EmptyInv /\ WorkInv
  BY <1>1 DEF BotInv
<1>3. Presses \union {0} \subseteq Nat
  BY DEF Presses
<1>4. lastId \in Nat /\ arrived \in Nat /\ confirmed \in Nat
  BY <1>1, <1>3 DEF TelegramTypeOK
<1>5. QED
  BY <1>1, <1>2, <1>4 DEF TelegramTypeOK, BotTypeOK

(* At most one thread has an update in hand: the leader's.                 *)
LEMMA OneWorker ==
  ASSUME PollInv, NEW a \in Actors, NEW c \in Actors, at[a] # "idle", at[c] # "idle"
  PROVE  a = c /\ a \in Procs /\ leader = a /\ stage[a] = "handling"
  BY DEF PollInv

(* What a step does to the poll threads. *)
LEMMA StepPoll ==
  ASSUME TelegramInv, [TelegramNext]_telegramVars
  PROVE  PollInv'
<1>0. /\ PollInv
      /\ at \in [Actors -> {"idle", "check", "write", "link", "undo", "done"}]
      /\ on \in [Actors -> Presses \union {NoPress}]
      /\ stage \in [Procs -> {"waiting", "polling", "handling", "dead"}]
      /\ upto \in [Procs -> Presses \union {0}]
      /\ lastId \in Nat /\ arrived \in Presses \union {0} /\ arrived \in Nat /\ confirmed \in Nat
      /\ leader \in Procs \union {NoProc}
      /\ button \in [Presses -> Buttons \union {NoButton}]
  BY TelegramTypes
<1>a. Procs \subseteq Actors /\ NoProc \notin Procs /\ NoPress = 0 /\ MaxPresses \in Nat
  BY TelegramAssumption DEF NoPress
<1>1. ASSUME NEW p \in Procs, BecomePollLeader(p) PROVE PollInv'
  BY <1>0, <1>a, <1>1 DEF PollInv, BecomePollLeader, LockIsFree, botVars, actorVars, serverVars, faultVars
<1>2. ASSUME NEW p \in Procs, GetUpdates(p) PROVE PollInv'
  BY <1>0, <1>a, <1>2 DEF PollInv, GetUpdates, Hold, faultVars, Presses
<1>3. ASSUME NEW p \in Procs, HandleUpdate(p) PROVE PollInv'
  BY <1>0, <1>a, <1>3 DEF PollInv, HandleUpdate, Go, pollVars, serverVars, faultVars
<1>4. ASSUME NEW p \in Procs, Dispatch(p) PROVE PollInv'
  BY <1>0, <1>a, <1>4 DEF PollInv, Dispatch, Decide, Go, pollVars, serverVars, faultVars
<1>5. ASSUME NEW p \in Procs, WriteStep(p) PROVE PollInv'
  <2>1. /\ UNCHANGED <<on, button, pollVars, serverVars, faultVars>>
        /\ at[p] # "idle"
        /\ \E where \in {"link", "undo", "done"} : Go(p, where)
    BY <1>5 DEF WriteStep, Write, Enqueue, EnqueueNothing, DropEmptyRun, Approve, BindBatch, Reject, RowGone,
                Settle, HandlerFails, dataVars
  <2>2. QED
    BY <1>0, <1>a, <2>1 DEF PollInv, Go, pollVars, serverVars, faultVars
<1>6. ASSUME NEW p \in Procs, CommitOffset(p) PROVE PollInv'
  <2>1. /\ stage[p] = "handling" /\ lastId' = on[p] /\ at' = [at EXCEPT ![p] = "idle"]
        /\ on' = [on EXCEPT ![p] = IF on[p] < upto[p] THEN on[p] + 1 ELSE NoPress]
        /\ stage' = [stage EXCEPT ![p] = IF on[p] < upto[p] THEN "handling" ELSE "polling"]
        /\ UNCHANGED <<button, leader, arrived, confirmed, faults>>
    BY <1>6 DEF CommitOffset, Processed, Hold, Go, serverVars, faultVars
  <2>3. /\ on[p] = lastId + 1 /\ on[p] <= upto[p] /\ upto[p] <= arrived /\ leader = p
        /\ \A q \in Procs : stage[q] \in {"polling", "handling"} => q = p
    BY <1>0, <2>1 DEF PollInv
  <2>a. /\ on[p] < upto[p] => upto' = [upto EXCEPT ![p] = upto[p]]
        /\ ~(on[p] < upto[p]) => upto' = [upto EXCEPT ![p] = 0]
    <3>1. upto[p] # 0 /\ on[p] + 1 # 0
      BY <1>0, <2>3
    <3>2. upto' = [upto EXCEPT ![p] = IF (IF on[p] < upto[p] THEN on[p] + 1 ELSE 0) = 0 THEN 0
                                      ELSE IF upto[p] = 0 THEN arrived ELSE upto[p]]
      BY <1>6, <1>a DEF CommitOffset, Hold
    <3>3. QED
      BY <3>1, <3>2
  <2>2. \A q \in Procs : upto'[q] = IF q = p /\ ~(on[p] < upto[p]) THEN 0 ELSE upto[q]
    BY <1>0, <2>a
  <2>4. /\ on[p] \in Nat /\ upto[p] \in Nat
        /\ lastId' \in Nat /\ lastId < lastId' /\ lastId' <= arrived' /\ confirmed' <= lastId' /\ faults' \in Nat
    BY <1>0, <2>1, <2>3 DEF PollInv, Presses
  <2>5. \A q \in Procs : stage'[q] \in {"polling", "handling"} <=> leader' = q
    BY <1>0, <2>1, <2>3 DEF PollInv
  <2>6. \A a \in Actors : at'[a] = "idle"
    BY <1>0, <1>a, <2>1, <2>3 DEF PollInv
  <2>7. \A q \in Procs : stage'[q] # "handling" => on'[q] = NoPress /\ upto'[q] = 0
    BY <1>0, <1>a, <2>1, <2>2 DEF PollInv
  <2>8. ASSUME NEW q \in Procs, stage'[q] = "handling"
        PROVE  on'[q] = lastId' + 1 /\ on'[q] <= upto'[q] /\ upto'[q] <= arrived'
    <3>1. q = p /\ on[p] < upto[p]
      BY <1>0, <2>1, <2>3, <2>8
    <3>2. on'[p] = on[p] + 1 /\ upto'[p] = upto[p]
      BY <1>0, <1>a, <2>1, <2>2, <3>1
    <3>3. QED
      BY <2>1, <2>3, <2>4, <3>1, <3>2
  <2>9. \A x \in Presses : lastId' < x /\ x <= arrived' => button'[x] \in Buttons
    <3>1. \A x \in Presses : lastId' < x => lastId < x
      BY <1>0, <2>4 DEF Presses
    <3>2. QED
      BY <1>0, <2>1, <3>1 DEF PollInv
  <2>10. QED
    BY <2>4, <2>5, <2>6, <2>7, <2>8, <2>9 DEF PollInv
<1>7. ASSUME NEW p \in Procs, Restart(p) PROVE PollInv'
  BY <1>0, <1>a, <1>7 DEF PollInv, Restart, botVars, actorVars, serverVars, faultVars
<1>8. ASSUME NEW p \in Procs, UpdateFails(p) PROVE PollInv'
  BY <1>0, <1>a, <1>8 DEF PollInv, UpdateFails, Faulty, HandlerFails, Working, Go, pollVars, serverVars
<1>9. ASSUME NEW p \in Procs, TickFails(p) PROVE PollInv'
  BY <1>0, <1>a, <1>9 DEF PollInv, TickFails, Faulty, Hold, Go, serverVars
<1>10. ASSUME NEW p \in Procs, Crash(p) PROVE PollInv'
  BY <1>0, <1>a, <1>10 DEF PollInv, Crash, Faulty, LockAfterDeath, Hold, Go, serverVars
<1>11. CASE SendUpdate
  <2>1. PICK u \in Users : \E b \in HandleMessage(u) : button' = [button EXCEPT ![arrived + 1] = b]
    BY <1>11 DEF SendUpdate
  <2>2. PICK b \in Buttons : button' = [button EXCEPT ![arrived + 1] = b]
    BY <2>1, MessagesAreButtons
  <2>3. /\ arrived + 1 \in Presses /\ arrived' = arrived + 1
        /\ UNCHANGED <<stage, leader, lastId, on, upto, at, confirmed, faults>>
    BY <1>11 DEF SendUpdate, actorVars, pollVars, faultVars
  <2>4. \A x \in Presses : lastId' < x /\ x <= arrived' => button'[x] \in Buttons
    BY <1>0, <2>2, <2>3 DEF PollInv, Presses
  <2>5. arrived \in Nat /\ \A p \in Procs : upto[p] \in Nat
    BY <1>0, <1>a DEF Presses
  <2>6. \A p \in Procs : upto[p] <= arrived => upto'[p] <= arrived'
    BY <2>3, <2>5
  <2>7. lastId' <= arrived'
    BY <1>0, <1>a, <2>3, <2>5 DEF PollInv, Presses
  <2>8. QED
    BY <1>0, <2>3, <2>4, <2>6, <2>7 DEF PollInv
<1>12. CASE ToggleCommands
  BY <1>0, <1>12 DEF PollInv, ToggleCommands, botVars, actorVars, pollVars, serverVars
<1>13. CASE World /\ UNCHANGED <<pollVars, serverVars, commandsOn, tried, faultVars>>
  <2>1. UNCHANGED <<at, on, button>>
    BY <1>13 DEF World, Disable, Delete, Revoke, Stopped, actorVars
  <2>2. QED
    BY <1>0, <1>13, <2>1 DEF PollInv, pollVars, serverVars, faultVars
<1>14. CASE UNCHANGED telegramVars
  BY <1>0, <1>14 DEF PollInv, telegramVars, botVars, actorVars, pollVars, serverVars, faultVars
<1>15. QED
  BY <1>1, <1>2, <1>3, <1>4, <1>5, <1>6, <1>7, <1>8, <1>9, <1>10, <1>11, <1>12, <1>13, <1>14, TelegramCases
     DEF TelegramStep
LEMMA NextIsPress ==
  ASSUME NEW n, NEW last \in Nat, NEW up \in Nat, NEW end \in Presses \union {0},
         n = last + 1, n <= up, up <= end
  PROVE  n \in Presses /\ last < n /\ n <= end
  BY DEF Presses

(* The update in hand is ahead of the offset, and its button is there. *)
LEMMA PollWorks ==
  ASSUME PollInv', lastId' \in Nat, arrived' \in Presses \union {0},
         upto' \in [Procs -> Presses \union {0}]
  PROVE  WorkInv'
<1> SUFFICES ASSUME NEW a \in Actors, at'[a] # "idle"
             PROVE  on'[a] \in Presses /\ button'[on'[a]] \in Buttons
  BY DEF WorkInv
<1>1. a \in Procs /\ stage'[a] = "handling"
  BY DEF PollInv
<1>2. on'[a] = lastId' + 1 /\ on'[a] <= upto'[a] /\ upto'[a] <= arrived'
  BY <1>1 DEF PollInv
<1>3. upto'[a] \in Nat
  BY <1>1 DEF Presses
<1>4. on'[a] \in Presses /\ lastId' < on'[a] /\ on'[a] <= arrived'
  BY <1>2, <1>3, NextIsPress
<1>5. QED
  BY <1>4 DEF PollInv

LEMMA StepTelegramTypes ==
  ASSUME TelegramInv, [TelegramNext]_telegramVars
  PROVE  BotInv' /\ TelegramTypeOK'
<1>0. /\ BotTypeOK /\ BotInv /\ PollInv /\ PollInv' /\ TelegramTypeOK /\ WorkInv
      /\ at \in [Actors -> {"idle", "check", "write", "link", "undo", "done"}]
      /\ on \in [Actors -> Presses \union {NoPress}]
      /\ targets \in [Actors -> SUBSET (Things \union Steps)]
      /\ stage \in [Procs -> {"waiting", "polling", "handling", "dead"}]
      /\ upto \in [Procs -> Presses \union {0}]
      /\ lastId \in Nat /\ arrived \in Nat /\ confirmed \in Nat
      /\ lastId \in Presses \union {0} /\ arrived \in Presses \union {0} /\ confirmed \in Presses \union {0}
      /\ leader \in Procs \union {NoProc}
      /\ button \in [Presses -> Buttons \union {NoButton}]
      /\ tried \in [Presses -> Nat]
  BY TelegramTypes, StepPoll DEF TelegramInv, TelegramTypeOK, BotTypeOK
<1>a. Procs \subseteq Actors /\ NoProc \notin Procs /\ NoPress = 0 /\ MaxPresses \in Nat
  BY TelegramAssumption DEF NoPress
<1> DEFINE TypesOfPolls ==
             /\ leader' \in Procs \union {NoProc}
             /\ stage' \in [Procs -> {"waiting", "polling", "handling", "dead"}]
             /\ upto' \in [Procs -> Presses \union {0}]
             /\ lastId' \in Presses \union {0} /\ arrived' \in Presses \union {0}
             /\ confirmed' \in Presses \union {0} /\ tried' \in [Presses -> Nat]
           TypesOfThreads ==
             /\ UNCHANGED <<dataVars, edits>>
             /\ at' \in [Actors -> {"idle", "check", "write", "link", "undo", "done"}]
             /\ on' \in [Actors -> Presses \union {NoPress}]
             /\ targets' \in [Actors -> SUBSET (Things \union Steps)]
             /\ button' \in [Presses -> Buttons \union {NoButton}]
             /\ \A a \in Actors : at'[a] = "undo" => at[a] = "undo"
<1>b. TypesOfPolls => WorkInv'
  BY <1>0, <1>a, PollWorks DEF Presses
<1>c. TypesOfPolls /\ TypesOfThreads => BotInv' /\ TelegramTypeOK'
  <2>1. TypesOfPolls /\ TypesOfThreads => BotInv'
    BY <1>0, <1>b, MoveKeeps
  <2>2. QED
    BY <2>1 DEF BotInv, TelegramTypeOK
<1>d. TypesOfPolls /\ BotInv' => TelegramTypeOK'
  BY DEF BotInv, TelegramTypeOK
<1>1. ASSUME NEW p \in Procs, BecomePollLeader(p) PROVE TypesOfPolls /\ TypesOfThreads
  BY <1>0, <1>1 DEF BecomePollLeader, botVars, actorVars, serverVars
<1>2. ASSUME NEW p \in Procs, GetUpdates(p) PROVE TypesOfPolls /\ TypesOfThreads
  <2>1. lastId < arrived => lastId + 1 \in Presses
    BY <1>0, <1>a DEF Presses
  <2>2. QED
    BY <1>0, <1>a, <1>2, <2>1 DEF GetUpdates, Hold
<1>3. ASSUME NEW p \in Procs, HandleUpdate(p) PROVE TypesOfPolls /\ TypesOfThreads
  <2>1. on[p] \in Presses
    BY <1>0, <1>a, <1>3 DEF PollInv, HandleUpdate
  <2>2. tried \in [Presses -> Nat]
    BY <1>0
  <2>3. tried' = [tried EXCEPT ![on[p]] = tried[on[p]] + 1]
    BY <1>3 DEF HandleUpdate
  <2>4. tried' \in [Presses -> Nat]
    BY <2>1, <2>2, <2>3
  <2>5. QED
    BY <1>0, <1>a, <1>3, <2>4 DEF HandleUpdate, Go, pollVars, serverVars
<1>4. ASSUME NEW p \in Procs, Dispatch(p) PROVE TypesOfPolls /\ TypesOfThreads
  <2>1. button[on[p]] \in Buttons
    BY <1>0, <1>a, <1>4 DEF WorkInv, Dispatch
  <2>2. PICK T \in SUBSET (Things \union Steps) : Decide(p, T)
    BY <1>0, <1>4, <2>1, CallbackActsOnRows DEF Dispatch
  <2>3. QED
    BY <1>0, <1>a, <1>4, <2>2 DEF Dispatch, Decide, Go, pollVars, serverVars
<1>5. ASSUME NEW p \in Procs, WriteStep(p) PROVE TypesOfPolls /\ BotInv'
  BY <1>0, <1>a, <1>5, WriteKeeps DEF WriteStep, pollVars, serverVars
<1>6. ASSUME NEW p \in Procs, CommitOffset(p) PROVE TypesOfPolls /\ TypesOfThreads
  <2>1. on[p] \in Presses /\ (on[p] < upto[p] => on[p] + 1 \in Presses)
    BY <1>0, <1>a, <1>6, SMTT(30) DEF WorkInv, CommitOffset, Presses
  <2>2. QED
    BY <1>0, <1>a, <1>6, <2>1 DEF CommitOffset, Processed, Hold, Go, serverVars
<1>7. ASSUME NEW p \in Procs, Restart(p) PROVE TypesOfPolls /\ TypesOfThreads
  BY <1>0, <1>7 DEF Restart, botVars, actorVars, serverVars
<1>8. ASSUME NEW p \in Procs, UpdateFails(p) PROVE TypesOfPolls /\ TypesOfThreads
  BY <1>0, <1>a, <1>8 DEF UpdateFails, Faulty, HandlerFails, Go, pollVars, serverVars
<1>9. ASSUME NEW p \in Procs, TickFails(p) PROVE TypesOfPolls /\ TypesOfThreads
  BY <1>0, <1>a, <1>9 DEF TickFails, Faulty, Hold, Go, serverVars
<1>10. ASSUME NEW p \in Procs, Crash(p) PROVE TypesOfPolls /\ TypesOfThreads
  BY <1>0, <1>a, <1>10 DEF Crash, Faulty, LockAfterDeath, Hold, Go, serverVars
<1>11. CASE SendUpdate
  <2>1. PICK u \in Users : \E b \in HandleMessage(u) : button' = [button EXCEPT ![arrived + 1] = b]
    BY <1>11 DEF SendUpdate
  <2>2. PICK b \in Buttons : button' = [button EXCEPT ![arrived + 1] = b]
    BY <2>1, MessagesAreButtons
  <2>3. TypesOfPolls /\ TypesOfThreads
    BY <1>0, <1>11, <2>2 DEF SendUpdate, actorVars, pollVars
  <2>4. QED
    BY <1>c, <2>3
<1>12. CASE ToggleCommands
  <2>1. TypesOfPolls /\ TypesOfThreads
    BY <1>0, <1>12 DEF ToggleCommands, botVars, actorVars, pollVars, serverVars
  <2>2. QED
    BY <1>c, <2>1
<1>13. CASE World /\ UNCHANGED <<pollVars, serverVars, commandsOn, tried, faultVars>>
  <2>1. TypesOfPolls
    BY <1>0, <1>13 DEF pollVars, serverVars
  <2>2. QED
    BY <1>0, <1>13, <1>d, <2>1, WorldKeeps
<1>14. CASE UNCHANGED telegramVars
  <2>1. TypesOfPolls /\ TypesOfThreads
    BY <1>0, <1>14 DEF telegramVars, botVars, actorVars, pollVars, serverVars
  <2>2. QED
    BY <1>c, <2>1
<1> HIDE DEF TypesOfPolls, TypesOfThreads
<1>15. QED
  BY <1>c, <1>d, <1>1, <1>2, <1>3, <1>4, <1>5, <1>6, <1>7, <1>8, <1>9, <1>10, <1>11, <1>12, <1>13, <1>14,
     TelegramCases DEF TelegramStep

(* An update is taken up before it is committed. *)
LEMMA StepTried ==
  ASSUME TelegramInv, [TelegramNext]_telegramVars
  PROVE  TriedInv'
<1>0. /\ PollInv /\ TriedInv /\ WorkInv /\ PollInv'
      /\ at \in [Actors -> {"idle", "check", "write", "link", "undo", "done"}]
      /\ on \in [Actors -> Presses \union {NoPress}]
      /\ lastId \in Nat /\ tried \in [Presses -> Nat]
  BY TelegramTypes, StepPoll DEF TelegramInv
<1>a. Procs \subseteq Actors /\ NoPress = 0 /\ MaxPresses \in Nat
  BY TelegramAssumption DEF NoPress
<1>b. (\A a \in Actors : at[a] = "idle" => at'[a] = "idle" \/ tried'[on'[a]] > 0)
      /\ (\A a \in Actors : at[a] # "idle" => at'[a] = "idle" \/ on'[a] = on[a])
      /\ (\A x \in Presses : tried'[x] >= tried[x] /\ tried'[x] \in Nat)
      /\ (lastId' = lastId \/ \E p \in Procs : at[p] # "idle" /\ lastId' = on[p] /\ on[p] = lastId + 1)
      => TriedInv'
  <2> SUFFICES ASSUME \A a \in Actors : at[a] = "idle" => at'[a] = "idle" \/ tried'[on'[a]] > 0,
                      \A a \in Actors : at[a] # "idle" => at'[a] = "idle" \/ on'[a] = on[a],
                      \A x \in Presses : tried'[x] >= tried[x] /\ tried'[x] \in Nat,
                      lastId' = lastId \/ \E p \in Procs : at[p] # "idle" /\ lastId' = on[p] /\ on[p] = lastId + 1
               PROVE  TriedInv'
    OBVIOUS
  <2>1. ASSUME NEW p \in Procs, at[p] # "idle" PROVE on[p] \in Presses /\ tried'[on[p]] > 0
    BY <1>0, <1>a, <2>1 DEF TriedInv, WorkInv
  <2>2. ASSUME NEW x \in Presses, x <= lastId' PROVE tried'[x] > 0
    <3>1. CASE lastId' = lastId
      BY <1>0, <2>2, <3>1 DEF TriedInv
    <3>2. ASSUME NEW p \in Procs, at[p] # "idle", lastId' = on[p], on[p] = lastId + 1 PROVE tried'[x] > 0
      <4>1. x <= lastId \/ x = on[p]
        BY <1>0, <2>2, <3>2 DEF Presses
      <4>2. QED
        BY <1>0, <2>1, <3>2, <4>1 DEF TriedInv
    <3>3. QED
      BY <3>1, <3>2
  <2>3. QED
    BY <1>a, <2>1, <2>2 DEF TriedInv
<1>1. ASSUME NEW p \in Procs, BecomePollLeader(p) PROVE TriedInv'
  BY <1>0, <1>1 DEF TriedInv, BecomePollLeader, botVars, actorVars
<1>2. ASSUME NEW p \in Procs, GetUpdates(p) PROVE TriedInv'
  BY <1>0, <1>a, <1>2 DEF TriedInv, PollInv, GetUpdates, Hold
<1>3. ASSUME NEW p \in Procs, HandleUpdate(p) PROVE TriedInv'
  <2>1. stage[p] = "handling" /\ on'[p] = on[p] /\ on[p] = lastId + 1 /\ on[p] \in Presses
    BY <1>0, <1>a, <1>3 DEF PollInv, HandleUpdate
  <2>2. tried' = [tried EXCEPT ![on[p]] = @ + 1] /\ lastId' = lastId
    BY <1>3 DEF HandleUpdate, pollVars
  <2>3. /\ \A x \in Presses : tried'[x] >= tried[x] /\ tried'[x] \in Nat
        /\ tried'[on[p]] > 0
    BY <1>0, <2>1, <2>2
  <2>4. \A a \in Actors : a # p => at'[a] = at[a]
    BY <1>0, <1>3 DEF HandleUpdate, Go
  <2>5. on' = on
    BY <1>3 DEF HandleUpdate
  <2>6. QED
    BY <1>b, <2>2, <2>3, <2>4, <2>5
<1>4. ASSUME NEW p \in Procs, Dispatch(p) PROVE TriedInv'
  BY <1>0, <1>a, <1>4 DEF TriedInv, Dispatch, Decide, Go, pollVars
<1>5. ASSUME NEW p \in Procs, WriteStep(p) PROVE TriedInv'
  <2>1. /\ UNCHANGED <<on, tried, lastId>> /\ at[p] # "idle"
        /\ \E where \in {"link", "undo", "done"} : Go(p, where)
    BY <1>5 DEF WriteStep, Write, Enqueue, EnqueueNothing, DropEmptyRun, Approve, BindBatch, Reject, RowGone,
                Settle, HandlerFails, dataVars, pollVars
  <2>2. QED
    BY <1>0, <1>a, <2>1 DEF TriedInv, Go
<1>6. ASSUME NEW p \in Procs, CommitOffset(p) PROVE TriedInv'
  <2>1. at[p] # "idle" /\ stage[p] = "handling" /\ on[p] = lastId + 1 /\ lastId' = on[p] /\ tried' = tried
    BY <1>0, <1>a, <1>6 DEF PollInv, CommitOffset, Processed
  <2>2. at'[p] = "idle" /\ \A a \in Actors : a # p => at'[a] = at[a] /\ on'[a] = on[a]
    BY <1>0, <1>a, <1>6 DEF CommitOffset, Hold, Go
  <2>3. \A x \in Presses : tried'[x] >= tried[x] /\ tried'[x] \in Nat
    BY <1>0, <2>1
  <2>4. QED
    BY <1>b, <2>1, <2>2, <2>3
<1>7. ASSUME NEW p \in Procs, Restart(p) PROVE TriedInv'
  BY <1>0, <1>7 DEF TriedInv, Restart, botVars, actorVars
<1>8. ASSUME NEW p \in Procs, UpdateFails(p) PROVE TriedInv'
  BY <1>0, <1>a, <1>8 DEF TriedInv, UpdateFails, HandlerFails, Working, Go, pollVars
<1>9. ASSUME NEW p \in Procs, TickFails(p) PROVE TriedInv'
  BY <1>0, <1>a, <1>9 DEF TriedInv, TickFails, Hold, Go
<1>10. ASSUME NEW p \in Procs, Crash(p) PROVE TriedInv'
  BY <1>0, <1>a, <1>10 DEF TriedInv, Crash, Hold, Go
<1>11. CASE SendUpdate
  BY <1>0, <1>11 DEF TriedInv, SendUpdate, actorVars, pollVars
<1>12. CASE ToggleCommands
  BY <1>0, <1>12 DEF TriedInv, ToggleCommands, botVars, actorVars, pollVars
<1>13. CASE World /\ UNCHANGED <<pollVars, serverVars, commandsOn, tried, faultVars>>
  <2>1. UNCHANGED <<at, on>>
    BY <1>13 DEF World, Disable, Delete, Revoke, Stopped, actorVars
  <2>2. QED
    BY <1>0, <1>13, <2>1 DEF TriedInv, pollVars
<1>14. CASE UNCHANGED telegramVars
  BY <1>0, <1>14 DEF TriedInv, telegramVars, botVars, actorVars, pollVars
<1>15. QED
  BY <1>1, <1>2, <1>3, <1>4, <1>5, <1>6, <1>7, <1>8, <1>9, <1>10, <1>11, <1>12, <1>13, <1>14, TelegramCases
     DEF TelegramStep
(* No press is acted on more often than faults allow. *)
LEMMA StepCount ==
  ASSUME TelegramInv, [TelegramNext]_telegramVars
  PROVE  CountInv'
<1>0. /\ PollInv /\ CountInv /\ WorkInv
      /\ at \in [Actors -> {"idle", "check", "write", "link", "undo", "done"}]
      /\ on \in [Actors -> Presses \union {NoPress}]
      /\ lastId \in Nat /\ faults \in Nat
  BY TelegramTypes DEF TelegramInv, PollInv
<1>q. queued \in [Presses -> Nat]
  BY TelegramTypes DEF BotTypeOK
<1>a. Procs \subseteq Actors /\ NoPress = 0 /\ MaxPresses \in Nat
  BY TelegramAssumption DEF NoPress
<1>b. ASSUME queued' = queued, faults' = faults + 1 PROVE CountInv'
  BY <1>0, <1>q, <1>b DEF CountInv
<1>c. ASSUME queued' = queued, faults' = faults, \A x \in Presses : Handled(x) => Handled(x)' PROVE CountInv'
  BY <1>0, <1>q, <1>c DEF CountInv
<1>d. ASSUME queued' = queued, faults' = faults, lastId' = lastId,
             \A p \in Procs : at[p] \in {"link", "done"} => at'[p] \in {"link", "done"} /\ on'[p] = on[p]
      PROVE  CountInv'
  <2>1. \A x \in Presses : Handled(x) => Handled(x)'
    BY <1>0, <1>a, <1>d DEF Handled
  <2>2. QED
    BY <1>c, <1>d, <2>1
<1>1. ASSUME NEW p \in Procs, BecomePollLeader(p) PROVE CountInv'
  BY <1>d, <1>1 DEF BecomePollLeader, botVars, dataVars, actorVars, faultVars
<1>2. ASSUME NEW p \in Procs, GetUpdates(p) PROVE CountInv'
  <2>1. at[p] = "idle"
    BY <1>0, <1>a, <1>2 DEF PollInv, GetUpdates
  <2>2. QED
    BY <1>0, <1>a, <1>d, <1>2, <2>1 DEF GetUpdates, Hold, dataVars, faultVars
<1>3. ASSUME NEW p \in Procs, HandleUpdate(p) PROVE CountInv'
  BY <1>0, <1>a, <1>d, <1>3 DEF HandleUpdate, Go, dataVars, pollVars, faultVars
<1>4. ASSUME NEW p \in Procs, Dispatch(p) PROVE CountInv'
  BY <1>0, <1>a, <1>d, <1>4 DEF Dispatch, Decide, Go, dataVars, pollVars, faultVars
<1>5. ASSUME NEW p \in Procs, WriteStep(p) PROVE CountInv'
  <2>0. Write(p) /\ UNCHANGED <<lastId, faults>> /\ at[p] # "idle" /\ at[p] # "done"
    BY <1>5 DEF WriteStep, Write, Enqueue, EnqueueNothing, DropEmptyRun, Approve, BindBatch, Reject, RowGone,
                pollVars, faultVars
  <2>1. CASE EnqueueNothing(p)
    BY <1>0, <1>a, <1>d, <2>0, <2>1 DEF EnqueueNothing, Go
  <2>2. CASE DropEmptyRun(p) \/ BindBatch(p) \/ Reject(p) \/ RowGone(p)
    <3>1. queued' = queued /\ on' = on /\ Go(p, "done")
      BY <2>2 DEF DropEmptyRun, BindBatch, Reject, RowGone, Settle, HandlerFails, dataVars
    <3>2. QED
      BY <1>0, <1>a, <1>d, <2>0, <3>1 DEF Go
  <2>3. CASE Enqueue(p) \/ Approve(p)
    <3>1. /\ at[p] = "write" /\ on' = on /\ queued' = [queued EXCEPT ![on[p]] = @ + 1]
          /\ Go(p, "done") \/ Go(p, "link")
      BY <2>3 DEF Enqueue, Approve
    <3>2. on[p] = lastId + 1 /\ on[p] \in Presses
      BY <1>0, <1>a, <3>1 DEF PollInv, WorkInv
    <3>3. ~Handled(on[p])
      <4>1. \A q \in Procs : at[q] \in {"link", "done"} => q # p /\ at[q] # "idle" /\ at[p] # "idle"
        BY <3>1
      <4>2. \A q \in Procs : at[q] \notin {"link", "done"}
        BY <1>0, <1>a, <4>1, OneWorker
      <4>3. QED
        BY <1>0, <3>2, <4>2 DEF Handled
    <3>4. queued[on[p]] <= faults
      BY <1>0, <3>2, <3>3 DEF CountInv
    <3>5. at' = [at EXCEPT ![p] = "done"] \/ at' = [at EXCEPT ![p] = "link"]
      BY <3>1 DEF Go
    <3>6. \A x \in Presses : Handled(x) => Handled(x)'
      BY <1>0, <1>a, <2>0, <3>1, <3>5 DEF Handled
    <3>7. \A x \in Presses : x = on[p] => Handled(x)'
      BY <1>0, <1>a, <3>1, <3>5 DEF Handled
    <3>8. \A x \in Presses : /\ x # on[p] => queued'[x] = queued[x]
                             /\ x = on[p] => queued'[x] = queued[x] + 1
      BY <1>q, <3>1, <3>2
    <3>9. ASSUME NEW x \in Presses
          PROVE  queued'[x] <= faults + 1 /\ (Handled(x)' \/ queued'[x] <= faults)
      <4>1. CASE x = on[p]
        BY <1>0, <1>q, <3>4, <3>7, <3>8, <4>1
      <4>2. CASE x # on[p]
        BY <1>0, <3>6, <3>8, <4>2 DEF CountInv
      <4>3. QED
        BY <4>1, <4>2
    <3>10. QED
      BY <2>0, <3>9 DEF CountInv
  <2>4. QED
    BY <2>0, <2>1, <2>2, <2>3 DEF Write
<1>6. ASSUME NEW p \in Procs, CommitOffset(p) PROVE CountInv'
  <2>1. on[p] = lastId + 1 /\ lastId' = on[p] /\ queued' = queued /\ faults' = faults /\ at[p] # "idle"
    BY <1>0, <1>a, <1>6 DEF PollInv, CommitOffset, Processed, dataVars, faultVars
  <2>2. \A q \in Procs : at[q] \in {"link", "done"} => q = p
    BY <1>0, <1>a, <2>1, OneWorker
  <2>3. \A x \in Presses : Handled(x) => x <= lastId \/ x = on[p]
    BY <2>2 DEF Handled
  <2>4. \A x \in Presses : Handled(x) => Handled(x)'
    BY <1>0, <2>1, <2>3 DEF Handled, Presses
  <2>5. QED
    BY <1>c, <2>1, <2>4
<1>7. ASSUME NEW p \in Procs, Restart(p) PROVE CountInv'
  BY <1>d, <1>7 DEF Restart, botVars, dataVars, actorVars, faultVars
<1>8. ASSUME NEW p \in Procs, UpdateFails(p) PROVE CountInv'
  BY <1>b, <1>8 DEF UpdateFails, Faulty, HandlerFails, dataVars
<1>9. ASSUME NEW p \in Procs, TickFails(p) PROVE CountInv'
  BY <1>b, <1>9 DEF TickFails, Faulty, dataVars
<1>10. ASSUME NEW p \in Procs, Crash(p) PROVE CountInv'
  BY <1>b, <1>10 DEF Crash, Faulty, dataVars
<1>11. CASE SendUpdate
  BY <1>d, <1>11 DEF SendUpdate, dataVars, actorVars, pollVars, faultVars
<1>12. CASE ToggleCommands
  BY <1>d, <1>12 DEF ToggleCommands, botVars, dataVars, actorVars, pollVars
<1>13. CASE World /\ UNCHANGED <<pollVars, serverVars, commandsOn, tried, faultVars>>
  <2>1. UNCHANGED <<at, on, queued>>
    BY <1>13 DEF World, Disable, Delete, Revoke, Stopped, actorVars
  <2>2. QED
    BY <1>d, <1>13, <2>1 DEF pollVars, faultVars
<1>14. CASE UNCHANGED telegramVars
  BY <1>d, <1>14 DEF telegramVars, botVars, dataVars, actorVars, pollVars, faultVars
<1>15. QED
  BY <1>1, <1>2, <1>3, <1>4, <1>5, <1>6, <1>7, <1>8, <1>9, <1>10, <1>11, <1>12, <1>13, <1>14, TelegramCases
     DEF TelegramStep
(* No review is decided more often than faults allow. *)
LEMMA StepBatches ==
  ASSUME TelegramInv, [TelegramNext]_telegramVars
  PROVE  BatchInv'
<1>0. /\ PollInv /\ BatchInv /\ WorkInv
      /\ at \in [Actors -> {"idle", "check", "write", "link", "undo", "done"}]
      /\ on \in [Actors -> Presses \union {NoPress}]
      /\ lastId \in Nat /\ faults \in Nat /\ arrived \in Nat
  BY TelegramTypes DEF TelegramInv, PollInv
<1>t. /\ batches \in [Steps -> Nat]
      /\ review \in [Steps -> {"awaiting_review", "running", "failed"}]
      /\ targets \in [Actors -> SUBSET (Things \union Steps)]
  BY TelegramTypes DEF BotTypeOK
<1>a. Procs \subseteq Actors /\ NoPress = 0 /\ MaxPresses \in Nat
  BY TelegramAssumption DEF NoPress
<1>b. ASSUME review' = review, batches' = batches, faults' = faults \/ faults' = faults + 1,
             \A q \in Procs : Deciding(q)' => Deciding(q) /\ targets'[q] = targets[q],
             \A q \in Procs : at[q] = "link" =>
               faults' = faults + 1 \/ (at'[q] = "link" /\ targets'[q] = targets[q])
      PROVE  BatchInv'
  <2>1. \A q \in Procs : Deciding(q)' => \A s \in Steps \intersect targets'[q] : review'[s] = "awaiting_review"
    BY <1>0, <1>b DEF BatchInv
  <2>2. ASSUME NEW s \in Steps
        PROVE  /\ batches'[s] <= faults' + 1
               /\ review'[s] = "running" \/ Linking(s)' \/ batches'[s] <= faults'
    <3>1. batches[s] \in Nat /\ batches[s] <= faults + 1
          /\ (review[s] = "running" \/ Linking(s) \/ batches[s] <= faults)
      BY <1>0, <1>t DEF BatchInv
    <3>2. CASE faults' = faults + 1
      BY <1>0, <1>b, <3>1, <3>2
    <3>3. CASE faults' = faults
      <4>1. faults' # faults + 1
        BY <1>0, <3>3
      <4>2. Linking(s) => Linking(s)'
        BY <1>b, <4>1 DEF Linking
      <4>3. QED
        BY <1>b, <3>1, <3>3, <4>2
    <3>4. QED
      BY <1>b, <3>2, <3>3
  <2>3. QED
    BY <2>1, <2>2 DEF BatchInv
<1>c. ASSUME UNCHANGED <<review, batches, at, on, targets, button, faults>> PROVE BatchInv'
  BY <1>b, <1>c DEF Deciding, Action
<1>1. ASSUME NEW p \in Procs, BecomePollLeader(p) PROVE BatchInv'
  BY <1>c, <1>1 DEF BecomePollLeader, botVars, dataVars, actorVars, faultVars
<1>2. ASSUME NEW p \in Procs, GetUpdates(p) PROVE BatchInv'
  <2>1. \A q \in Procs : at[q] = "idle"
    BY <1>0, <1>a, <1>2 DEF PollInv, GetUpdates
  <2>2. UNCHANGED <<review, batches, at, faults>>
    BY <1>2 DEF GetUpdates, dataVars, faultVars
  <2>3. QED
    BY <1>b, <2>1, <2>2 DEF Deciding
<1>3. ASSUME NEW p \in Procs, HandleUpdate(p) PROVE BatchInv'
  <2>1. UNCHANGED <<review, batches, on, targets, button, faults>> /\ at[p] = "idle"
    BY <1>3 DEF HandleUpdate, dataVars, faultVars
  <2>2. at' = [at EXCEPT ![p] = "check"]
    BY <1>3 DEF HandleUpdate, Go
  <2>3. QED
    BY <1>0, <1>a, <1>b, <2>1, <2>2 DEF Deciding, Action
<1>4. ASSUME NEW p \in Procs, Dispatch(p) PROVE BatchInv'
  <2>1. PICK T \in HandleCallbackQuery(button[on[p]]) : Decide(p, T)
    BY <1>4 DEF Dispatch
  <2>2. UNCHANGED <<review, batches, on, button, faults>> /\ at[p] = "check"
    BY <1>4, <2>1 DEF Dispatch, Decide, dataVars, faultVars
  <2>3. /\ targets' = [targets EXCEPT ![p] = T]
        /\ at' = [at EXCEPT ![p] = IF T = {} THEN "done" ELSE "write"]
    BY <2>1 DEF Decide, Go
  <2>4. \A q \in Procs \ {p} : at[q] = "idle"
    BY <1>0, <1>a, <2>2, OneWorker
  <2>5. ASSUME Action(p) \in {"approve", "reject"}, NEW s \in Steps \intersect T PROVE review[s] = "awaiting_review"
    <3>1. T = {} \/ T = AwaitingForUser(button[on[p]])
      <4>1. CASE ~May(button[on[p]])
        BY <4>1, <2>1 DEF HandleCallbackQuery
      <4>2. CASE May(button[on[p]]) /\ Action(p) = "approve"
        BY <4>2, <2>1 DEF HandleCallbackQuery, ApproveCallback, Action
      <4>3. CASE May(button[on[p]]) /\ Action(p) = "reject"
        BY <4>3, <2>1 DEF HandleCallbackQuery, RejectCallback, Action
      <4>4. QED
        BY <2>5, <4>1, <4>2, <4>3
    <3>2. QED
      BY <2>5, <3>1 DEF AwaitingForUser, Accessible
  <2>6. \A q \in Procs : Deciding(q)' => \A s \in Steps \intersect targets'[q] : review'[s] = "awaiting_review"
    BY <1>0, <1>t, <1>a, <2>2, <2>3, <2>4, <2>5 DEF Deciding, Action
  <2>7. \A s \in Steps : ~Linking(s)
    BY <2>2, <2>4 DEF Linking
  <2>8. QED
    BY <1>0, <2>2, <2>6, <2>7 DEF BatchInv
<1>5. ASSUME NEW p \in Procs, WriteStep(p) PROVE BatchInv'
  <2>0. /\ Write(p) /\ UNCHANGED <<on, targets, button, faults>> /\ at[p] # "idle"
        /\ \E where \in {"link", "undo", "done"} : Go(p, where)
    BY <1>5 DEF WriteStep, Write, Enqueue, EnqueueNothing, DropEmptyRun, Approve, BindBatch, Reject, RowGone,
                Settle, HandlerFails, dataVars, faultVars
  <2>1. \A q \in Procs \ {p} : at[q] = "idle" /\ at'[q] = "idle"
    BY <1>0, <1>a, <2>0, OneWorker DEF Go
  <2>2. CASE Enqueue(p) \/ EnqueueNothing(p) \/ DropEmptyRun(p) \/ RowGone(p)
    <3>1. UNCHANGED <<review, batches>> /\ at[p] # "link" /\ (Go(p, "done") \/ Go(p, "undo"))
      BY <2>2 DEF Enqueue, EnqueueNothing, DropEmptyRun, RowGone, HandlerFails, dataVars
    <3>2. at'[p] \notin {"link", "write"}
      BY <1>0, <1>a, <3>1 DEF Go
    <3>3. QED
      BY <1>b, <2>0, <2>1, <3>1, <3>2 DEF Deciding
  <2>3. CASE Approve(p)
    <3>1. /\ at[p] = "write" /\ Action(p) = "approve" /\ at' = [at EXCEPT ![p] = "link"]
          /\ batches' = [s \in Steps |-> IF s \in targets[p] THEN batches[s] + 1 ELSE batches[s]]
          /\ review' = review
      BY <2>3 DEF Approve, Go
    <3>2. \A s \in Steps \intersect targets[p] : review[s] = "awaiting_review"
      BY <1>0, <3>1 DEF BatchInv, Deciding
    <3>3. \A s \in Steps : ~Linking(s)
      BY <2>1, <3>1 DEF Linking
    <3>4. at'[p] = "link"
      BY <1>0, <1>a, <3>1
    <3>5. ASSUME NEW s \in Steps
          PROVE  /\ batches'[s] <= faults' + 1
                 /\ review'[s] = "running" \/ Linking(s)' \/ batches'[s] <= faults'
      <4>1. CASE s \in targets[p]
        <5>1. batches[s] <= faults /\ batches'[s] = batches[s] + 1
          BY <1>0, <3>1, <3>2, <3>3, <4>1 DEF BatchInv
        <5>2. Linking(s)'
          BY <2>0, <3>4, <4>1 DEF Linking
        <5>3. QED
          BY <1>0, <1>t, <2>0, <5>1, <5>2
      <4>2. CASE s \notin targets[p]
        BY <1>0, <2>0, <3>1, <3>3, <4>2 DEF BatchInv
      <4>3. QED
        BY <4>1, <4>2
    <3>6. \A q \in Procs : Deciding(q)' => q = p
      BY <2>1 DEF Deciding
    <3>7. QED
      BY <2>0, <3>1, <3>2, <3>5, <3>6 DEF BatchInv
  <2>4. CASE BindBatch(p) \/ Reject(p)
    <3>1. PICK outcome \in {"running", "failed"} :
            /\ Deciding(p) /\ at' = [at EXCEPT ![p] = "done"] /\ batches' = batches
            /\ review' = [s \in Steps |-> IF s \in targets[p] THEN outcome ELSE review[s]]
            /\ outcome = "failed" => at[p] = "write"
      BY <2>4 DEF BindBatch, Reject, Settle, Deciding, Go
    <3>2. \A s \in Steps \intersect targets[p] : review[s] = "awaiting_review"
      BY <1>0, <3>1 DEF BatchInv
    <3>3. \A q \in Procs : ~Deciding(q)'
      BY <1>0, <1>a, <2>1, <3>1 DEF Deciding
    <3>4. \A s \in Steps : Linking(s) => at[p] = "link" /\ s \in targets[p]
      BY <2>1 DEF Linking
    <3>5. ASSUME NEW s \in Steps
          PROVE  /\ batches'[s] <= faults' + 1
                 /\ review'[s] = "running" \/ Linking(s)' \/ batches'[s] <= faults'
      <4>1. batches[s] <= faults + 1 /\ (review[s] = "running" \/ Linking(s) \/ batches[s] <= faults)
        BY <1>0 DEF BatchInv
      <4>2. CASE s \in targets[p]
        BY <2>0, <3>1, <3>2, <3>4, <4>1, <4>2
      <4>3. CASE s \notin targets[p]
        BY <2>0, <3>1, <3>4, <4>1, <4>3
      <4>4. QED
        BY <4>2, <4>3
    <3>6. QED
      BY <3>3, <3>5 DEF BatchInv
  <2>5. QED
    BY <2>0, <2>2, <2>3, <2>4 DEF Write
<1>6. ASSUME NEW p \in Procs, CommitOffset(p) PROVE BatchInv'
  <2>1. at[p] = "done" /\ UNCHANGED <<review, batches, faults, button>>
    BY <1>6 DEF CommitOffset, dataVars, faultVars
  <2>2. at'[p] = "idle" /\ \A q \in Procs \ {p} : at[q] = "idle" /\ at'[q] = "idle"
    BY <1>0, <1>a, <1>6, <2>1, OneWorker DEF CommitOffset, Go
  <2>3. QED
    BY <1>b, <2>1, <2>2 DEF Deciding
<1>7. ASSUME NEW p \in Procs, Restart(p) PROVE BatchInv'
  BY <1>c, <1>7 DEF Restart, botVars, dataVars, actorVars, faultVars
<1>8. ASSUME NEW p \in Procs, UpdateFails(p) \/ TickFails(p) \/ Crash(p) PROVE BatchInv'
  <2>1. UNCHANGED <<review, batches, button>> /\ faults' = faults + 1
    BY <1>8 DEF UpdateFails, TickFails, Crash, Faulty, HandlerFails, dataVars
  <2>2. /\ at'[p] \in {"idle", "done"}
        /\ \A q \in Procs \ {p} : at'[q] = at[q] /\ on'[q] = on[q] /\ targets'[q] = targets[q]
    BY <1>0, <1>t, <1>a, <1>8 DEF UpdateFails, TickFails, Crash, HandlerFails, Go, Hold
  <2>3. QED
    BY <1>b, <2>1, <2>2 DEF Deciding, Action
<1>11. CASE SendUpdate
  <2>1. PICK u \in Users : \E b \in HandleMessage(u) : button' = [button EXCEPT ![arrived + 1] = b]
    BY <1>11 DEF SendUpdate
  <2>2. PICK b : button' = [button EXCEPT ![arrived + 1] = b]
    BY <2>1
  <2>3. UNCHANGED <<review, batches, at, on, targets, faults>>
    BY <1>11 DEF SendUpdate, dataVars, actorVars, faultVars
  <2>4. \A q \in Procs : at[q] # "idle" => on[q] # arrived + 1
    BY <1>0, <1>a, TelegramTypes, SMTT(30) DEF PollInv, Presses
  <2>5. \A q \in Procs : at[q] # "idle" => Action(q)' = Action(q)
    BY <2>2, <2>3, <2>4, TelegramTypes DEF Action
  <2>6. QED
    BY <1>b, <2>3, <2>5 DEF Deciding
<1>12. CASE ToggleCommands
  BY <1>c, <1>12 DEF ToggleCommands, botVars, dataVars, actorVars
<1>13. CASE World /\ UNCHANGED <<pollVars, serverVars, commandsOn, tried, faultVars>>
  BY <1>c, <1>13 DEF World, Disable, Delete, Revoke, Stopped, actorVars, faultVars
<1>14. CASE UNCHANGED telegramVars
  BY <1>c, <1>14 DEF telegramVars, botVars, dataVars, actorVars, faultVars
<1>15. QED
  BY <1>1, <1>2, <1>3, <1>4, <1>5, <1>6, <1>7, <1>8, <1>11, <1>12, <1>13, <1>14, TelegramCases
     DEF TelegramStep
(* An empty run is left behind by a fault only. *)
LEMMA StepDrop ==
  ASSUME TelegramInv, [TelegramNext]_telegramVars
  PROVE  DropInv'
<1>0. /\ BotTypeOK /\ PollInv /\ DropInv /\ emptyRuns \in Nat /\ faults \in Nat
      /\ at \in [Actors -> {"idle", "check", "write", "link", "undo", "done"}]
  BY TelegramTypes DEF TelegramInv, PollInv, BotTypeOK
<1>a. Procs \subseteq Actors
  BY TelegramAssumption
<1>b. Cardinality(Undoing) \in Nat /\ IsFiniteSet(Undoing) /\ Cardinality(Undoing') \in Nat
  <2>1. Undoing' \subseteq Actors
    BY DEF Undoing
  <2>2. QED
    BY <2>1, UndoingFinite, FS_Subset, FS_CardinalityType
<1>c. ASSUME emptyRuns' = emptyRuns, faults' = faults,
             \A a \in Actors : (at[a] = "undo" <=> at'[a] = "undo")
      PROVE  DropInv'
  <2>1. Undoing' = Undoing
    BY <1>c DEF Undoing
  <2>2. QED
    BY <1>0, <1>c, <2>1 DEF DropInv
<1>d. ASSUME NEW p \in Procs, emptyRuns' = emptyRuns, faults' = faults + 1,
             \A a \in Actors \ {p} : at'[a] = at[a]
      PROVE  DropInv'
  <2>1. Undoing \ {p} \subseteq Undoing'
    BY <1>d DEF Undoing
  <2>2. /\ IsFiniteSet(Undoing \ {p}) /\ Cardinality(Undoing \ {p}) \in Nat
        /\ Cardinality(Undoing) <= Cardinality(Undoing \ {p}) + 1
    <3>1. IsFiniteSet(Undoing \ {p}) /\ Cardinality(Undoing \ {p}) \in Nat
      BY <1>b, FS_Subset, FS_CardinalityType
    <3>2. CASE p \in Undoing
      BY <1>b, <3>1, <3>2, FS_RemoveElement
    <3>3. CASE p \notin Undoing
      <4>1. Undoing \ {p} = Undoing
        BY <3>3
      <4>2. QED
        BY <1>b, <4>1
    <3>4. QED
      BY <3>1, <3>2, <3>3
  <2>3. Cardinality(Undoing \ {p}) <= Cardinality(Undoing')
    <3>1. IsFiniteSet(Undoing')
      <4>1. Undoing' \subseteq Actors
        BY DEF Undoing
      <4>2. QED
        BY <4>1, FS_Subset
    <3>2. QED
      BY <2>1, <3>1, FS_Subset
  <2>4. QED
    BY <1>0, <1>b, <1>d, <2>2, <2>3 DEF DropInv
<1>1. ASSUME NEW p \in Procs, BecomePollLeader(p) \/ Restart(p) \/ GetUpdates(p) PROVE DropInv'
  BY <1>c, <1>1 DEF BecomePollLeader, Restart, GetUpdates, botVars, dataVars, actorVars, faultVars
<1>3. ASSUME NEW p \in Procs, HandleUpdate(p) PROVE DropInv'
  BY <1>0, <1>a, <1>c, <1>3 DEF HandleUpdate, Go, dataVars, faultVars
<1>4. ASSUME NEW p \in Procs, Dispatch(p) PROVE DropInv'
  BY <1>0, <1>a, <1>c, <1>4 DEF Dispatch, Decide, Go, dataVars, faultVars
<1>5. ASSUME NEW p \in Procs, WriteStep(p) PROVE DropInv'
  <2>1. emptyRuns' + Cardinality(Undoing) = emptyRuns + Cardinality(Undoing')
    BY <1>0, <1>a, <1>5, WriteBalances DEF WriteStep
  <2>2. faults' = faults /\ emptyRuns' \in Int
    BY <1>0, <1>5 DEF WriteStep, faultVars, Write, Enqueue, EnqueueNothing, DropEmptyRun, Approve, BindBatch,
                      Reject, RowGone, Settle, HandlerFails, dataVars
  <2>3. QED
    BY <1>0, <1>b, <2>1, <2>2 DEF DropInv
<1>6. ASSUME NEW p \in Procs, CommitOffset(p) PROVE DropInv'
  BY <1>0, <1>a, <1>c, <1>6 DEF CommitOffset, Go, dataVars, faultVars
<1>8. ASSUME NEW p \in Procs, UpdateFails(p) \/ TickFails(p) \/ Crash(p) PROVE DropInv'
  BY <1>0, <1>a, <1>d, <1>8 DEF UpdateFails, TickFails, Crash, Faulty, HandlerFails, Go, dataVars
<1>11. CASE SendUpdate
  BY <1>c, <1>11 DEF SendUpdate, dataVars, actorVars, faultVars
<1>12. CASE ToggleCommands
  BY <1>c, <1>12 DEF ToggleCommands, botVars, dataVars, actorVars
<1>13. CASE World /\ UNCHANGED <<pollVars, serverVars, commandsOn, tried, faultVars>>
  BY <1>c, <1>13 DEF World, Disable, Delete, Revoke, Stopped, actorVars, faultVars
<1>14. CASE UNCHANGED telegramVars
  BY <1>c, <1>14 DEF telegramVars, botVars, dataVars, actorVars, faultVars
<1>15. QED
  BY <1>1, <1>3, <1>4, <1>5, <1>6, <1>8, <1>11, <1>12, <1>13, <1>14, TelegramCases DEF TelegramStep

LEMMA InitBots == BotInit => BotInv
<1> SUFFICES ASSUME BotInit PROVE BotInv
  OBVIOUS
<1>1. BotTypeOK
  BY DEF BotInit, BotTypeOK, Things
<1>2. Undoing = {}
  BY DEF BotInit, Undoing
<1>3. EmptyInv
  BY <1>2, FS_EmptySet DEF EmptyInv, BotInit
<1>4. QED
  BY <1>1, <1>3 DEF BotInv, BotInit, WorkInv

LEMMA InitTelegram == TelegramInit => TelegramInv
<1> SUFFICES ASSUME TelegramInit PROVE TelegramInv
  OBVIOUS
<1>1. BotInv /\ BotInit
  BY InitBots DEF TelegramInit
<1>a. Procs \subseteq Actors /\ NoProc \notin Procs /\ NoPress = 0 /\ MaxPresses \in Nat
  BY TelegramAssumption DEF NoPress
<1>2. TelegramTypeOK
  BY <1>1 DEF TelegramTypeOK, TelegramInit, BotInv
<1>3. PollInv
  BY <1>1, <1>a DEF PollInv, TelegramInit, BotInit, Presses
<1>4. TriedInv
  BY <1>1, <1>a DEF TriedInv, TelegramInit, BotInit, Presses
<1>5. CountInv
  BY <1>1, <1>a DEF CountInv, TelegramInit, BotInit
<1>6. BatchInv
  BY <1>1, <1>a DEF BatchInv, Deciding, TelegramInit, BotInit
<1>7. Undoing = {}
  BY <1>1 DEF BotInit, Undoing
<1>8. DropInv
  BY <1>1, <1>7, FS_EmptySet DEF DropInv, TelegramInit, BotInit
<1>9. QED
  BY <1>1, <1>2, <1>3, <1>4, <1>5, <1>6, <1>8 DEF TelegramInv

LEMMA StepTelegram == TelegramInv /\ [TelegramNext]_telegramVars => TelegramInv'
BY StepTelegramTypes, StepPoll, StepTried, StepCount, StepBatches, StepDrop DEF TelegramInv

LEMMA AlwaysTelegram == TelegramSpec => []TelegramInv
BY InitTelegram, StepTelegram, PTL DEF TelegramSpec

(* The tables, the poll threads and what Telegram holds keep their types.  *)
THEOREM TelegramTypeCorrect == TelegramSpec => []TelegramTypeOK
<1>1. TelegramInv => TelegramTypeOK
  BY DEF TelegramInv
<1>2. QED
  BY <1>1, AlwaysTelegram, PTL

(* Whatever crashes or fails, and whoever holds the lock: what Telegram    *)
(* has forgotten was taken up, an update is acted on once and once more    *)
(* per fault, and so is a review; a stop of nothing leaves an empty run    *)
(* behind only where its handler was cut off.                              *)
THEOREM TelegramActsOnce == TelegramSpec => []ActedOnOncePerFault
<1>1. TelegramInv => ActedOnOncePerFault
  <2> SUFFICES ASSUME TelegramInv, NEW x \in 1..arrived
               PROVE  /\ x <= confirmed => tried[x] > 0
                      /\ queued[x] <= 1 + faults
                      /\ \A s \in Steps : batches[s] + (IF review[s] = "failed" THEN 1 ELSE 0) <= 1 + faults
                      /\ EmptyRunsAreDropped
    BY DEF ActedOnOncePerFault
  <2>1. /\ PollInv /\ TriedInv /\ CountInv /\ BatchInv /\ DropInv
        /\ lastId \in Nat /\ confirmed \in Nat /\ arrived \in Nat /\ arrived \in Presses \union {0}
        /\ faults \in Nat
    BY TelegramTypes DEF TelegramInv, PollInv
  <2>2. batches \in [Steps -> Nat] /\ queued \in [Presses -> Nat]
    BY TelegramTypes DEF BotTypeOK
  <2>3. x \in Presses
    BY <2>1 DEF Presses
  <2>4. x <= confirmed => tried[x] > 0
    <3>1. confirmed <= lastId
      BY <2>1 DEF PollInv
    <3>2. x <= confirmed => x <= lastId
      BY <2>1, <2>3, <3>1 DEF Presses
    <3>3. QED
      BY <2>1, <2>3, <3>2 DEF TriedInv
  <2>5. queued[x] <= 1 + faults
    BY <2>1, <2>2, <2>3 DEF CountInv
  <2>6. ASSUME NEW s \in Steps
        PROVE  batches[s] + (IF review[s] = "failed" THEN 1 ELSE 0) <= 1 + faults
    <3>1. batches[s] \in Nat /\ batches[s] <= faults + 1
          /\ (review[s] = "running" \/ Linking(s) \/ batches[s] <= faults)
      BY <2>1, <2>2 DEF BatchInv
    <3>2. Linking(s) => review[s] = "awaiting_review"
      BY <2>1 DEF Linking, BatchInv, Deciding
    <3>3. CASE review[s] = "failed"
      BY <2>1, <3>1, <3>2, <3>3
    <3>4. CASE review[s] # "failed"
      BY <2>1, <3>1, <3>4
    <3>5. QED
      BY <3>3, <3>4
  <2>7. EmptyRunsAreDropped
    BY <2>1 DEF DropInv, EmptyRunsAreDropped, Undoing
  <2>8. QED
    BY <2>4, <2>5, <2>6, <2>7
<1>2. QED
  BY <1>1, AlwaysTelegram, PTL
-----------------------------------------------------------------------------
(* Discord: a session is held by one gateway, an interaction is in one     *)
(* place.                                                                  *)

(* Interactions arrive over a session.  As long as no two were held at     *)
(* once, the one that is held is ahead of everything that was handed over. *)
LinkInv ==
  /\ \A g \in Gateways : link[g] = "ready" => session[g]
  /\ ~doubled => \A g, h \in Gateways : session[g] /\ session[h] => g = h
  /\ ~doubled => \A g \in Gateways : session[g] => \A x \in taken : x <= seq[g]

(* What threads and the pool have in hand was handed over, and a gateway   *)
(* works on what it reads.                                                 *)
ReadInv ==
  /\ \A x \in 1..sent : button[x] \in Buttons
  /\ \A a \in Actors : at[a] # "idle" => a \in Gateways \union PoolThreads /\ on[a] \in taken
  /\ \A g \in Gateways : at[g] # "idle" => reading[g] = on[g]
  /\ \A g \in Gateways : reading[g] # Nothing => reading[g] \in taken
  /\ \A i \in 1..Len(deferred) : deferred[i] \in taken

(* Thread a may still write for interaction x.                             *)
Has(a, x) ==
  \/ a \in Gateways /\ reading[a] = x /\ at[a] \in {"idle", "check", "write"}
  \/ a \in PoolThreads /\ on[a] = x /\ at[a] \in {"check", "write"}

(* It is in the i-th place of the pool's queue.                            *)
Waits(i, x) == i \in 1..Len(deferred) /\ deferred[i] = x

(* As long as no two sessions were held at once, an interaction has one    *)
(* thread or one place in the pool's queue, and none once it was acted on. *)
OnePlace(x) ==
  /\ \A a, c \in Actors : Has(a, x) /\ Has(c, x) => a = c
  /\ \A i, j \in Nat : Waits(i, x) /\ Waits(j, x) => i = j
  /\ \A i \in Nat, a \in Actors : Waits(i, x) => ~Has(a, x)
  /\ queued[x] <= 1 /\ (x \notin taken => queued[x] = 0)
  /\ queued[x] = 1 => /\ \A a \in Actors : ~Has(a, x)
                     /\ \A i \in Nat : ~Waits(i, x)
PlaceInv == ~doubled => \A x \in Presses : OnePlace(x)

DiscordInv ==
  DiscordTypeOK /\ BotInv /\ LinkInv /\ ReadInv /\ PlaceInv /\ NoInteractionLost

GatewayStep ==
  \/ \E g \in Gateways : Runs(g) \/ Trouble(g)
  \/ StopGateway \/ Switch \/ Interact \/ ProcessDies

LEMMA GatewayKeepsTypes ==
  ASSUME GatewayTypeOK, GatewayStep
  PROVE  GatewayTypeOK'
<1>0. /\ switchedOn \in BOOLEAN /\ doubled \in BOOLEAN
      /\ active \in Gateways \union {NoGateway} /\ NoGateway \notin Gateways
      /\ link \in [Gateways -> Links]
      /\ stopEvent \in [Gateways -> BOOLEAN] /\ session \in [Gateways -> BOOLEAN]
      /\ beat \in [Gateways -> {"off", "wait", "sending"}]
      /\ beatSent \in [Gateways -> BOOLEAN] /\ owed \in [Gateways -> BOOLEAN]
      /\ seq \in [Gateways -> 0..MaxInteractions] /\ reading \in [Gateways -> 0..MaxInteractions]
      /\ sent \in 0..MaxInteractions /\ taken \subseteq 1..sent /\ missed \subseteq 1..sent
      /\ \A g \in Gateways : session[g] => seq[g] <= sent
      /\ MaxInteractions \in Nat
  BY GatewayAssumption DEF GatewayTypeOK
<1>a. \A g \in Gateways : Uncovered(g) \subseteq 1..sent
  BY <1>0 DEF Uncovered
<1>1. ASSUME NEW g \in Gateways, StartGateway(g) PROVE GatewayTypeOK'
  BY <1>0, <1>1 DEF StartGateway, GatewayTypeOK, Links, Open, Put, sessionVars, worldVars
<1>2. ASSUME NEW g \in Gateways, Connect(g) \/ ConnectFails(g) \/ Retry(g) \/ Hello(g) PROVE GatewayTypeOK'
  <2>1. CASE Connect(g) \/ ConnectFails(g) \/ Retry(g)
    <3>1. UNCHANGED <<switchedOn, active, stopEvent, beat, beatSent, owed, sessionVars, reading, sent, taken, missed,
                      doubled>>
      BY <2>1 DEF Connect, ConnectFails, Retry, worldVars
    <3>2. link' \in [Gateways -> Links]
      BY <1>0, <2>1 DEF Connect, ConnectFails, Retry, Put, Links, Open
    <3>3. QED
      BY <1>0, <3>1, <3>2 DEF GatewayTypeOK, sessionVars
  <2>2. CASE Hello(g)
    BY <1>0, <2>2 DEF Hello, GatewayTypeOK, Links, Open, Put, sessionVars, worldVars
  <2>3. QED
    BY <1>2, <2>1, <2>2
<1>3. ASSUME NEW g \in Gateways, Closed(g) PROVE GatewayTypeOK'
  BY <1>0, <1>a, <1>3 DEF Closed, Silence, GiveUp, Nothing, GatewayTypeOK, Links, Open, Put, sessionVars
<1>4. ASSUME NEW g \in Gateways, Finish(g) PROVE GatewayTypeOK'
  BY <1>0, <1>a, <1>4 DEF Finish, Silence, GiveUp, Nothing, GatewayTypeOK, Links, Open, Put
<1>5. ASSUME NEW g \in Gateways, Ready(g) PROVE GatewayTypeOK'
  BY <1>0, <1>5 DEF Ready, GetReady, GatewayTypeOK, Links, Open, Put
<1>6. ASSUME NEW g \in Gateways, Resumed(g) PROVE GatewayTypeOK'
  BY <1>0, <1>6 DEF Resumed, ResumesFrom, GetReady, GatewayTypeOK, Links, Open, Put
<1>7. ASSUME NEW g \in Gateways, InvalidSession(g) PROVE GatewayTypeOK'
  <2>1. /\ missed' = missed \union Uncovered(g)
        /\ session' = [session EXCEPT ![g] = FALSE] /\ seq' = [seq EXCEPT ![g] = 0]
        /\ UNCHANGED <<switchedOn, active, link, beat, beatSent, owed, stopEvent, reading, sent, taken, doubled>>
    BY <1>7 DEF InvalidSession, GiveUp, Nothing, Put, socketVars
  <2>2. missed' \subseteq 1..sent
    BY <1>0, <1>a, <2>1
  <2>3. session' \in [Gateways -> BOOLEAN] /\ ~session'[g] /\ \A h \in Gateways \ {g} : session'[h] = session[h]
    BY <1>0, <2>1
  <2>4. seq' \in [Gateways -> 0..MaxInteractions] /\ \A h \in Gateways \ {g} : seq'[h] = seq[h]
    BY <1>0, <2>1
  <2>5. QED
    BY <1>0, <2>1, <2>2, <2>3, <2>4 DEF GatewayTypeOK
<1>8. ASSUME NEW g \in Gateways, Deliver(g) PROVE GatewayTypeOK'
  <2>1. seq[g] \in Nat /\ sent \in Nat /\ seq[g] + 1 \in 1..sent /\ seq[g] + 1 \in 0..MaxInteractions
    BY <1>0, <1>8 DEF Deliver
  <2>2. QED
    <3>1. /\ seq' = [seq EXCEPT ![g] = seq[g] + 1] /\ reading' = [reading EXCEPT ![g] = seq[g] + 1]
          /\ taken' = taken \union {seq[g] + 1}
          /\ UNCHANGED <<switchedOn, active, link, beat, beatSent, owed, stopEvent, session, sent, missed, doubled>>
      BY <1>8 DEF Deliver, Put, socketVars
    <3>2. seq' \in [Gateways -> 0..MaxInteractions] /\ reading' \in [Gateways -> 0..MaxInteractions]
      BY <1>0, <2>1, <3>1
    <3>3. taken' \subseteq 1..sent
      BY <1>0, <2>1, <3>1
    <3>4. \A h \in Gateways : session[h] => seq'[h] <= sent
      <4>1. seq[g] + 1 <= sent
        BY <2>1
      <4>2. QED
        BY <1>0, <3>1, <4>1
    <3>5. QED
      BY <1>0, <3>1, <3>2, <3>3, <3>4 DEF GatewayTypeOK
<1>9. ASSUME NEW g \in Gateways, Acknowledge(g) \/ SendBeat(g) \/ MarkBeat(g) PROVE GatewayTypeOK'
  <2>1. UNCHANGED <<switchedOn, active, link, stopEvent, session, seq, reading, sent, taken, missed, doubled>>
    BY <1>9 DEF Acknowledge, SendBeat, MarkBeat, sessionVars, worldVars
  <2>2. /\ beat' \in [Gateways -> {"off", "wait", "sending"}]
        /\ beatSent' \in [Gateways -> BOOLEAN] /\ owed' \in [Gateways -> BOOLEAN]
    BY <1>0, <1>9 DEF Acknowledge, SendBeat, MarkBeat, Put
  <2>3. QED
    BY <1>0, <2>1, <2>2 DEF GatewayTypeOK
<1>10. ASSUME NEW g \in Gateways, CloseZombie(g) \/ Lose(g) PROVE GatewayTypeOK'
  <2>1. /\ link' = [link EXCEPT ![g] = "closing"] /\ Silence(g)
        /\ UNCHANGED <<switchedOn, active, stopEvent, sessionVars, reading, sent, taken, missed, doubled>>
    BY <1>10 DEF CloseZombie, Lose, Put
  <2>2. QED
    BY <1>0, <2>1 DEF Silence, GatewayTypeOK, Links, Open, Put, sessionVars
<1>11. CASE StopGateway
  BY <1>0, <1>11 DEF StopGateway, Silence, GatewayTypeOK, Put, sessionVars, worldVars
<1>12. CASE Switch
  BY <1>0, <1>12 DEF Switch, GatewayTypeOK, socketVars, sessionVars
<1>13. CASE Interact
  <2>1. sent' = sent + 1 /\ sent' \in 0..MaxInteractions /\ 1..sent \subseteq 1..sent' /\ sent + 1 \in 1..sent'
    BY <1>0, <1>13 DEF Interact
  <2>2. missed' \subseteq 1..sent' /\ taken' \subseteq 1..sent'
    BY <1>0, <1>13, <2>1 DEF Interact
  <2>3. \A g \in Gateways : session'[g] => seq'[g] <= sent'
    BY <1>0, <1>13, <2>1 DEF Interact, sessionVars
  <2>4. QED
    BY <1>0, <1>13, <2>1, <2>2, <2>3 DEF Interact, GatewayTypeOK, socketVars, sessionVars
<1>14. CASE ProcessDies
  <2>1. missed' \subseteq 1..sent
    <3>1. UNION {Uncovered(g) : g \in Gateways} \subseteq 1..sent
      BY <1>a
    <3>2. missed' = missed \union UNION {Uncovered(g) : g \in Gateways}
      BY <1>14 DEF ProcessDies
    <3>3. QED
      BY <1>0, <3>1, <3>2
  <2>2. link' \in [Gateways -> Links]
    BY <1>0, <1>14 DEF ProcessDies, Links, Open
  <2>3. /\ stopEvent' \in [Gateways -> BOOLEAN] /\ beat' \in [Gateways -> {"off", "wait", "sending"}]
        /\ beatSent' \in [Gateways -> BOOLEAN] /\ owed' \in [Gateways -> BOOLEAN]
        /\ session' \in [Gateways -> BOOLEAN] /\ \A g \in Gateways : ~session'[g]
    BY <1>14 DEF ProcessDies
  <2>4. seq' \in [Gateways -> 0..MaxInteractions] /\ reading' \in [Gateways -> 0..MaxInteractions]
    BY <1>0, <1>14 DEF ProcessDies, Nothing
  <2>5. UNCHANGED <<switchedOn, sent, taken, doubled>> /\ active' = NoGateway
    BY <1>14 DEF ProcessDies
  <2>6. QED
    BY <1>0, <2>1, <2>2, <2>3, <2>4, <2>5 DEF GatewayTypeOK
<1>15. QED
  BY <1>1, <1>2, <1>3, <1>4, <1>5, <1>6, <1>7, <1>8, <1>9, <1>10, <1>11, <1>12, <1>13, <1>14
     DEF GatewayStep, Runs, Trouble

LEMMA GatewayKeepsSessions ==
  ASSUME GatewayTypeOK, LinkInv, GatewayStep
  PROVE  LinkInv'
<1>0. /\ link \in [Gateways -> Links] /\ session \in [Gateways -> BOOLEAN]
      /\ seq \in [Gateways -> 0..MaxInteractions] /\ doubled \in BOOLEAN
      /\ sent \in Nat /\ taken \subseteq 1..sent /\ MaxInteractions \in Nat
  BY GatewayAssumption DEF GatewayTypeOK
<1>1. ASSUME NEW g \in Gateways, StartGateway(g) PROVE LinkInv'
  BY <1>0, <1>1 DEF StartGateway, LinkInv, Put, sessionVars, worldVars
<1>2. ASSUME NEW g \in Gateways, Connect(g) \/ ConnectFails(g) \/ Retry(g) \/ Hello(g) PROVE LinkInv'
  BY <1>0, <1>2 DEF Connect, ConnectFails, Retry, Hello, LinkInv, Put, sessionVars, worldVars
<1>3. ASSUME NEW g \in Gateways, Closed(g) PROVE LinkInv'
  BY <1>0, <1>3 DEF Closed, GiveUp, LinkInv, Put, sessionVars
<1>4. ASSUME NEW g \in Gateways, Finish(g) PROVE LinkInv'
  BY <1>0, <1>4 DEF Finish, GiveUp, LinkInv, Put
<1>5. ASSUME NEW g \in Gateways, Ready(g) PROVE LinkInv'
  <2>1. \A x \in taken : x <= sent
    BY <1>0
  <2>2. QED
    BY <1>0, <1>5, <2>1 DEF Ready, GetReady, LinkInv, Put
<1>6. ASSUME NEW g \in Gateways, Resumed(g) PROVE LinkInv'
  BY <1>0, <1>6 DEF Resumed, ResumesFrom, GetReady, LinkInv, Put
<1>7. ASSUME NEW g \in Gateways, InvalidSession(g) PROVE LinkInv'
  BY <1>0, <1>7 DEF InvalidSession, GiveUp, LinkInv, Put, socketVars
<1>8. ASSUME NEW g \in Gateways, Deliver(g) PROVE LinkInv'
  BY <1>0, <1>8 DEF Deliver, LinkInv, Put, socketVars
<1>9. ASSUME NEW g \in Gateways, Acknowledge(g) \/ SendBeat(g) \/ MarkBeat(g) PROVE LinkInv'
  BY <1>0, <1>9 DEF Acknowledge, SendBeat, MarkBeat, LinkInv, sessionVars, worldVars
<1>10. ASSUME NEW g \in Gateways, CloseZombie(g) \/ Lose(g) PROVE LinkInv'
  BY <1>0, <1>10 DEF CloseZombie, Lose, LinkInv, Put, sessionVars
<1>11. CASE StopGateway
  BY <1>0, <1>11 DEF StopGateway, LinkInv, sessionVars, worldVars
<1>12. CASE Switch
  BY <1>0, <1>12 DEF Switch, LinkInv, socketVars, sessionVars
<1>13. CASE Interact
  BY <1>0, <1>13 DEF Interact, LinkInv, socketVars, sessionVars
<1>14. CASE ProcessDies
  BY <1>0, <1>14 DEF ProcessDies, LinkInv
<1>15. QED
  BY <1>1, <1>2, <1>3, <1>4, <1>5, <1>6, <1>7, <1>8, <1>9, <1>10, <1>11, <1>12, <1>13, <1>14
     DEF GatewayStep, Runs, Trouble

(* A session that is given up leaves its interactions to the missed ones.  *)
LEMMA GatewayLosesNothing ==
  ASSUME GatewayTypeOK, NoInteractionLost, GatewayStep
  PROVE  NoInteractionLost'
<1>0. /\ session \in [Gateways -> BOOLEAN] /\ seq \in [Gateways -> 0..MaxInteractions]
      /\ \A g \in Gateways : seq[g] \in Nat
      /\ sent \in Nat /\ taken \subseteq 1..sent /\ MaxInteractions \in Nat
      /\ \A g \in Gateways : session[g] => seq[g] <= sent
  BY GatewayAssumption DEF GatewayTypeOK
<1>a. ASSUME sent' = sent, taken \subseteq taken', missed \subseteq missed',
             \A g \in Gateways, x \in 1..sent :
               session[g] /\ seq[g] < x => x \in missed' \union taken' \/ (session'[g] /\ seq'[g] < x)
      PROVE  NoInteractionLost'
  BY <1>a DEF NoInteractionLost
<1>b. ASSUME NEW g \in Gateways, GiveUp(g), sent' = sent, taken' = taken PROVE NoInteractionLost'
  <2>1. \A x \in 1..sent : session[g] /\ seq[g] < x => x \in Uncovered(g)
    BY <1>0 DEF Uncovered
  <2>2. \A h \in Gateways \ {g} : session'[h] = session[h] /\ seq'[h] = seq[h]
    BY <1>0, <1>b DEF GiveUp, Put
  <2>3. missed' = missed \union Uncovered(g)
    BY <1>b DEF GiveUp
  <2>4. QED
    BY <1>a, <1>b, <2>1, <2>2, <2>3
<1>c. ASSUME UNCHANGED <<session, seq, sent, taken, missed>> PROVE NoInteractionLost'
  BY <1>c DEF NoInteractionLost
<1>1. ASSUME NEW g \in Gateways,
             StartGateway(g) \/ Connect(g) \/ ConnectFails(g) \/ Retry(g) \/ Hello(g) \/ Acknowledge(g)
               \/ SendBeat(g) \/ MarkBeat(g) \/ CloseZombie(g) \/ Lose(g)
      PROVE  NoInteractionLost'
  BY <1>c, <1>1 DEF StartGateway, Connect, ConnectFails, Retry, Hello, Acknowledge, SendBeat, MarkBeat, CloseZombie,
                    Lose, sessionVars, worldVars
<1>3. ASSUME NEW g \in Gateways, Closed(g) PROVE NoInteractionLost'
  BY <1>b, <1>c, <1>3 DEF Closed, sessionVars
<1>4. ASSUME NEW g \in Gateways, Finish(g) PROVE NoInteractionLost'
  BY <1>b, <1>4 DEF Finish
<1>5. ASSUME NEW g \in Gateways, Ready(g) PROVE NoInteractionLost'
  BY <1>0, <1>a, <1>5 DEF Ready, Put
<1>6. ASSUME NEW g \in Gateways, Resumed(g) PROVE NoInteractionLost'
  BY <1>0, <1>a, <1>6 DEF Resumed, ResumesFrom, Put
<1>7. ASSUME NEW g \in Gateways, InvalidSession(g) PROVE NoInteractionLost'
  BY <1>b, <1>7 DEF InvalidSession
<1>8. ASSUME NEW g \in Gateways, Deliver(g) PROVE NoInteractionLost'
  <2>1. /\ sent' = sent /\ missed' = missed /\ session' = session /\ taken' = taken \union {seq[g] + 1}
        /\ seq' = [seq EXCEPT ![g] = seq[g] + 1]
    BY <1>8 DEF Deliver, Put
  <2>2. ASSUME NEW h \in Gateways, NEW x \in 1..sent, session[h], seq[h] < x
        PROVE  x \in missed' \union taken' \/ (session'[h] /\ seq'[h] < x)
    <3>1. CASE h = g
      BY <1>0, <2>1, <2>2, <3>1
    <3>2. CASE h # g
      BY <1>0, <2>1, <2>2, <3>2
    <3>3. QED
      BY <3>1, <3>2
  <2>3. QED
    BY <1>a, <2>1, <2>2
<1>11. CASE StopGateway \/ Switch
  BY <1>c, <1>11 DEF StopGateway, Switch, sessionVars, worldVars
<1>13. CASE Interact
  <2>1. /\ UNCHANGED <<session, seq, taken>> /\ sent' = sent + 1
        /\ missed \subseteq missed'
        /\ (\E g \in Gateways : session[g]) \/ sent + 1 \in missed'
    BY <1>13 DEF Interact, sessionVars
  <2>2. ASSUME NEW x \in 1..sent'
        PROVE  x \in taken' \union missed' \/ \E g \in Gateways : session'[g] /\ seq'[g] < x
    <3>1. CASE x = sent + 1
      BY <1>0, <2>1, <3>1
    <3>2. CASE x # sent + 1
      <4>1. x \in 1..sent
        BY <1>0, <2>1, <3>2
      <4>2. QED
        BY <2>1, <4>1 DEF NoInteractionLost
    <3>3. QED
      BY <3>1, <3>2
  <2>3. QED
    BY <2>2 DEF NoInteractionLost
<1>14. CASE ProcessDies
  <2>1. \A g \in Gateways, x \in 1..sent : session[g] /\ seq[g] < x => x \in Uncovered(g)
    BY <1>0 DEF Uncovered
  <2>2. QED
    BY <1>a, <1>14, <2>1 DEF ProcessDies
<1>15. QED
  BY <1>1, <1>3, <1>4, <1>5, <1>6, <1>7, <1>8, <1>11, <1>13, <1>14 DEF GatewayStep, Runs, Trouble
(* The steps of Discord, one disjunct for each kind.                       *)
SocketStep ==
  /\ (\E g \in Gateways : Runs(g) \/ Trouble(g)) \/ StopGateway \/ Switch
  /\ UNCHANGED <<botVars, deferred>>

LEMMA DiscordCases ==
  ASSUME [DiscordNext]_discordVars
  PROVE  \/ \E g \in Gateways : OnDispatch(g) \/ HandleInteraction(g) \/ Defer(g) \/ EndDispatch(g)
         \/ \E t \in PoolThreads : RunDeferred(t) \/ ConfirmBuild(t) \/ EndDeferred(t)
         \/ \E a \in Gateways \union PoolThreads : WriteOn(a)
         \/ \E a \in Actors : DispatchFails(a)
         \/ SocketStep \/ Pick \/ Dies
         \/ World /\ UNCHANGED <<gatewayVars, deferred>>
         \/ UNCHANGED discordVars
  BY DEF DiscordNext, Handles, Pools, Socket, SocketStep

LEMMA DiscordTypes ==
  ASSUME DiscordInv
  PROVE  /\ BotTypeOK /\ BotInv /\ GatewayTypeOK /\ LinkInv /\ ReadInv /\ PlaceInv /\ NoInteractionLost /\ WorkInv
         /\ at \in [Actors -> {"idle", "check", "write", "link", "undo", "done"}]
         /\ on \in [Actors -> Presses \union {NoPress}]
         /\ targets \in [Actors -> SUBSET (Things \union Steps)]
         /\ button \in [Presses -> Buttons \union {NoButton}]
         /\ queued \in [Presses -> Nat]
         /\ reading \in [Gateways -> 0..MaxInteractions]
         /\ taken \subseteq 1..sent /\ sent \in Nat /\ 1..sent \subseteq Presses
         /\ deferred \in Seq(Presses)
         /\ Gateways \subseteq Actors /\ PoolThreads \subseteq Actors /\ Gateways \intersect PoolThreads = {}
         /\ NoPress = 0 /\ Nothing = 0
<1>1. DiscordTypeOK /\ BotInv /\ LinkInv /\ ReadInv /\ PlaceInv /\ NoInteractionLost
  BY DEF DiscordInv
<1>2. BotTypeOK /\ GatewayTypeOK /\ WorkInv
  BY <1>1 DEF DiscordTypeOK, BotInv
<1>3. sent \in 0..MaxInteractions /\ taken \subseteq 1..sent
  BY <1>2 DEF GatewayTypeOK
<1>4. sent \in Nat /\ 1..sent \subseteq Presses
  BY <1>3, GatewayAssumption, DiscordAssumption DEF Presses
<1>5. Gateways \subseteq Actors /\ PoolThreads \subseteq Actors /\ Gateways \intersect PoolThreads = {}
  BY DiscordAssumption
<1>6. QED
  BY <1>1, <1>2, <1>3, <1>4, <1>5 DEF DiscordTypeOK, BotTypeOK, GatewayTypeOK, NoPress, Nothing

LEMMA SocketReads ==
  ASSUME SocketStep
  PROVE  /\ sent' = sent /\ (doubled => doubled')
         /\ UNCHANGED <<reading, taken>> \/ \E g \in Gateways : Deliver(g)
<1>1. ASSUME NEW g \in Gateways, Ready(g) \/ Resumed(g)
      PROVE  sent' = sent /\ (doubled => doubled') /\ UNCHANGED <<reading, taken>>
  BY <1>1 DEF Ready, Resumed, GetReady
<1>2. ASSUME NEW g \in Gateways, StartGateway(g) \/ Connect(g) \/ Retry(g) \/ Hello(g) \/ Acknowledge(g)
                                  \/ SendBeat(g) \/ MarkBeat(g)
      PROVE  sent' = sent /\ doubled' = doubled /\ UNCHANGED <<reading, taken>>
  BY <1>2 DEF StartGateway, Connect, Retry, Hello, Acknowledge, SendBeat, MarkBeat, worldVars
<1>3. ASSUME NEW g \in Gateways, Closed(g) \/ Finish(g) \/ CloseZombie(g) \/ ConnectFails(g) \/ InvalidSession(g)
                                  \/ Lose(g)
      PROVE  sent' = sent /\ doubled' = doubled /\ UNCHANGED <<reading, taken>>
  BY <1>3 DEF Closed, Finish, CloseZombie, ConnectFails, InvalidSession, Lose
<1>4. ASSUME NEW g \in Gateways, Deliver(g) PROVE sent' = sent /\ doubled' = doubled
  BY <1>4 DEF Deliver
<1>5. CASE StopGateway \/ Switch
  <2>1. sent' = sent /\ doubled' = doubled /\ UNCHANGED <<reading, taken>>
    BY <1>5 DEF StopGateway, Switch, worldVars
  <2>2. QED
    BY <2>1
<1>6. ASSUME NEW g \in Gateways, Runs(g) \/ Trouble(g)
      PROVE  /\ sent' = sent /\ (doubled => doubled')
             /\ UNCHANGED <<reading, taken>> \/ Deliver(g)
  BY <1>1, <1>2, <1>3, <1>4, <1>6, ZenonT(30) DEF Runs, Trouble
<1>7. QED
  BY <1>5, <1>6, ZenonT(30) DEF SocketStep

(* Handlers leave the connections alone. *)
HandlerStep == UNCHANGED <<switchedOn, active, link, beat, beatSent, owed, stopEvent, session, seq, sent, taken, missed,
                           doubled>>

LEMMA HandlersKeepGateways ==
  ASSUME GatewayTypeOK, LinkInv, NoInteractionLost, HandlerStep, reading' \in [Gateways -> 0..MaxInteractions]
  PROVE  GatewayTypeOK' /\ LinkInv' /\ NoInteractionLost'
<1>1. GatewayTypeOK'
  BY DEF HandlerStep, GatewayTypeOK
<1>2. LinkInv'
  BY DEF HandlerStep, LinkInv
<1>3. NoInteractionLost'
  BY DEF HandlerStep, NoInteractionLost
<1>4. QED
  BY <1>1, <1>2, <1>3

LEMMA StepGateways ==
  ASSUME DiscordInv, [DiscordNext]_discordVars
  PROVE  GatewayTypeOK' /\ LinkInv' /\ NoInteractionLost'
<1>0. GatewayTypeOK /\ LinkInv /\ NoInteractionLost /\ reading \in [Gateways -> 0..MaxInteractions]
  BY DiscordTypes
<1>a. HandlerStep /\ reading' = reading => GatewayTypeOK' /\ LinkInv' /\ NoInteractionLost'
  BY <1>0, HandlersKeepGateways
<1>b. UNCHANGED gatewayVars => HandlerStep /\ reading' = reading
  BY DEF HandlerStep, gatewayVars, socketVars, sessionVars, worldVars
<1>c. GatewayStep => GatewayTypeOK' /\ LinkInv' /\ NoInteractionLost'
  BY <1>0, GatewayKeepsTypes, GatewayKeepsSessions, GatewayLosesNothing
<1>1. ASSUME NEW g \in Gateways, OnDispatch(g) \/ HandleInteraction(g) \/ Defer(g) PROVE UNCHANGED gatewayVars
  BY <1>1 DEF OnDispatch, HandleInteraction, Defer
<1>2. ASSUME NEW g \in Gateways, EndDispatch(g) PROVE GatewayTypeOK' /\ LinkInv' /\ NoInteractionLost'
  <2>1. HandlerStep
    BY <1>2 DEF EndDispatch, HandlerStep, socketVars, sessionVars, worldVars
  <2>2. reading' \in [Gateways -> 0..MaxInteractions]
    BY <1>0, <1>2, GatewayAssumption DEF EndDispatch, Put, Nothing
  <2>3. QED
    BY <1>0, <2>1, <2>2, HandlersKeepGateways
<1>3. ASSUME NEW t \in PoolThreads, RunDeferred(t) \/ ConfirmBuild(t) \/ EndDeferred(t) PROVE UNCHANGED gatewayVars
  BY <1>3 DEF RunDeferred, ConfirmBuild, EndDeferred
<1>4. ASSUME NEW a \in Gateways \union PoolThreads, WriteOn(a) PROVE UNCHANGED gatewayVars
  BY <1>4 DEF WriteOn
<1>5. ASSUME NEW a \in Actors, DispatchFails(a) PROVE HandlerStep /\ reading' = reading
  BY <1>5 DEF DispatchFails, HandlerStep, socketVars, sessionVars
<1>6. CASE SocketStep
  BY <1>6, <1>c DEF SocketStep, GatewayStep
<1>7. CASE Pick \/ Dies
  BY <1>7, <1>c DEF Pick, Dies, GatewayStep
<1>8. CASE UNCHANGED discordVars
  BY <1>8, <1>a, <1>b DEF discordVars
<1>9. QED
  BY <1>a, <1>b, <1>1, <1>2, <1>3, <1>4, <1>5, <1>6, <1>7, <1>8, DiscordCases

(* A delivery finds the gateway with nothing to do. *)
LEMMA DeliverDoes ==
  ASSUME DiscordInv, NEW g \in Gateways, Deliver(g)
  PROVE  /\ at[g] = "idle" /\ reading[g] = 0 /\ session[g] /\ seq[g] + 1 \in 1..sent
         /\ reading' = [reading EXCEPT ![g] = seq[g] + 1] /\ taken' = taken \union {seq[g] + 1}
         /\ doubled' = doubled
         /\ ~doubled => seq[g] + 1 \notin taken
<1>1. /\ GatewayTypeOK /\ LinkInv /\ ReadInv /\ taken \subseteq 1..sent /\ sent \in Nat /\ g \in Actors /\ Nothing = 0
  BY DiscordTypes
<1>2. reading[g] = 0 /\ seq[g] < sent /\ link[g] = "ready"
  BY <1>1 DEF Deliver
<1>3. at[g] = "idle"
  BY <1>1, <1>2 DEF ReadInv
<1>4. session[g]
  BY <1>1, <1>2 DEF LinkInv
<1>5. seq[g] \in Nat
  BY <1>1, GatewayAssumption DEF GatewayTypeOK
<1>6. seq[g] + 1 \in 1..sent
  BY <1>1, <1>2, <1>5
<1>7. ~doubled => \A x \in taken : x <= seq[g]
  BY <1>1, <1>4 DEF LinkInv
<1>8. ~doubled => seq[g] + 1 \notin taken
  BY <1>5, <1>7
<1>9. QED
  BY <1>2, <1>3, <1>4, <1>6, <1>8 DEF Deliver, Put

LEMMA StepReads ==
  ASSUME DiscordInv, [DiscordNext]_discordVars
  PROVE  ReadInv'
<1>0. /\ ReadInv /\ WorkInv
      /\ at \in [Actors -> {"idle", "check", "write", "link", "undo", "done"}]
      /\ on \in [Actors -> Presses \union {NoPress}]
      /\ button \in [Presses -> Buttons \union {NoButton}]
      /\ reading \in [Gateways -> 0..MaxInteractions]
      /\ taken \subseteq 1..sent /\ sent \in Nat /\ 1..sent \subseteq Presses
      /\ deferred \in Seq(Presses)
      /\ Gateways \subseteq Actors /\ PoolThreads \subseteq Actors /\ Gateways \intersect PoolThreads = {}
      /\ NoPress = 0 /\ Nothing = 0
  BY DiscordTypes
<1>a. ASSUME UNCHANGED <<sent, taken, button>>,
             deferred' = deferred \/ deferred' = Tail(deferred) \/
               \E g \in Gateways : at[g] # "idle" /\ deferred' = Append(deferred, on[g]),
             \A a \in Actors : at'[a] # "idle" => a \in Gateways \union PoolThreads /\ on'[a] \in taken,
             \A g \in Gateways : at'[g] # "idle" => reading'[g] = on'[g],
             \A g \in Gateways : reading'[g] = reading[g] \/ reading'[g] = 0
      PROVE  ReadInv'
  <2>1. ASSUME NEW i \in 1..Len(deferred') PROVE deferred'[i] \in taken
    <3>1. CASE deferred' = deferred
      BY <1>0, <2>1, <3>1 DEF ReadInv
    <3>2. CASE deferred' = Tail(deferred)
      <4>1. deferred # <<>>
        BY <1>0, <2>1, <3>2
      <4>2. i + 1 \in 1..Len(deferred) /\ deferred'[i] = deferred[i + 1]
        BY <1>0, <2>1, <3>2, <4>1
      <4>3. QED
        BY <1>0, <4>2 DEF ReadInv
    <3>3. ASSUME NEW g \in Gateways, at[g] # "idle", deferred' = Append(deferred, on[g]) PROVE deferred'[i] \in taken
      <4>1. on[g] \in taken
        BY <1>0, <3>3 DEF ReadInv
      <4>2. i \in 1..Len(deferred) \/ deferred'[i] = on[g]
        BY <1>0, <2>1, <3>3
      <4>3. i \in 1..Len(deferred) => deferred'[i] = deferred[i]
        BY <1>0, <3>3
      <4>4. QED
        BY <1>0, <4>1, <4>2, <4>3 DEF ReadInv
    <3>4. QED
      BY <1>a, <3>1, <3>2, <3>3
  <2>2. \A g \in Gateways : reading'[g] # 0 => reading'[g] \in taken
    BY <1>0, <1>a DEF ReadInv
  <2>3. QED
    BY <1>0, <1>a, <2>1, <2>2 DEF ReadInv
<1>1. ASSUME NEW g \in Gateways, OnDispatch(g) PROVE ReadInv'
  <2>1. /\ UNCHANGED <<sent, taken, button, reading, deferred>> /\ reading[g] # 0
        /\ at' = [at EXCEPT ![g] = "check"] /\ on' = [on EXCEPT ![g] = reading[g]]
    BY <1>0, <1>1 DEF OnDispatch, Take, gatewayVars, worldVars
  <2>2. reading[g] \in taken
    BY <1>0, <2>1 DEF ReadInv
  <2>3. QED
    BY <1>0, <1>a, <2>1, <2>2 DEF ReadInv
<1>2. ASSUME NEW g \in Gateways, HandleInteraction(g) PROVE ReadInv'
  <2>1. /\ UNCHANGED <<sent, taken, button, reading, deferred, on>> /\ at[g] # "idle"
        /\ \E where \in {"done", "write"} : at' = [at EXCEPT ![g] = where]
    BY <1>2 DEF HandleInteraction, Decide, Go, gatewayVars, worldVars
  <2>2. QED
    BY <1>0, <1>a, <2>1 DEF ReadInv
<1>3. ASSUME NEW g \in Gateways, Defer(g) PROVE ReadInv'
  <2>1. /\ UNCHANGED <<sent, taken, button, reading, on>> /\ at[g] # "idle"
        /\ at' = [at EXCEPT ![g] = "done"]
        /\ deferred' = deferred \/ deferred' = Append(deferred, on[g])
    BY <1>3 DEF Defer, Go, gatewayVars, worldVars
  <2>2. QED
    BY <1>0, <1>a, <2>1 DEF ReadInv
<1>4. ASSUME NEW g \in Gateways, EndDispatch(g) PROVE ReadInv'
  <2>1. /\ UNCHANGED <<sent, taken, button, deferred>>
        /\ at' = [at EXCEPT ![g] = "idle"] /\ on' = [on EXCEPT ![g] = 0] /\ reading' = [reading EXCEPT ![g] = 0]
    BY <1>0, <1>4 DEF EndDispatch, Release, Put, worldVars
  <2>2. QED
    BY <1>0, <1>a, <2>1 DEF ReadInv
<1>5. ASSUME NEW t \in PoolThreads, RunDeferred(t) PROVE ReadInv'
  <2>1. /\ UNCHANGED <<sent, taken, button, reading>> /\ deferred # <<>> /\ deferred' = Tail(deferred)
        /\ at' = [at EXCEPT ![t] = "check"] /\ on' = [on EXCEPT ![t] = Head(deferred)]
    BY <1>5 DEF RunDeferred, Take, gatewayVars, worldVars
  <2>2. Head(deferred) = deferred[1] /\ 1 \in 1..Len(deferred)
    BY <1>0, <2>1
  <2>3. Head(deferred) \in taken
    BY <1>0, <2>2 DEF ReadInv
  <2>4. QED
    BY <1>0, <1>a, <2>1, <2>3 DEF ReadInv
<1>6. ASSUME NEW t \in PoolThreads, ConfirmBuild(t) PROVE ReadInv'
  <2>1. /\ UNCHANGED <<sent, taken, button, reading, deferred, on>> /\ at[t] # "idle"
        /\ \E where \in {"done", "write"} : at' = [at EXCEPT ![t] = where]
    BY <1>6 DEF ConfirmBuild, Decide, Go, gatewayVars, worldVars
  <2>2. QED
    BY <1>0, <1>a, <2>1 DEF ReadInv
<1>7. ASSUME NEW t \in PoolThreads, EndDeferred(t) PROVE ReadInv'
  <2>1. /\ UNCHANGED <<sent, taken, button, reading, deferred>>
        /\ at' = [at EXCEPT ![t] = "idle"] /\ on' = [on EXCEPT ![t] = 0]
    BY <1>0, <1>7 DEF EndDeferred, Release, gatewayVars, worldVars
  <2>2. QED
    BY <1>0, <1>a, <2>1 DEF ReadInv
<1>8. ASSUME NEW a \in Gateways \union PoolThreads, WriteOn(a) PROVE ReadInv'
  <2>1. /\ UNCHANGED <<sent, taken, button, reading, deferred, on>> /\ at[a] # "idle"
        /\ \E where \in {"link", "undo", "done"} : at' = [at EXCEPT ![a] = where]
    BY <1>8 DEF WriteOn, Write, Enqueue, EnqueueNothing, DropEmptyRun, Approve, BindBatch, Reject, RowGone,
                Settle, HandlerFails, Go, dataVars, gatewayVars, worldVars
  <2>2. QED
    BY <1>0, <1>a, <2>1 DEF ReadInv
<1>9. ASSUME NEW a \in Actors, DispatchFails(a) PROVE ReadInv'
  <2>1. /\ UNCHANGED <<sent, taken, button, reading, deferred, on>> /\ at[a] # "idle"
        /\ at' = [at EXCEPT ![a] = "done"]
    BY <1>9 DEF DispatchFails, HandlerFails, Working, Go
  <2>2. QED
    BY <1>0, <1>a, <2>1 DEF ReadInv
<1>10. CASE SocketStep
  <2>1. UNCHANGED <<at, on, button, deferred>> /\ sent' = sent
    BY <1>10, SocketReads DEF SocketStep, botVars, actorVars
  <2>2. CASE UNCHANGED <<reading, taken>>
    BY <1>0, <2>1, <2>2 DEF ReadInv
  <2>3. ASSUME NEW g \in Gateways, Deliver(g) PROVE ReadInv'
    <3>1. /\ at[g] = "idle" /\ taken' = taken \union {seq[g] + 1} /\ reading' = [reading EXCEPT ![g] = seq[g] + 1]
      BY <2>3, DeliverDoes
    <3>2. \A h \in Gateways : reading'[h] # 0 => reading'[h] \in taken'
      BY <1>0, <3>1 DEF ReadInv
    <3>3. \A h \in Gateways : at'[h] # "idle" => reading'[h] = on'[h]
      BY <1>0, <2>1, <3>1 DEF ReadInv
    <3>4. taken \subseteq taken'
      BY <3>1
    <3>5. QED
      BY <1>0, <2>1, <3>2, <3>3, <3>4 DEF ReadInv
  <2>4. QED
    BY <1>10, <2>2, <2>3, SocketReads
<1>11. CASE Pick
  <2>1. UNCHANGED <<at, on, deferred, reading, taken>> /\ sent' = sent + 1
    BY <1>11 DEF Pick, Interact, actorVars
  <2>2. PICK u \in Users : \E b \in DispatchCommand(u) : button' = [button EXCEPT ![sent + 1] = b]
    BY <1>11 DEF Pick
  <2>3. DispatchCommand(u) \subseteq Buttons
    BY DiscordTypes, CommandsAreButtons DEF BotInv
  <2>4. PICK b \in Buttons : button' = [button EXCEPT ![sent + 1] = b]
    BY <2>2, <2>3
  <2>5. sent + 1 \in Presses
    BY <1>0, <1>11, GatewayAssumption, DiscordAssumption DEF Pick, Interact, Presses
  <2>6. \A x \in 1..(sent + 1) : button'[x] \in Buttons
    BY <1>0, <2>4, <2>5 DEF ReadInv
  <2>7. QED
    BY <1>0, <2>1, <2>6 DEF ReadInv
<1>12. CASE Dies
  <2>1. /\ button' = button /\ sent' = sent /\ taken' = taken
        /\ \A g \in Gateways : reading'[g] = Nothing
        /\ \A a \in Actors : at'[a] = "idle"
    BY <1>12 DEF Dies, ProcessDies
  <2>2. deferred' = <<>>
    BY <1>12 DEF Dies
  <2>3. 1..Len(deferred') = {}
    BY <2>2
  <2>4. QED
    BY <1>0, <2>1, <2>3 DEF ReadInv
<1>13. CASE World /\ UNCHANGED <<gatewayVars, deferred>>
  <2>1. UNCHANGED <<at, on, button, deferred, reading, taken, sent>>
    BY <1>13 DEF World, Disable, Delete, Revoke, Stopped, actorVars, gatewayVars, worldVars
  <2>2. QED
    BY <1>0, <2>1 DEF ReadInv
<1>14. CASE UNCHANGED discordVars
  BY <1>0, <1>14 DEF ReadInv, discordVars, botVars, actorVars, gatewayVars, worldVars
<1>15. QED
  BY <1>1, <1>2, <1>3, <1>4, <1>5, <1>6, <1>7, <1>8, <1>9, <1>10, <1>11, <1>12, <1>13, <1>14, DiscordCases(* An interaction whose places only become fewer, or move up the queue.    *)
LEMMA FewerPlaces ==
  ASSUME NEW x \in Presses, NEW d \in Nat, OnePlace(x), queued'[x] = queued[x], x \in taken => x \in taken',
         \A a \in Actors : Has(a, x)' => Has(a, x),
         \A i \in Nat : Waits(i, x)' => Waits(i + d, x)
  PROVE  OnePlace(x)'
<1>1. \A a, c \in Actors : Has(a, x)' /\ Has(c, x)' => a = c
  BY DEF OnePlace
<1>2. ASSUME NEW i \in Nat, NEW j \in Nat, Waits(i, x)', Waits(j, x)'
      PROVE  i = j
  <2>1. Waits(i + d, x) /\ Waits(j + d, x) /\ i + d \in Nat /\ j + d \in Nat
    BY <1>2
  <2>2. i + d = j + d
    BY <2>1 DEF OnePlace
  <2>3. QED
    BY <2>2
<1>3. \A i \in Nat, a \in Actors : Waits(i, x)' => ~Has(a, x)'
  BY DEF OnePlace
<1>4. queued'[x] <= 1 /\ (x \notin taken' => queued'[x] = 0)
  BY DEF OnePlace
<1>5. queued'[x] = 1 => (\A a \in Actors : ~Has(a, x)') /\ (\A i \in Nat : ~Waits(i, x)')
  BY DEF OnePlace
<1>6. QED
  BY <1>1, <1>2, <1>3, <1>4, <1>5 DEF OnePlace

(* A thread that has not written yet has what it works on.                 *)
LEMMA WorkersHave ==
  ASSUME DiscordInv, NEW a \in Actors, at[a] # "idle"
  PROVE  /\ on[a] \in Presses /\ on[a] \in taken
         /\ a \in Gateways \union PoolThreads
         /\ at[a] \in {"check", "write"} => Has(a, on[a])
<1>1. ReadInv /\ taken \subseteq 1..sent /\ 1..sent \subseteq Presses
  BY DiscordTypes
<1>2. on[a] \in taken /\ a \in Gateways \union PoolThreads /\ (a \in Gateways => reading[a] = on[a])
  BY <1>1 DEF ReadInv
<1>3. QED
  BY <1>1, <1>2 DEF Has

(* Whatever is in a place was handed over.                                 *)
LEMMA PlacesAreTaken ==
  ASSUME DiscordInv, NEW x \in Presses, x \notin taken
  PROVE  (\A a \in Actors : ~Has(a, x)) /\ (\A i \in Nat : ~Waits(i, x))
<1>1. ReadInv /\ Nothing = 0 /\ PoolThreads \subseteq Actors /\ Gateways \subseteq Actors /\ x # 0
  BY DiscordTypes DEF Presses
<1>2. ASSUME NEW a \in Actors, Has(a, x) PROVE FALSE
  BY <1>1, <1>2 DEF ReadInv, Has
<1>3. ASSUME NEW i \in Nat, Waits(i, x) PROVE FALSE
  BY <1>1, <1>3 DEF ReadInv, Waits
<1>4. QED
  BY <1>2, <1>3

(* A write for an interaction is the last thing done for it.               *)
LEMMA WritesLast ==
  ASSUME DiscordInv, NEW a \in Actors, NEW x \in Presses, Enqueue(a) \/ Approve(a),
         UNCHANGED <<reading, taken, deferred>>, OnePlace(x)
  PROVE  OnePlace(x)'
<1>0. /\ at \in [Actors -> {"idle", "check", "write", "link", "undo", "done"}] /\ queued \in [Presses -> Nat]
      /\ Gateways \intersect PoolThreads = {}
  BY DiscordTypes
<1>1. /\ at[a] = "write" /\ on' = on /\ queued' = [queued EXCEPT ![on[a]] = @ + 1]
      /\ \E where \in {"link", "done"} : at' = [at EXCEPT ![a] = where]
  BY DEF Enqueue, Approve, Go
<1>2. on[a] \in Presses /\ on[a] \in taken /\ Has(a, on[a]) /\ a \in Gateways \union PoolThreads
  BY <1>1, WorkersHave
<1>3. \A c \in Actors : Has(c, x)' => Has(c, x) /\ c # a
  BY <1>0, <1>1, <1>2 DEF Has
<1>4. \A i \in Nat : Waits(i, x)' => Waits(i, x)
  BY DEF Waits
<1>5. CASE x # on[a]
  <2>1. queued'[x] = queued[x]
    BY <1>0, <1>1, <1>5
  <2>2. \A i \in Nat : Waits(i, x)' => Waits(i + 0, x)
    BY <1>4
  <2>3. QED
    BY <1>3, <2>1, <2>2, FewerPlaces
<1>6. CASE x = on[a]
  <2>1. queued[x] = 0 /\ (\A c \in Actors : Has(c, x) => c = a) /\ (\A i \in Nat : ~Waits(i, x))
    BY <1>0, <1>2, <1>6 DEF OnePlace
  <2>2. queued'[x] = 1
    BY <1>0, <1>1, <1>6, <2>1
  <2>3. (\A c \in Actors : ~Has(c, x)') /\ (\A i \in Nat : ~Waits(i, x)')
    BY <1>3, <1>4, <2>1
  <2>4. x \in taken'
    BY <1>2, <1>6
  <2>5. QED
    BY <2>2, <2>3, <2>4 DEF OnePlace
<1>7. QED
  BY <1>5, <1>6
(* What was put into the pool's queue waits there; its gateway is done.    *)
LEMMA DeferMoves ==
  ASSUME DiscordInv, NEW g \in Gateways, NEW x \in Presses, Defer(g), OnePlace(x)
  PROVE  OnePlace(x)'
<1>0. /\ at \in [Actors -> {"idle", "check", "write", "link", "undo", "done"}] /\ queued \in [Presses -> Nat]
      /\ Gateways \subseteq Actors /\ Gateways \intersect PoolThreads = {}
      /\ deferred \in Seq(Presses)
  BY DiscordTypes
<1>1. /\ at[g] = "check" /\ on' = on /\ queued' = queued /\ reading' = reading /\ taken' = taken
      /\ at' = [at EXCEPT ![g] = "done"]
      /\ deferred' = deferred \/ deferred' = Append(deferred, on[g])
  BY DEF Defer, Go, dataVars, gatewayVars, worldVars
<1>2. on[g] \in Presses /\ on[g] \in taken /\ Has(g, on[g])
  BY <1>0, <1>1, WorkersHave
<1>3. \A c \in Actors : Has(c, x)' => Has(c, x) /\ c # g
  BY <1>0, <1>1 DEF Has
<1>4. CASE deferred' = deferred \/ x # on[g]
  <2>1. ASSUME NEW i \in Nat, Waits(i, x)' PROVE Waits(i + 0, x)
    <3>1. i \in 1..Len(deferred') /\ deferred'[i] = x
      BY <2>1 DEF Waits
    <3>2. CASE deferred' = deferred
      BY <3>1, <3>2 DEF Waits
    <3>3. CASE deferred' = Append(deferred, on[g]) /\ x # on[g]
      BY <1>0, <1>2, <3>1, <3>3 DEF Waits
    <3>4. QED
      BY <1>1, <1>4, <3>2, <3>3
  <2>2. QED
    BY <1>1, <1>3, <2>1, FewerPlaces
<1>5. CASE deferred' = Append(deferred, on[g]) /\ x = on[g]
  <2>1. queued[x] = 0 /\ (\A c \in Actors : Has(c, x) => c = g) /\ (\A i \in Nat : ~Waits(i, x))
    BY <1>0, <1>2, <1>5 DEF OnePlace
  <2>2. \A i \in Nat : Waits(i, x)' => i = Len(deferred) + 1
    BY <1>0, <1>2, <1>5, <2>1 DEF Waits
  <2>3. \A c \in Actors : ~Has(c, x)'
    BY <1>3, <2>1
  <2>4. queued'[x] = 0
    BY <1>1, <2>1
  <2>5. QED
    BY <2>2, <2>3, <2>4 DEF OnePlace
<1>6. QED
  BY <1>1, <1>4, <1>5

(* A thread of the pool takes the first of the queue.                      *)
LEMMA PoolTakes ==
  ASSUME DiscordInv, NEW t \in PoolThreads, NEW x \in Presses, RunDeferred(t), OnePlace(x)
  PROVE  OnePlace(x)'
<1>0. /\ at \in [Actors -> {"idle", "check", "write", "link", "undo", "done"}] /\ queued \in [Presses -> Nat]
      /\ on \in [Actors -> Presses \union {NoPress}]
      /\ PoolThreads \subseteq Actors /\ Gateways \intersect PoolThreads = {}
      /\ deferred \in Seq(Presses)
  BY DiscordTypes
<1>1. /\ at[t] = "idle" /\ deferred # <<>> /\ queued' = queued /\ reading' = reading /\ taken' = taken
      /\ at' = [at EXCEPT ![t] = "check"] /\ on' = [on EXCEPT ![t] = Head(deferred)]
      /\ deferred' = Tail(deferred)
  BY DEF RunDeferred, Take, dataVars, gatewayVars, worldVars
<1>2. Head(deferred) = deferred[1] /\ Waits(1, Head(deferred))
  BY <1>0, <1>1 DEF Waits
<1>3. \A i \in Nat : Waits(i, x)' => Waits(i + 1, x) /\ i >= 1
  BY <1>0, <1>1 DEF Waits
<1>4. CASE x # Head(deferred)
  <2>1. \A c \in Actors : Has(c, x)' => Has(c, x)
    BY <1>0, <1>1, <1>4 DEF Has
  <2>2. QED
    BY <1>1, <1>3, <2>1, FewerPlaces
<1>5. CASE x = Head(deferred)
  <2>a. Waits(1, x) /\ 1 \in Nat
    BY <1>2, <1>5
  <2>1. queued[x] = 0 /\ (\A c \in Actors : ~Has(c, x)) /\ (\A i \in Nat : Waits(i, x) => i = 1)
    <3>1. /\ \A i, j \in Nat : Waits(i, x) /\ Waits(j, x) => i = j
          /\ \A i \in Nat, c \in Actors : Waits(i, x) => ~Has(c, x)
      BY DEF OnePlace
    <3>2. queued[x] # 1 /\ queued[x] <= 1 /\ queued[x] \in Nat
      BY <1>0, <2>a DEF OnePlace
    <3>3. queued[x] = 0
      BY <3>2
    <3>4. QED
      BY <2>a, <3>1, <3>3
  <2>2. \A i \in Nat : ~Waits(i, x)'
    <3>1. ASSUME NEW i \in Nat, Waits(i, x)' PROVE FALSE
      <4>1. Waits(i + 1, x) /\ i >= 1 /\ i + 1 \in Nat
        BY <1>3, <3>1
      <4>2. i + 1 = 1
        BY <2>1, <4>1
      <4>3. QED
        BY <4>1, <4>2
    <3>2. QED
      BY <3>1
  <2>3. \A c \in Actors : Has(c, x)' => c = t
    BY <1>0, <1>1, <2>1 DEF Has
  <2>4. queued'[x] = 0
    BY <1>1, <2>1
  <2>5. x \in taken'
    BY <1>1, <1>2, <1>5, <2>1, PlacesAreTaken
  <2>6. QED
    BY <2>2, <2>3, <2>4, <2>5 DEF OnePlace
<1>6. QED
  BY <1>4, <1>5

(* A delivered interaction was in no place before.                         *)
LEMMA DeliverPlaces ==
  ASSUME DiscordInv, NEW g \in Gateways, NEW x \in Presses, Deliver(g), UNCHANGED <<botVars, deferred>>,
         OnePlace(x), ~doubled
  PROVE  OnePlace(x)'
<1>0. /\ queued \in [Presses -> Nat] /\ taken \subseteq 1..sent /\ 1..sent \subseteq Presses
      /\ Gateways \subseteq Actors /\ Gateways \intersect PoolThreads = {}
      /\ reading \in [Gateways -> 0..MaxInteractions]
  BY DiscordTypes
<1>1. /\ reading[g] = 0 /\ seq[g] + 1 \notin taken
      /\ reading' = [reading EXCEPT ![g] = seq[g] + 1] /\ taken' = taken \union {seq[g] + 1}
  BY DeliverDoes
<1>2. UNCHANGED <<queued, at, on, deferred>>
  BY DEF botVars, dataVars, actorVars
<1>3. \A i \in Nat : Waits(i, x)' => Waits(i, x)
  BY <1>2 DEF Waits
<1>4. CASE x # seq[g] + 1
  <2>1. \A c \in Actors : Has(c, x)' => Has(c, x)
    BY <1>0, <1>1, <1>2, <1>4 DEF Has
  <2>2. \A i \in Nat : Waits(i, x)' => Waits(i + 0, x)
    BY <1>3
  <2>3. QED
    BY <1>1, <1>2, <2>1, <2>2, FewerPlaces
<1>5. CASE x = seq[g] + 1
  <2>1. x \notin taken
    BY <1>1, <1>5
  <2>2. (\A c \in Actors : ~Has(c, x)) /\ (\A i \in Nat : ~Waits(i, x))
    BY <2>1, PlacesAreTaken
  <2>3. queued'[x] = 0
    BY <1>2, <2>1 DEF OnePlace
  <2>4. \A c \in Actors : Has(c, x)' => c = g
    BY <1>0, <1>1, <1>2, <2>2 DEF Has
  <2>5. x \in taken'
    BY <1>1, <1>5
  <2>6. QED
    BY <1>3, <2>2, <2>3, <2>4, <2>5 DEF OnePlace
<1>6. QED
  BY <1>4, <1>5
LEMMA DoubledStays ==
  ASSUME [DiscordNext]_discordVars
  PROVE  doubled => doubled'
<1>1. ASSUME NEW g \in Gateways, OnDispatch(g) \/ HandleInteraction(g) \/ Defer(g) \/ EndDispatch(g)
      PROVE  doubled' = doubled
  BY <1>1 DEF OnDispatch, HandleInteraction, Defer, EndDispatch, gatewayVars, worldVars
<1>2. ASSUME NEW t \in PoolThreads, RunDeferred(t) \/ ConfirmBuild(t) \/ EndDeferred(t) PROVE doubled' = doubled
  BY <1>2 DEF RunDeferred, ConfirmBuild, EndDeferred, gatewayVars, worldVars
<1>3. ASSUME NEW a \in Gateways \union PoolThreads, WriteOn(a) PROVE doubled' = doubled
  BY <1>3 DEF WriteOn, gatewayVars, worldVars
<1>4. ASSUME NEW a \in Actors, DispatchFails(a) PROVE doubled' = doubled
  BY <1>4 DEF DispatchFails
<1>5. CASE Pick \/ Dies
  <2>1. doubled' = doubled
    BY <1>5 DEF Pick, Dies, Interact, ProcessDies
  <2>2. QED
    BY <2>1
<1>6. UNCHANGED gatewayVars \/ UNCHANGED discordVars => doubled' = doubled
  BY DEF discordVars, gatewayVars, worldVars
<1>7. QED
  BY <1>1, <1>2, <1>3, <1>4, <1>5, <1>6, SocketReads, DiscordCases, ZenonT(30)

(* A step that only lets threads proceed.                                  *)
LEMMA QuietStep ==
  ASSUME DiscordInv, NEW x \in Presses, OnePlace(x), UNCHANGED <<queued, reading, taken, deferred>>,
         \A g \in Gateways : at'[g] \in {"idle", "check", "write"} => at[g] \in {"idle", "check", "write"},
         \A t \in PoolThreads : at'[t] \in {"check", "write"} => at[t] \in {"check", "write"} /\ on'[t] = on[t]
  PROVE  OnePlace(x)'
<1>1. \A c \in Actors : Has(c, x)' => Has(c, x)
  BY DEF Has
<1>2. ASSUME NEW i \in Nat, Waits(i, x)' PROVE Waits(i + 0, x)
  BY <1>2 DEF Waits
<1>3. QED
  BY <1>1, <1>2, FewerPlaces

LEMMA StepPlaces ==
  ASSUME DiscordInv, [DiscordNext]_discordVars
  PROVE  PlaceInv'
<1> SUFFICES ASSUME ~doubled', NEW x \in Presses PROVE OnePlace(x)'
  BY DEF PlaceInv
<1>0. /\ PlaceInv /\ ReadInv
      /\ at \in [Actors -> {"idle", "check", "write", "link", "undo", "done"}]
      /\ on \in [Actors -> Presses \union {NoPress}]
      /\ reading \in [Gateways -> 0..MaxInteractions]
      /\ Gateways \subseteq Actors /\ PoolThreads \subseteq Actors /\ Gateways \intersect PoolThreads = {}
      /\ NoPress = 0 /\ Nothing = 0 /\ x # 0
  BY DiscordTypes DEF Presses
<1>a. ~doubled
  BY DoubledStays
<1>b. OnePlace(x)
  BY <1>0, <1>a DEF PlaceInv
<1>1. ASSUME NEW g \in Gateways, OnDispatch(g) PROVE OnePlace(x)'
  <2>1. /\ UNCHANGED <<queued, reading, taken, deferred>> /\ at[g] = "idle"
        /\ at' = [at EXCEPT ![g] = "check"] /\ on' = [on EXCEPT ![g] = reading[g]]
    BY <1>1 DEF OnDispatch, Take, dataVars, gatewayVars, worldVars
  <2>2. QED
    BY <1>0, <1>b, <2>1, QuietStep
<1>2. ASSUME NEW a \in Actors, HandleInteraction(a) \/ ConfirmBuild(a) PROVE OnePlace(x)'
  <2>1. /\ UNCHANGED <<queued, reading, taken, deferred, on>> /\ at[a] = "check"
        /\ \E where \in {"write", "done"} : at' = [at EXCEPT ![a] = where]
    BY <1>2 DEF HandleInteraction, ConfirmBuild, Decide, Go, dataVars, gatewayVars, worldVars
  <2>2. QED
    BY <1>0, <1>b, <2>1, QuietStep
<1>3. ASSUME NEW g \in Gateways, Defer(g) PROVE OnePlace(x)'
  BY <1>b, <1>3, DeferMoves
<1>4. ASSUME NEW g \in Gateways, EndDispatch(g) PROVE OnePlace(x)'
  <2>1. /\ UNCHANGED <<queued, taken, deferred>>
        /\ reading' = [reading EXCEPT ![g] = 0]
        /\ at' = [at EXCEPT ![g] = "idle"] /\ on' = [on EXCEPT ![g] = 0]
    BY <1>0, <1>4 DEF EndDispatch, Release, Put, dataVars, worldVars
  <2>2. \A c \in Actors : Has(c, x)' => Has(c, x)
    BY <1>0, <2>1 DEF Has
  <2>3. ASSUME NEW i \in Nat, Waits(i, x)' PROVE Waits(i + 0, x)
    BY <2>1, <2>3 DEF Waits
  <2>4. QED
    BY <1>b, <2>1, <2>2, <2>3, FewerPlaces
<1>5. ASSUME NEW t \in PoolThreads, RunDeferred(t) PROVE OnePlace(x)'
  BY <1>b, <1>5, PoolTakes
<1>6. ASSUME NEW t \in PoolThreads, EndDeferred(t) PROVE OnePlace(x)'
  <2>1. UNCHANGED <<queued, reading, taken, deferred>> /\ at' = [at EXCEPT ![t] = "idle"] /\ on' = [on EXCEPT ![t] = 0]
    BY <1>0, <1>6 DEF EndDeferred, Release, dataVars, gatewayVars, worldVars
  <2>2. QED
    BY <1>0, <1>b, <2>1, QuietStep
<1>7. ASSUME NEW a \in Gateways \union PoolThreads, WriteOn(a) PROVE OnePlace(x)'
  <2>1. UNCHANGED <<reading, taken, deferred>>
    BY <1>7 DEF WriteOn, gatewayVars, worldVars
  <2>2. CASE Enqueue(a) \/ Approve(a)
    BY <1>0, <1>b, <2>1, <2>2, WritesLast
  <2>3. CASE EnqueueNothing(a) \/ DropEmptyRun(a) \/ BindBatch(a) \/ Reject(a) \/ RowGone(a)
    <3>1. UNCHANGED <<queued, on>> /\ \E where \in {"undo", "done"} : at' = [at EXCEPT ![a] = where]
      BY <2>3 DEF EnqueueNothing, DropEmptyRun, BindBatch, Reject, Settle, RowGone, HandlerFails, Go, dataVars
    <3>2. QED
      BY <1>0, <1>b, <2>1, <3>1, QuietStep
  <2>4. QED
    BY <1>7, <2>2, <2>3 DEF WriteOn, Write
<1>8. ASSUME NEW a \in Actors, DispatchFails(a) PROVE OnePlace(x)'
  <2>1. UNCHANGED <<queued, reading, taken, deferred, on>> /\ at' = [at EXCEPT ![a] = "done"]
    BY <1>8 DEF DispatchFails, HandlerFails, Go, dataVars
  <2>2. QED
    BY <1>0, <1>b, <2>1, QuietStep
<1>9. CASE SocketStep
  <2>1. UNCHANGED <<botVars, deferred>>
    BY <1>9 DEF SocketStep
  <2>2. CASE UNCHANGED <<reading, taken>>
    <3>1. UNCHANGED <<queued, at, on, deferred>>
      BY <2>1 DEF botVars, dataVars, actorVars
    <3>2. QED
      BY <1>b, <2>2, <3>1, QuietStep
  <2>3. ASSUME NEW g \in Gateways, Deliver(g) PROVE OnePlace(x)'
    BY <1>a, <1>b, <2>1, <2>3, DeliverPlaces
  <2>4. QED
    BY <1>9, <2>2, <2>3, SocketReads
<1>10. CASE Pick
  <2>1. UNCHANGED <<queued, reading, taken, deferred, at, on>>
    BY <1>10 DEF Pick, Interact, dataVars, actorVars
  <2>2. QED
    BY <1>b, <2>1, QuietStep
<1>11. CASE Dies
  <2>1. /\ \A g \in Gateways : reading'[g] = Nothing
        /\ \A a \in Actors : at'[a] = "idle"
        /\ UNCHANGED <<queued, taken>>
    BY <1>11 DEF Dies, ProcessDies, dataVars
  <2>2. deferred' = <<>>
    BY <1>11 DEF Dies
  <2>3. 1..Len(deferred') = {}
    BY <2>2
  <2>4. \A c \in Actors : ~Has(c, x)'
    BY <1>0, <2>1 DEF Has
  <2>5. ASSUME NEW i \in Nat, Waits(i, x)' PROVE Waits(i + 0, x)
    BY <2>3, <2>5 DEF Waits
  <2>6. QED
    BY <1>b, <2>1, <2>4, <2>5, FewerPlaces
<1>12. CASE World /\ UNCHANGED <<gatewayVars, deferred>>
  <2>1. UNCHANGED <<queued, at, on, deferred, reading, taken>>
    BY <1>12 DEF World, Disable, Delete, Revoke, Stopped, actorVars, gatewayVars, worldVars
  <2>2. QED
    BY <1>b, <2>1, QuietStep
<1>13. CASE UNCHANGED discordVars
  <2>1. UNCHANGED <<queued, at, on, deferred, reading, taken>>
    BY <1>13 DEF discordVars, botVars, dataVars, actorVars, gatewayVars, worldVars
  <2>2. QED
    BY <1>b, <2>1, QuietStep
<1>14. QED
  BY <1>0, <1>1, <1>2, <1>3, <1>4, <1>5, <1>6, <1>7, <1>8, <1>9, <1>10, <1>11, <1>12, <1>13, DiscordCases
LEMMA StepDiscordTypes ==
  ASSUME DiscordInv, [DiscordNext]_discordVars
  PROVE  DiscordTypeOK' /\ BotInv'
<1>0. /\ BotInv /\ BotTypeOK /\ WorkInv
      /\ at \in [Actors -> {"idle", "check", "write", "link", "undo", "done"}]
      /\ on \in [Actors -> Presses \union {NoPress}]
      /\ targets \in [Actors -> SUBSET (Things \union Steps)]
      /\ button \in [Presses -> Buttons \union {NoButton}]
      /\ reading \in [Gateways -> 0..MaxInteractions]
      /\ taken \subseteq 1..sent /\ sent \in Nat /\ 1..sent \subseteq Presses
      /\ deferred \in Seq(Presses)
      /\ Gateways \subseteq Actors /\ PoolThreads \subseteq Actors
      /\ NoPress = 0 /\ Nothing = 0
  BY DiscordTypes
<1>a. GatewayTypeOK' /\ ReadInv'
  BY StepGateways, StepReads
<1>b. WorkInv'
  <2>1. taken' \subseteq 1..sent' /\ sent' \in 0..MaxInteractions
    BY <1>a DEF GatewayTypeOK
  <2>2. 1..sent' \subseteq Presses
    BY <2>1, GatewayAssumption, DiscordAssumption DEF Presses
  <2>3. \A a \in Actors : at'[a] # "idle" => on'[a] \in taken'
    BY <1>a DEF ReadInv
  <2>4. \A y \in 1..sent' : button'[y] \in Buttons
    BY <1>a DEF ReadInv
  <2>5. QED
    BY <2>1, <2>2, <2>3, <2>4 DEF WorkInv
<1>c. ASSUME UNCHANGED <<dataVars, edits>>,
             at' \in [Actors -> {"idle", "check", "write", "link", "undo", "done"}],
             on' \in [Actors -> Presses \union {NoPress}],
             targets' \in [Actors -> SUBSET (Things \union Steps)],
             button' \in [Presses -> Buttons \union {NoButton}],
             \A a \in Actors : at'[a] = "undo" => at[a] = "undo"
      PROVE  BotInv'
  BY <1>0, <1>b, <1>c, MoveKeeps
<1>d. \A g \in Gateways : reading[g] # 0 => reading[g] \in Presses
  BY <1>0, DiscordTypes DEF ReadInv
<1>1. ASSUME NEW g \in Gateways, OnDispatch(g) PROVE BotInv' /\ deferred' = deferred
  <2>1. /\ UNCHANGED <<dataVars, edits>> /\ UNCHANGED <<targets, button, deferred>> /\ reading[g] \in Presses
        /\ at' = [at EXCEPT ![g] = "check"] /\ on' = [on EXCEPT ![g] = reading[g]]
    BY <1>0, <1>1, <1>d DEF OnDispatch, Take
  <2>2. QED
    BY <1>0, <1>c, <2>1
<1>2. ASSUME NEW a \in Actors, HandleInteraction(a) \/ ConfirmBuild(a) PROVE BotInv' /\ deferred' = deferred
  <2>1. at[a] = "check" /\ deferred' = deferred
    BY <1>2 DEF HandleInteraction, ConfirmBuild
  <2>2. button[on[a]] \in Buttons
    BY <1>0, <2>1 DEF WorkInv
  <2>3. PICK T \in SUBSET (Things \union Steps) : Decide(a, T)
    <3>1. CASE HandleInteraction(a)
      BY <1>0, <2>2, <3>1, ComponentActsOnRows DEF HandleInteraction
    <3>2. CASE ConfirmBuild(a)
      BY <1>0, <3>2, ConfirmActsOnRows DEF ConfirmBuild
    <3>3. QED
      BY <1>2, <3>1, <3>2
  <2>4. /\ UNCHANGED <<dataVars, edits>> /\ UNCHANGED <<on, button>>
        /\ targets' = [targets EXCEPT ![a] = T]
        /\ \E where \in {"write", "done"} : at' = [at EXCEPT ![a] = where]
    BY <2>3 DEF Decide, Go
  <2>5. QED
    BY <1>0, <1>c, <2>1, <2>4
<1>3. ASSUME NEW g \in Gateways, Defer(g) PROVE BotInv' /\ deferred' \in Seq(Presses)
  <2>1. /\ UNCHANGED <<dataVars, edits>> /\ UNCHANGED <<on, targets, button>> /\ at[g] = "check"
        /\ at' = [at EXCEPT ![g] = "done"]
        /\ deferred' = deferred \/ deferred' = Append(deferred, on[g])
    BY <1>3 DEF Defer, Go
  <2>2. on[g] \in Presses
    BY <1>0, <2>1 DEF WorkInv
  <2>3. deferred' \in Seq(Presses)
    <3>1. deferred \in Seq(Presses)
      BY <1>0
    <3>2. Append(deferred, on[g]) \in Seq(Presses)
      BY <2>2, <3>1
    <3>3. QED
      BY <2>1, <3>1, <3>2
  <2>4. /\ at' \in [Actors -> {"idle", "check", "write", "link", "undo", "done"}]
        /\ \A a \in Actors : at'[a] = "undo" => at[a] = "undo"
    BY <1>0, <2>1
  <2>5. BotInv'
    BY <1>0, <1>c, <2>1, <2>4
  <2>6. QED
    BY <2>3, <2>5
<1>4. ASSUME NEW a \in Actors, EndDispatch(a) \/ EndDeferred(a) PROVE BotInv' /\ deferred' = deferred
  <2>1. /\ UNCHANGED <<dataVars, edits>> /\ UNCHANGED <<button, deferred>>
        /\ at' = [at EXCEPT ![a] = "idle"] /\ on' = [on EXCEPT ![a] = NoPress]
        /\ targets' = [targets EXCEPT ![a] = {}]
    BY <1>4 DEF EndDispatch, EndDeferred, Release
  <2>2. QED
    BY <1>0, <1>c, <2>1
<1>5. ASSUME NEW t \in PoolThreads, RunDeferred(t) PROVE BotInv' /\ deferred' \in Seq(Presses)
  <2>1. /\ UNCHANGED <<dataVars, edits>> /\ UNCHANGED <<targets, button>> /\ deferred # <<>>
        /\ at' = [at EXCEPT ![t] = "check"] /\ on' = [on EXCEPT ![t] = Head(deferred)]
        /\ deferred' = Tail(deferred)
    BY <1>5 DEF RunDeferred, Take
  <2>2. Head(deferred) \in Presses /\ Tail(deferred) \in Seq(Presses)
    BY <1>0, <2>1
  <2>3. /\ at' \in [Actors -> {"idle", "check", "write", "link", "undo", "done"}]
        /\ on' \in [Actors -> Presses \union {NoPress}]
        /\ \A a \in Actors : at'[a] = "undo" => at[a] = "undo"
    BY <1>0, <2>1, <2>2
  <2>4. BotInv'
    BY <1>0, <1>c, <2>1, <2>3
  <2>5. QED
    BY <2>1, <2>2, <2>4
<1>6. ASSUME NEW a \in Gateways \union PoolThreads, WriteOn(a) PROVE BotInv' /\ deferred' = deferred
  BY <1>0, <1>6, WriteKeeps DEF WriteOn
<1>7. ASSUME NEW a \in Actors, DispatchFails(a) PROVE BotInv' /\ deferred' = deferred
  <2>1. /\ UNCHANGED <<dataVars, edits>> /\ UNCHANGED <<on, targets, button, deferred>>
        /\ at' = [at EXCEPT ![a] = "done"]
    BY <1>7 DEF DispatchFails, HandlerFails, Go
  <2>2. QED
    BY <1>0, <1>c, <2>1
<1>8. ASSUME SocketStep \/ UNCHANGED discordVars PROVE BotInv' /\ deferred' = deferred
  <2>1. UNCHANGED <<dataVars, edits>> /\ UNCHANGED <<at, on, targets, button, deferred>>
    BY <1>8 DEF SocketStep, discordVars, botVars, actorVars
  <2>2. QED
    BY <1>0, <1>c, <2>1
<1>9. ASSUME Pick PROVE BotInv' /\ deferred' = deferred
  <2>1. UNCHANGED <<dataVars, edits>> /\ UNCHANGED <<at, on, targets, deferred>>
    BY <1>9 DEF Pick, actorVars
  <2>2. PICK u \in Users : \E b \in DispatchCommand(u) : button' = [button EXCEPT ![sent + 1] = b]
    BY <1>9 DEF Pick
  <2>3. PICK b \in Buttons : button' = [button EXCEPT ![sent + 1] = b]
    BY <1>0, <2>2, CommandsAreButtons DEF BotInv
  <2>4. QED
    BY <1>0, <1>c, <2>1, <2>3
<1>10. ASSUME Dies PROVE BotInv' /\ deferred' \in Seq(Presses)
  <2>1. /\ UNCHANGED <<dataVars, edits>> /\ UNCHANGED button
        /\ at' = [a \in Actors |-> "idle"] /\ on' = [a \in Actors |-> NoPress]
        /\ targets' = [a \in Actors |-> {}]
        /\ deferred' = <<>>
    BY <1>10 DEF Dies
  <2>2. QED
    BY <1>0, <1>c, <2>1
<1>11. ASSUME World, UNCHANGED <<gatewayVars, deferred>> PROVE BotInv' /\ deferred' = deferred
  BY <1>0, <1>11, WorldKeeps
<1>12. BotInv' /\ deferred' \in Seq(Presses)
  BY <1>0, <1>1, <1>2, <1>3, <1>4, <1>5, <1>6, <1>7, <1>8, <1>9, <1>10, <1>11, DiscordCases
<1>13. QED
  BY <1>a, <1>12 DEF DiscordTypeOK, BotInv

LEMMA InitDiscord == DiscordInit => DiscordInv
<1> SUFFICES ASSUME DiscordInit PROVE DiscordInv
  OBVIOUS
<1>1. BotInv /\ BotInit /\ GatewayInit /\ deferred = <<>>
  BY InitBots DEF DiscordInit
<1>2. GatewayTypeOK
  <2>1. 0 \in 0..MaxInteractions
    BY GatewayAssumption
  <2>2. link \in [Gateways -> Links] /\ beat \in [Gateways -> {"off", "wait", "sending"}]
    BY <1>1 DEF GatewayInit, Links
  <2>3. /\ stopEvent \in [Gateways -> BOOLEAN] /\ session \in [Gateways -> BOOLEAN]
        /\ beatSent \in [Gateways -> BOOLEAN] /\ owed \in [Gateways -> BOOLEAN]
    BY <1>1 DEF GatewayInit
  <2>4. seq \in [Gateways -> 0..MaxInteractions] /\ reading \in [Gateways -> 0..MaxInteractions]
    BY <1>1, <2>1 DEF GatewayInit, Nothing
  <2>5. \A g \in Gateways : ~session[g]
    BY <1>1 DEF GatewayInit
  <2>6. switchedOn \in BOOLEAN /\ doubled \in BOOLEAN /\ active \in Gateways \union {NoGateway}
    BY <1>1 DEF GatewayInit
  <2>7. sent \in 0..MaxInteractions /\ taken \subseteq 1..sent /\ missed \subseteq 1..sent
    BY <1>1, <2>1 DEF GatewayInit
  <2>8. QED
    BY <2>2, <2>3, <2>4, <2>5, <2>6, <2>7 DEF GatewayTypeOK
<1>3. DiscordTypeOK
  BY <1>1, <1>2 DEF DiscordTypeOK, BotInv
<1>4. LinkInv
  BY <1>1 DEF LinkInv, GatewayInit
<1>5. 1..Len(deferred) = {} /\ 1..sent = {}
  BY <1>1 DEF GatewayInit
<1>6. ReadInv
  <2>1. \A a \in Actors : at[a] = "idle"
    BY <1>1 DEF BotInit
  <2>2. \A g \in Gateways : reading[g] = Nothing
    BY <1>1 DEF GatewayInit
  <2>3. QED
    BY <1>5, <2>1, <2>2, DiscordAssumption DEF ReadInv
<1>7. ASSUME NEW x \in Presses PROVE OnePlace(x)
  <2>1. x # 0
    BY DEF Presses
  <2>2. \A a \in Actors : ~Has(a, x)
    BY <1>1, <2>1 DEF Has, GatewayInit, BotInit, Nothing
  <2>3. \A i \in Nat : ~Waits(i, x)
    BY <1>5 DEF Waits
  <2>4. queued[x] = 0
    BY <1>1 DEF BotInit
  <2>5. QED
    BY <2>2, <2>3, <2>4 DEF OnePlace
<1>8. NoInteractionLost
  BY <1>5 DEF NoInteractionLost
<1>9. QED
  BY <1>1, <1>3, <1>4, <1>6, <1>7, <1>8 DEF DiscordInv, PlaceInv

LEMMA StepDiscord == DiscordInv /\ [DiscordNext]_discordVars => DiscordInv'
BY StepDiscordTypes, StepGateways, StepReads, StepPlaces DEF DiscordInv

LEMMA AlwaysDiscord == DiscordSpec => []DiscordInv
BY InitDiscord, StepDiscord, PTL DEF DiscordSpec

(* The tables, the gateways and the pool's queue keep their types.         *)
THEOREM DiscordTypeCorrect == DiscordSpec => []DiscordTypeOK
<1>1. DiscordInv => DiscordTypeOK
  BY DEF DiscordInv
<1>2. QED
  BY <1>1, AlwaysDiscord, PTL

(* However often a connection is lost, a session resumed, a handler fails  *)
(* or the process dies: as long as no two sessions were held at once, an   *)
(* interaction is acted on at most once.                                   *)
THEOREM DiscordActsOnce == DiscordSpec => []ActedOnOnce
<1>1. DiscordInv => ActedOnOnce
  <2> SUFFICES ASSUME DiscordInv, ~doubled, NEW x \in 1..sent PROVE queued[x] <= 1
    BY DEF ActedOnOnce
  <2>1. PlaceInv /\ x \in Presses
    BY DiscordTypes
  <2>2. QED
    BY <2>1 DEF PlaceInv, OnePlace
<1>2. QED
  BY <1>1, AlwaysDiscord, PTL

(* An interaction was handed over, or a gateway's session still is short   *)
(* of it, or the session it belonged to was given up.                      *)
THEOREM NoInteractionIsLost == DiscordSpec => []NoInteractionLost
<1>1. DiscordInv => NoInteractionLost
  BY DEF DiscordInv
<1>2. QED
  BY <1>1, AlwaysDiscord, PTL

-----------------------------------------------------------------------------
(* Both bots side by side, as MCBots has them.                             *)

(* The bot a behaviour is not about rests.                                 *)
PollsRest ==
  /\ leader = NoProc /\ stage = [p \in Procs |-> "waiting"] /\ upto = [p \in Procs |-> 0]
  /\ lastId = 0 /\ arrived = 0 /\ confirmed = 0 /\ tried = [x \in Presses |-> 0]
GatewaysRest == GatewayTypeOK /\ deferred \in Seq(Presses)
BotsInv ==
  \/ part = "telegram" /\ TelegramInv /\ GatewaysRest
  \/ part = "discord" /\ DiscordInv /\ PollsRest

(* Whatever the bots do, what they share and what is their own keep their  *)
(* types.                                                                  *)
THEOREM BotsTypeCorrect == BotsSpec => []BotsTypeOK
<1>1. BotsInit => BotsInv
  <2> SUFFICES ASSUME BotsInit PROVE BotsInv
    OBVIOUS
  <2>1. TelegramInv /\ DiscordInv
    BY InitTelegram, InitDiscord DEF BotsInit
  <2>2. GatewaysRest
    BY <2>1 DEF DiscordInv, DiscordTypeOK, GatewaysRest
  <2>3. PollsRest
    BY DEF BotsInit, TelegramInit, PollsRest
  <2>4. part = "telegram" \/ part = "discord"
    BY DEF BotsInit
  <2>5. QED
    BY <2>1, <2>2, <2>3, <2>4 DEF BotsInv
<1>2. BotsInv /\ [BotsNext]_<<telegramVars, discordVars, part>> => BotsInv'
  <2> SUFFICES ASSUME BotsInv, [BotsNext]_<<telegramVars, discordVars, part>> PROVE BotsInv'
    OBVIOUS
  <2>1. CASE part = "telegram"
    <3>1. TelegramInv /\ GatewaysRest
      BY <2>1 DEF BotsInv
    <3>2. [TelegramNext]_telegramVars /\ UNCHANGED <<gatewayVars, deferred, part>>
      BY <2>1 DEF BotsNext, discordOnly, discordVars
    <3>3. TelegramInv'
      BY <3>1, <3>2, StepTelegram
    <3>4. GatewaysRest'
      BY <3>1, <3>2 DEF GatewaysRest, GatewayTypeOK, gatewayVars, socketVars, sessionVars, worldVars
    <3>5. QED
      BY <2>1, <3>2, <3>3, <3>4 DEF BotsInv
  <2>2. CASE part = "discord"
    <3>1. DiscordInv /\ PollsRest
      BY <2>2 DEF BotsInv
    <3>2. [DiscordNext]_discordVars /\ UNCHANGED <<pollVars, serverVars, tried, part>>
      BY <2>2 DEF BotsNext, telegramOnly, telegramVars
    <3>3. DiscordInv'
      BY <3>1, <3>2, StepDiscord
    <3>4. PollsRest'
      BY <3>1, <3>2 DEF PollsRest, pollVars, serverVars
    <3>5. QED
      BY <2>2, <3>2, <3>3, <3>4 DEF BotsInv
  <2>3. QED
    BY <2>1, <2>2 DEF BotsInv
<1>3. BotsInv => BotsTypeOK
  <2>1. ASSUME TelegramInv, GatewaysRest PROVE BotsTypeOK
    BY <2>1 DEF TelegramInv, GatewaysRest, BotsTypeOK, DiscordTypeOK, TelegramTypeOK
  <2>2. ASSUME DiscordInv, PollsRest PROVE BotsTypeOK
    <3>1. 0 \in Nat /\ MaxPresses \in Nat
      BY BotAssumption DEF BotAssumption
    <3>2. QED
      BY <2>2, <3>1 DEF DiscordInv, PollsRest, BotsTypeOK, DiscordTypeOK, TelegramTypeOK, Presses
  <2>3. QED
    BY <2>1, <2>2 DEF BotsInv
<1>4. QED
  BY <1>1, <1>2, <1>3, PTL DEF BotsSpec
=============================================================================
