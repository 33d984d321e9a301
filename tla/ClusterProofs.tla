----------------------------- MODULE ClusterProofs -----------------------------
(* Theorems about what is done to a cluster: the rollouts that are waited  *)
(* for (Rollout), the objects administrators edit (ClusterObjects) and the *)
(* form of the network policies (NetworkPolicyForm).                       *)
EXTENDS Rollout, ClusterObjects, NetworkPolicyForm, FiniteSetTheorems, TLAPS

USE RolloutAssumption DEF RolloutAssumption

-----------------------------------------------------------------------------
(* Rollout: every number of workloads, every budget and every length of    *)
(* the provider's timeouts and pauses.                                     *)

Before  == {"idle", "delete", "apply"}
Waiting == {"poll", "probe", "sleep", "terminate"}

(* RolloutTypeOK with its sets written out, and without the Boolean, which *)
(* the provers take better by itself.                                      *)
TypeInv ==
  /\ task \in {"none", "apply", "delete", "restart"}
  /\ phase \in Before \union Waiting \union {"turn", "ended"}
  /\ budget \in Nat /\ budget \in Budgets \union {0} /\ deadline \in Nat /\ killAt \in Nat
  /\ turn \in Nat /\ 1 <= turn /\ turn <= Workloads + 1
  /\ now \in Nat /\ since \in Nat /\ since <= now
  /\ failedLabels \subseteq Order
  /\ outcome \in {"none", "success", "failed"}
  /\ child \in {"none", "running", "ready", "failed"}
  /\ ready \subseteq objects /\ stuck \subseteq objects /\ objects \subseteq Order
  /\ sawReady \subseteq Order /\ sawStuck \subseteq Order
  /\ shifts \in Nat /\ shifts <= MaxShifts

(* The clock stands still before the wait.  During it, how far the clock   *)
(* can be past the one deadline grows from phase to phase of a poll: the   *)
(* last look is before the kill time, a listing and a pause follow it, and *)
(* only then does the killing take its time.                               *)
ClockInv ==
  /\ phase \in Before => now = 0
  /\ phase \in Waiting => killAt = deadline + Buffer
  /\ phase = "poll" => now <= deadline + Buffer + ProbeTime + Interval
  /\ phase = "probe" => since < deadline + Buffer /\ now <= since + ProbeTime
  /\ phase = "sleep" => since <= deadline + Buffer + ProbeTime /\ now <= since + Interval
  /\ phase = "terminate" =>
       since <= deadline + Buffer + ProbeTime + Interval /\ now <= since + StopTime
  /\ phase \in {"turn", "ended"} => now <= deadline + Buffer + ProbeTime + Interval + StopTime

(* A child runs only for the workload being waited for, and what it has    *)
(* reported is about that one.                                             *)
ChildInv ==
  /\ child = "running" => phase \in Waiting
  /\ phase \in Waiting => turn \in Order /\ child # "none"
  /\ phase \in Waiting => (child = "ready" <=> turn \in sawReady)
  /\ \A w \in sawReady : w < turn \/ (w = turn /\ phase \in Waiting)

(* Every workload whose turn is over was reported ready or is counted as   *)
(* failed; the early end leaves one that counts as failed.                 *)
LabelInv ==
  /\ phase \in Before => turn = 1 /\ failedLabels = {} /\ ~failFast
  /\ phase = "delete" => task \in {"delete", "restart"}
  /\ \A w \in failedLabels : w < turn
  /\ \A w \in Order : w < turn => w \in sawReady \union failedLabels
  /\ failFast => phase = "terminate" \/ failedLabels # {}
  /\ phase = "terminate" => turn \in sawStuck \/ now >= deadline + Buffer
  /\ failedLabels \intersect sawReady \subseteq sawStuck \/ now >= deadline + Buffer

OutcomeInv ==
  /\ outcome # "none" => phase = "ended"
  /\ outcome = "success" => budget = 0 \/ task = "delete" \/ sawReady = Order

RolloutInv == TypeInv /\ failFast \in BOOLEAN /\ ClockInv /\ ChildInv /\ LabelInv /\ OutcomeInv

-----------------------------------------------------------------------------
LEMMA LastsDomain == DOMAIN Lasts = {"probe", "sleep", "terminate"}
BY DEF Lasts

LEMMA Types == TypeInv /\ failFast \in BOOLEAN <=> RolloutTypeOK
<1>1. {"idle", "delete", "apply", "turn", "poll", "ended"} \union DOMAIN Lasts
        = Before \union Waiting \union {"turn", "ended"}
  BY LastsDomain DEF Before, Waiting
<1>2. /\ turn \in 1..(Workloads + 1) <=> turn \in Nat /\ 1 <= turn /\ turn <= Workloads + 1
      /\ shifts \in 0..MaxShifts <=> shifts \in Nat /\ shifts <= MaxShifts
      /\ now \in Nat => (since \in 0..now <=> since \in Nat /\ since <= now)
      /\ Budgets \union {0} \subseteq Nat
  OBVIOUS
<1>3. QED
  BY <1>1, <1>2 DEF RolloutTypeOK, TypeInv

LEMMA InitRolloutInv == RolloutInit => RolloutInv
<1> SUFFICES ASSUME RolloutInit PROVE RolloutInv
  OBVIOUS
<1> USE DEF RolloutInit
<1>1. TypeInv
  BY DEF TypeInv, Order, Before
<1>2. ClockInv /\ ChildInv /\ LabelInv /\ OutcomeInv
  BY DEF ClockInv, ChildInv, LabelInv, OutcomeInv, Before, Waiting, Order
<1>3. QED
  BY <1>1, <1>2 DEF RolloutInv

(* Every step keeps the types. *)
LEMMA StepTypes == TypeInv /\ ChildInv /\ [RolloutNext]_rolloutVars => TypeInv'
<1> SUFFICES ASSUME TypeInv, ChildInv, [RolloutNext]_rolloutVars PROVE TypeInv'
  OBVIOUS
<1> USE DEF TypeInv, Before, Waiting, To, Ends, NextTurn, taskVars, turnVars, resultVars,
        clusterVars, sawVars, AtTurn, Order
<1>1. ASSUME NEW t \in {"apply", "delete", "restart"}, NEW b \in Budgets, StartTask(t, b)
      PROVE  TypeInv'
  <2>1. b \in Nat
    OBVIOUS
  <2>2. QED
    BY <1>1, <2>1 DEF StartTask
<1>2. CASE KubectlDelete
  <2>1. /\ objects' \subseteq objects /\ ready' \subseteq objects' /\ stuck' \subseteq objects'
        /\ UNCHANGED shifts
    BY <1>2 DEF KubectlDelete, Gone
  <2>2. phase' \in {"apply", "ended"} /\ since' = now /\ outcome' \in {"none", "success", "failed"}
    BY <1>2 DEF KubectlDelete
  <2>3. QED
    BY <1>2, <2>1, <2>2 DEF KubectlDelete
<1>3. CASE KubectlApply
  <2>1. objects' \subseteq Order /\ ready \subseteq objects' /\ stuck \subseteq objects'
    BY <1>3 DEF KubectlApply
  <2>2. phase' \in {"turn", "ended"} /\ since' = now /\ outcome' \in {"none", "success", "failed"}
    BY <1>3 DEF KubectlApply
  <2>3. now + budget \in Nat
    OBVIOUS
  <2>4. QED
    BY <1>3, <2>1, <2>2, <2>3 DEF KubectlApply
<1>4. CASE SkipWait
  BY <1>4 DEF SkipWait
<1>5. CASE StartStatus
  BY <1>5 DEF StartStatus
<1>6. CASE NoChild
  BY <1>6 DEF NoChild
<1>7. CASE EndWait
  BY <1>7 DEF EndWait
<1>8. CASE StatusExited
  BY <1>8 DEF StatusExited, ChildInv
<1>9. CASE OutOfTime
  BY <1>9 DEF OutOfTime
<1>10. CASE Look
  BY <1>10 DEF Look
<1>11. CASE ProbeFindsStuck
  BY <1>11 DEF ProbeFindsStuck
<1>12. CASE ProbeFindsNothing
  BY <1>12 DEF ProbeFindsNothing
<1>13. CASE WakeUp
  BY <1>13 DEF WakeUp
<1>14. CASE TerminateChild
  BY <1>14 DEF TerminateChild, ChildInv
<1>15. CASE ReportsReady
  BY <1>15 DEF ReportsReady
<1>16. CASE ReportsFailure
  BY <1>16 DEF ReportsFailure
<1>17. CASE Shift
  <2>1. objects' \subseteq objects /\ ready' \subseteq objects' /\ stuck' \subseteq objects'
    BY <1>17 DEF Shift
  <2>2. QED
    BY <1>17, <2>1 DEF Shift
<1>18. CASE ClockTick
  BY <1>18 DEF ClockTick
<1>19. CASE UNCHANGED rolloutVars
  BY <1>19 DEF rolloutVars
<1>20. QED
  BY <1>1, <1>2, <1>3, <1>4, <1>5, <1>6, <1>7, <1>8, <1>9, <1>10, <1>11, <1>12, <1>13, <1>14, <1>15, <1>16, <1>17, <1>18, <1>19
     DEF RolloutNext

(* No step overruns the time of the phase it leaves. *)
LEMMA StepClock ==
  TypeInv /\ ClockInv /\ [RolloutNext]_rolloutVars => ClockInv'
<1> SUFFICES ASSUME TypeInv, ClockInv, [RolloutNext]_rolloutVars PROVE ClockInv'
  OBVIOUS
<1> USE DEF TypeInv, ClockInv, Before, Waiting, To, Ends, NextTurn, taskVars, turnVars, resultVars,
        clusterVars, sawVars, AtTurn, Order
<1>1. ASSUME NEW t \in {"apply", "delete", "restart"}, NEW b \in Budgets, StartTask(t, b)
      PROVE  ClockInv'
  BY <1>1 DEF StartTask
<1>2. CASE KubectlDelete
  BY <1>2 DEF KubectlDelete, Gone
<1>3. CASE KubectlApply
  BY <1>3 DEF KubectlApply
<1>4. CASE SkipWait
  BY <1>4 DEF SkipWait
<1>5. CASE StartStatus
  BY <1>5 DEF StartStatus
<1>6. CASE NoChild
  BY <1>6 DEF NoChild
<1>7. CASE EndWait
  BY <1>7 DEF EndWait
<1>8. CASE StatusExited
  BY <1>8 DEF StatusExited
<1>9. CASE OutOfTime
  BY <1>9 DEF OutOfTime
<1>10. CASE Look
  BY <1>10 DEF Look
<1>11. CASE ProbeFindsStuck
  BY <1>11 DEF ProbeFindsStuck
<1>12. CASE ProbeFindsNothing
  BY <1>12 DEF ProbeFindsNothing
<1>13. CASE WakeUp
  BY <1>13 DEF WakeUp
<1>14. CASE TerminateChild
  BY <1>14 DEF TerminateChild
<1>15. CASE ReportsReady
  BY <1>15 DEF ReportsReady
<1>16. CASE ReportsFailure
  BY <1>16 DEF ReportsFailure
<1>17. CASE Shift
  BY <1>17 DEF Shift
<1>18. CASE ClockTick
  BY <1>18 DEF ClockTick, Lasts
<1>19. CASE UNCHANGED rolloutVars
  BY <1>19 DEF rolloutVars
<1>20. QED
  BY <1>1, <1>2, <1>3, <1>4, <1>5, <1>6, <1>7, <1>8, <1>9, <1>10, <1>11, <1>12, <1>13, <1>14, <1>15, <1>16, <1>17, <1>18, <1>19
     DEF RolloutNext

(* No step leaves a child behind or takes one's report for another's. *)
LEMMA StepChild ==
  TypeInv /\ ChildInv /\ [RolloutNext]_rolloutVars => ChildInv'
<1> SUFFICES ASSUME TypeInv, ChildInv, [RolloutNext]_rolloutVars PROVE ChildInv'
  OBVIOUS
<1> USE DEF TypeInv, ChildInv, Before, Waiting, To, Ends, NextTurn, taskVars, turnVars, resultVars,
        clusterVars, sawVars, AtTurn, Order
<1>1. ASSUME NEW t \in {"apply", "delete", "restart"}, NEW b \in Budgets, StartTask(t, b)
      PROVE  ChildInv'
  BY <1>1 DEF StartTask
<1>2. CASE KubectlDelete
  BY <1>2 DEF KubectlDelete, Gone
<1>3. CASE KubectlApply
  BY <1>3 DEF KubectlApply
<1>4. CASE SkipWait
  BY <1>4 DEF SkipWait
<1>5. CASE StartStatus
  BY <1>5 DEF StartStatus
<1>6. CASE NoChild
  BY <1>6 DEF NoChild
<1>7. CASE EndWait
  BY <1>7 DEF EndWait
<1>8. CASE StatusExited
  BY <1>8 DEF StatusExited
<1>9. CASE OutOfTime
  BY <1>9 DEF OutOfTime
<1>10. CASE Look
  BY <1>10 DEF Look
<1>11. CASE ProbeFindsStuck
  BY <1>11 DEF ProbeFindsStuck
<1>12. CASE ProbeFindsNothing
  BY <1>12 DEF ProbeFindsNothing
<1>13. CASE WakeUp
  BY <1>13 DEF WakeUp
<1>14. CASE TerminateChild
  BY <1>14 DEF TerminateChild
<1>15. CASE ReportsReady
  BY <1>15 DEF ReportsReady
<1>16. CASE ReportsFailure
  BY <1>16 DEF ReportsFailure
<1>17. CASE Shift
  BY <1>17 DEF Shift
<1>18. CASE ClockTick
  BY <1>18 DEF ClockTick, Lasts
<1>19. CASE UNCHANGED rolloutVars
  BY <1>19 DEF rolloutVars
<1>20. QED
  BY <1>1, <1>2, <1>3, <1>4, <1>5, <1>6, <1>7, <1>8, <1>9, <1>10, <1>11, <1>12, <1>13, <1>14, <1>15, <1>16, <1>17, <1>18, <1>19
     DEF RolloutNext

(* No step passes over a workload, or blames one that was ready. *)
LEMMA StepLabels ==
  TypeInv /\ ClockInv /\ ChildInv /\ LabelInv /\ [RolloutNext]_rolloutVars => LabelInv'
<1> SUFFICES ASSUME TypeInv, ClockInv, ChildInv, LabelInv, [RolloutNext]_rolloutVars PROVE LabelInv'
  OBVIOUS
<1> USE DEF TypeInv, ClockInv, ChildInv, LabelInv, Before, Waiting, To, Ends, NextTurn, taskVars, turnVars, resultVars,
        clusterVars, sawVars, AtTurn, Order
<1>1. ASSUME NEW t \in {"apply", "delete", "restart"}, NEW b \in Budgets, StartTask(t, b)
      PROVE  LabelInv'
  BY <1>1 DEF StartTask
<1>2. CASE KubectlDelete
  BY <1>2 DEF KubectlDelete, Gone
<1>3. CASE KubectlApply
  BY <1>3 DEF KubectlApply
<1>4. CASE SkipWait
  BY <1>4 DEF SkipWait
<1>5. CASE StartStatus
  BY <1>5 DEF StartStatus
<1>6. CASE NoChild
  BY <1>6 DEF NoChild
<1>7. CASE EndWait
  BY <1>7 DEF EndWait
<1>8. CASE StatusExited
  BY <1>8 DEF StatusExited
<1>9. CASE OutOfTime
  BY <1>9 DEF OutOfTime
<1>10. CASE Look
  BY <1>10 DEF Look
<1>11. CASE ProbeFindsStuck
  BY <1>11 DEF ProbeFindsStuck
<1>12. CASE ProbeFindsNothing
  BY <1>12 DEF ProbeFindsNothing
<1>13. CASE WakeUp
  BY <1>13 DEF WakeUp
<1>14. CASE TerminateChild
  BY <1>14 DEF TerminateChild
<1>15. CASE ReportsReady
  BY <1>15 DEF ReportsReady
<1>16. CASE ReportsFailure
  BY <1>16 DEF ReportsFailure
<1>17. CASE Shift
  BY <1>17 DEF Shift
<1>18. CASE ClockTick
  BY <1>18 DEF ClockTick, Lasts
<1>19. CASE UNCHANGED rolloutVars
  BY <1>19 DEF rolloutVars
<1>20. QED
  BY <1>1, <1>2, <1>3, <1>4, <1>5, <1>6, <1>7, <1>8, <1>9, <1>10, <1>11, <1>12, <1>13, <1>14, <1>15, <1>16, <1>17, <1>18, <1>19
     DEF RolloutNext

(* The early end is a Boolean. *)
LEMMA StepFlag ==
  failFast \in BOOLEAN /\ [RolloutNext]_rolloutVars => failFast' \in BOOLEAN
<1> SUFFICES ASSUME failFast \in BOOLEAN, [RolloutNext]_rolloutVars PROVE failFast' \in BOOLEAN
  OBVIOUS
<1> USE DEF TypeInv, Before, Waiting, To, Ends, NextTurn, taskVars, turnVars, resultVars,
        clusterVars, sawVars, AtTurn, Order
<1>1. ASSUME NEW t \in {"apply", "delete", "restart"}, NEW b \in Budgets, StartTask(t, b)
      PROVE  failFast' \in BOOLEAN
  BY <1>1 DEF StartTask
<1>2. CASE KubectlDelete
  BY <1>2 DEF KubectlDelete, Gone
<1>3. CASE KubectlApply
  BY <1>3 DEF KubectlApply
<1>4. CASE SkipWait
  BY <1>4 DEF SkipWait
<1>5. CASE StartStatus
  BY <1>5 DEF StartStatus
<1>6. CASE NoChild
  BY <1>6 DEF NoChild
<1>7. CASE EndWait
  BY <1>7 DEF EndWait
<1>8. CASE StatusExited
  BY <1>8 DEF StatusExited
<1>9. CASE OutOfTime
  BY <1>9 DEF OutOfTime
<1>10. CASE Look
  BY <1>10 DEF Look
<1>11. CASE ProbeFindsStuck
  BY <1>11 DEF ProbeFindsStuck
<1>12. CASE ProbeFindsNothing
  BY <1>12 DEF ProbeFindsNothing
<1>13. CASE WakeUp
  BY <1>13 DEF WakeUp
<1>14. CASE TerminateChild
  BY <1>14 DEF TerminateChild
<1>15. CASE ReportsReady
  BY <1>15 DEF ReportsReady
<1>16. CASE ReportsFailure
  BY <1>16 DEF ReportsFailure
<1>17. CASE Shift
  BY <1>17 DEF Shift
<1>18. CASE ClockTick
  BY <1>18 DEF ClockTick, Lasts
<1>19. CASE UNCHANGED rolloutVars
  BY <1>19 DEF rolloutVars
<1>20. QED
  BY <1>1, <1>2, <1>3, <1>4, <1>5, <1>6, <1>7, <1>8, <1>9, <1>10, <1>11, <1>12, <1>13, <1>14, <1>15, <1>16, <1>17, <1>18, <1>19
     DEF RolloutNext

(* No step ends in success with a workload not ready. *)
LEMMA StepOutcome ==
  /\ TypeInv /\ ClockInv /\ ChildInv /\ LabelInv /\ OutcomeInv
  /\ [RolloutNext]_rolloutVars
  => OutcomeInv'
<1> SUFFICES ASSUME TypeInv, ClockInv, ChildInv, LabelInv, OutcomeInv, [RolloutNext]_rolloutVars PROVE OutcomeInv'
  OBVIOUS
<1> USE DEF TypeInv, ClockInv, ChildInv, LabelInv, OutcomeInv, Before, Waiting, To, Ends, NextTurn, taskVars, turnVars, resultVars,
        clusterVars, sawVars, AtTurn, Order
<1>1. ASSUME NEW t \in {"apply", "delete", "restart"}, NEW b \in Budgets, StartTask(t, b)
      PROVE  OutcomeInv'
  BY <1>1 DEF StartTask
<1>2. CASE KubectlDelete
  BY <1>2 DEF KubectlDelete, Gone
<1>3. CASE KubectlApply
  BY <1>3 DEF KubectlApply
<1>4. CASE SkipWait
  BY <1>4 DEF SkipWait
<1>5. CASE StartStatus
  BY <1>5 DEF StartStatus
<1>6. CASE NoChild
  BY <1>6 DEF NoChild
<1>7. CASE EndWait
  <2>1. CASE failedLabels # {}
    BY <1>7, <2>1 DEF EndWait
  <2>2. CASE failedLabels = {}
    <3>1. turn \notin Order
      BY <1>7, <2>2 DEF EndWait
    <3>2. \A w \in Order : w < turn
      BY <3>1
    <3>3. sawReady = Order
      BY <2>2, <3>2
    <3>4. QED
      BY <1>7, <3>3 DEF EndWait
  <2>3. QED
    BY <2>1, <2>2
<1>8. CASE StatusExited
  BY <1>8 DEF StatusExited
<1>9. CASE OutOfTime
  BY <1>9 DEF OutOfTime
<1>10. CASE Look
  BY <1>10 DEF Look
<1>11. CASE ProbeFindsStuck
  BY <1>11 DEF ProbeFindsStuck
<1>12. CASE ProbeFindsNothing
  BY <1>12 DEF ProbeFindsNothing
<1>13. CASE WakeUp
  BY <1>13 DEF WakeUp
<1>14. CASE TerminateChild
  BY <1>14 DEF TerminateChild
<1>15. CASE ReportsReady
  BY <1>15 DEF ReportsReady
<1>16. CASE ReportsFailure
  BY <1>16 DEF ReportsFailure
<1>17. CASE Shift
  BY <1>17 DEF Shift
<1>18. CASE ClockTick
  BY <1>18 DEF ClockTick, Lasts
<1>19. CASE UNCHANGED rolloutVars
  BY <1>19 DEF rolloutVars
<1>20. QED
  BY <1>1, <1>2, <1>3, <1>4, <1>5, <1>6, <1>7, <1>8, <1>9, <1>10, <1>11, <1>12, <1>13, <1>14, <1>15, <1>16, <1>17, <1>18, <1>19
     DEF RolloutNext

-----------------------------------------------------------------------------
(* The invariant holds throughout. *)
THEOREM RolloutInvariant == RolloutSpec => []RolloutInv
<1>1. RolloutInv /\ [RolloutNext]_rolloutVars => RolloutInv'
  BY StepTypes, StepClock, StepChild, StepLabels, StepFlag, StepOutcome DEF RolloutInv
<1>2. QED
  BY <1>1, InitRolloutInv, PTL DEF RolloutSpec

(* The variables of a rollout keep their types. *)
THEOREM RolloutTypeCorrect == RolloutSpec => []RolloutTypeOK
<1>1. RolloutInv => RolloutTypeOK
  BY Types DEF RolloutInv
<1>2. QED
  BY <1>1, RolloutInvariant, PTL

(* _wait_for_rollout holds the deployment slot for one budget and one      *)
(* overrun, whatever the number of workloads in the manifest.              *)
THEOREM OneBudgetForAll == RolloutSpec => []HeldForOneBudget
<1>1. RolloutInv => HeldForOneBudget
  <2> SUFFICES ASSUME RolloutInv PROVE HeldForOneBudget
    OBVIOUS
  <2>1. TypeInv /\ ClockInv
    BY DEF RolloutInv
  <2>2. QED
    BY <2>1, LastsDomain DEF TypeInv, ClockInv, HeldForOneBudget, Before, Waiting
<1>2. QED
  BY <1>1, RolloutInvariant, PTL

(* The result of the wait is what rollout status and the pods told it, and *)
(* a turn that is over leaves no child running.                            *)
THEOREM HonestWait == RolloutSpec => []WaitIsHonest
<1>1. RolloutInv => WaitIsHonest
  <2> SUFFICES ASSUME RolloutInv PROVE WaitIsHonest
    OBVIOUS
  <2>1. TypeInv /\ ChildInv /\ LabelInv /\ OutcomeInv
    BY DEF RolloutInv
  <2>2. QED
    BY <2>1 DEF TypeInv, ChildInv, LabelInv, OutcomeInv, WaitIsHonest, Waiting
<1>2. QED
  BY <1>1, RolloutInvariant, PTL

-----------------------------------------------------------------------------
(* Objects: any administrators, any Deployments, any number of writes.     *)

Whole == {"namespace", "secret", "configmap"}

Data == [Fields -> 0 .. MaxWrites]

(* The types of the module, and of the two variables it leaves out.        *)
ShapeInv ==
  /\ ClusterTypeOK /\ writes \in 0 .. MaxWrites
  /\ seen \in [Admins -> Data] /\ excuse \in BOOLEAN

(* A user of a secret that is behind it is still to be restarted.          *)
BehindInv ==
  kind = "secret" /\ ~excuse =>
    /\ object.there
    /\ \A d \in Users :
         \/ runs[d] = object.data
         \/ \E a \in Admins : stage[a] = "scan" \/ (stage[a] = "restart" /\ d \in todo[a])

(* What a request is about to apply differs from what it saw in the fields *)
(* its user typed; before it has read a secret again, it has these only.   *)
CarriesInv ==
  \A a \in Admins :
    /\ stage[a] = "get" => kind = "secret"
    /\ stage[a] = "page" /\ kind \in {"namespace", "configmap"} => manifest[a] = seen[a]
    /\ stage[a] = "page" /\ kind = "secret" => manifest[a] = Nothing
    /\ stage[a] = "get" => \A n \in Fields \ typed[a] : manifest[a][n] = Absent
    /\ stage[a] = "apply" /\ kind \in Whole /\ typed[a] # Fields =>
         \A n \in Fields \ typed[a] : manifest[a][n] = seen[a][n]

ObjectsInv == ShapeInv /\ BehindInv /\ CarriesInv

LEMMA ClusterTypes ==
  ASSUME ShapeInv
  PROVE  /\ kind \in Kinds /\ namespace \in BOOLEAN /\ excuse \in BOOLEAN
         /\ object \in [there: BOOLEAN, data: Data, applied: SUBSET Fields]
         /\ object.there \in BOOLEAN /\ object.data \in Data /\ object.applied \subseteq Fields
         /\ runs \in [Users -> Data]
         /\ stage \in [Admins -> {"idle", "page", "get", "apply", "scan", "restart"}]
         /\ seen \in [Admins -> Data] /\ manifest \in [Admins -> Data]
         /\ typed \in [Admins -> SUBSET Fields] /\ recorded \in [Admins -> SUBSET Fields]
         /\ todo \in [Admins -> SUBSET Users]
         /\ MaxWrites \in Nat /\ writes \in Nat /\ writes <= MaxWrites
         /\ 0 \in 0 .. MaxWrites /\ Nothing \in Data
         /\ writes < MaxWrites => Fresh \in 0 .. MaxWrites /\ Fresh \in Nat /\ Fresh # 0
<1>1. MaxWrites \in Nat
  BY ClusterAssumption DEF ClusterAssumption
<1>2. writes \in Nat /\ writes <= MaxWrites /\ 0 \in 0 .. MaxWrites
  BY <1>1 DEF ShapeInv
<1>3. writes < MaxWrites => Fresh \in 0 .. MaxWrites /\ Fresh \in Nat /\ Fresh # 0
  BY <1>1, <1>2 DEF Fresh
<1>4. Nothing \in Data
  BY <1>2 DEF Nothing, Data, Absent
<1>5. object \in [there: BOOLEAN, data: Data, applied: SUBSET Fields]
  BY DEF ShapeInv, ClusterTypeOK, Data
<1>6. object.there \in BOOLEAN /\ object.data \in Data /\ object.applied \subseteq Fields
  BY <1>5
<1>7. QED
  BY <1>1, <1>2, <1>3, <1>4, <1>5, <1>6 DEF ShapeInv, ClusterTypeOK, Data

(* What a saved request carries, whichever page it comes from.             *)
Sent(a) ==
  \E m \in Data, r \in SUBSET Fields, T \in SUBSET Fields, where \in {"get", "apply"} :
    /\ Request(a, m, r, T, where) /\ stage[a] \in {"idle", "page"}
    /\ where = "get" => kind = "secret" /\ \A n \in Fields \ T : m[n] = Absent
    /\ where = "apply" /\ kind \in Whole /\ T # Fields => \A n \in Fields \ T : m[n] = seen[a][n]

LEMMA ChangesAre ==
  ASSUME ShapeInv, writes < MaxWrites, NEW a \in Admins, NEW c \in Changes(a)
  PROVE  /\ c[1] \in Data /\ c[2] \subseteq Fields /\ In(c[1]) \subseteq Fields
         /\ \A n \in Fields \ c[2] : c[1][n] = manifest[a][n]
<1>0. manifest[a] \in Data /\ 0 \in 0 .. MaxWrites /\ Fresh \in 0 .. MaxWrites /\ FieldsOf \subseteq Fields
  BY ClusterTypes DEF FieldsOf, Fields
<1>1. CASE c = <<manifest[a], {}>>
  BY <1>0, <1>1 DEF In
<1>2. ASSUME NEW n \in FieldsOf \ {"detail", "aside"}, NEW v \in {Absent, Fresh},
             c = <<[manifest[a] EXCEPT ![n] = v], {n}>>
      PROVE  /\ c[1] \in Data /\ c[2] \subseteq Fields /\ In(c[1]) \subseteq Fields
             /\ \A k \in Fields \ c[2] : c[1][k] = manifest[a][k]
  <2>1. c[1] = [manifest[a] EXCEPT ![n] = v] /\ c[2] = {n} /\ n \in Fields /\ v \in 0 .. MaxWrites
    BY <1>0, <1>2 DEF Absent
  <2>2. QED
    BY <1>0, <2>1 DEF Data, In
<1>3. QED
  BY <1>1, <1>2 DEF Changes

LEMMA SavesSend ==
  ASSUME ShapeInv, CarriesInv, NEW a \in Admins, NEW k \in {"namespace", "ingress", "configmap"}, SavesWhole(a, k)
  PROVE  Sent(a)
<1>1. PICK c \in Changes(a) : Request(a, c[1], In(c[1]), c[2], "apply")
  BY DEF SavesWhole
<1>2. writes < MaxWrites /\ stage[a] = "page" /\ kind = k
  BY <1>1 DEF SavesWhole, Request
<1>3. /\ c[1] \in Data /\ c[2] \subseteq Fields /\ In(c[1]) \subseteq Fields
      /\ \A n \in Fields \ c[2] : c[1][n] = manifest[a][n]
  BY <1>2, ChangesAre
<1>4. kind \in Whole => \A n \in Fields \ c[2] : c[1][n] = seen[a][n]
  BY <1>2, <1>3 DEF CarriesInv, Whole
<1>5. QED
  BY <1>1, <1>2, <1>3, <1>4 DEF Sent

LEMMA CreatesSend ==
  ASSUME ShapeInv, NEW a \in Admins, NEW k, NEW noted, CreateObject(a, k, noted)
  PROVE  Sent(a)
<1>1. PICK n \in FieldsOf \ {"detail", "aside", "more"} :
         Request(a, [Nothing EXCEPT ![n] = Fresh], {n} \intersect noted, Fields, "apply")
  BY DEF CreateObject
<1>2. writes < MaxWrites /\ stage[a] = "idle" /\ n \in Fields
  BY <1>1 DEF CreateObject, Request, FieldsOf, Fields
<1>3. [Nothing EXCEPT ![n] = Fresh] \in Data /\ {n} \intersect noted \subseteq Fields
  BY <1>2, ClusterTypes DEF Data
<1>4. QED
  BY <1>1, <1>2, <1>3 DEF Sent

LEMMA SecretsSend ==
  ASSUME ShapeInv, CarriesInv, NEW a \in Admins, EditSecret(a)
  PROVE  Sent(a)
<1>1. ASSUME kind = "secret", NEW c \in Changes(a), Request(a, c[1], {}, c[2], "get") PROVE Sent(a)
  <2>1. writes < MaxWrites /\ stage[a] = "page" /\ manifest[a] = Nothing
    BY <1>1 DEF EditSecret, Request, CarriesInv
  <2>2. /\ c[1] \in Data /\ c[2] \subseteq Fields
        /\ \A n \in Fields \ c[2] : c[1][n] = manifest[a][n]
    BY <1>1, <2>1, ChangesAre
  <2>3. \A n \in Fields \ c[2] : c[1][n] = Absent
    BY <2>1, <2>2 DEF Nothing
  <2>4. QED
    BY <1>1, <2>1, <2>2, <2>3 DEF Sent
<1>2. CASE kind = "pull" /\ Request(a, Blob, {}, Fields, "apply")
  <2>1. writes < MaxWrites /\ stage[a] = "page"
    BY <1>2 DEF EditSecret, Request
  <2>2. Blob \in Data
    BY <2>1, ClusterTypes DEF Blob, Data, Absent
  <2>3. QED
    BY <1>2, <2>1, <2>2 DEF Sent
<1>3. QED
  BY <1>1, <1>2 DEF EditSecret

LEMMA ObjectsCases ==
  ASSUME ShapeInv, CarriesInv, [ClusterNext]_clusterObjectsVars
  PROVE  \/ \E a \in Admins :
              \/ OpenPage(a) \/ Sent(a) \/ UpdateSecret(a) \/ Fails(a) \/ Apply(a) \/ Scan(a) \/ AllRestarted(a)
              \/ \E d \in Users : RestartDeployment(a, d)
              \/ \E k \in Kinds : DeleteObject(a, k) /\ namespace' \in BOOLEAN
              \/ RequestDies(a)
         \/ \E d \in Users : RestartWorkload(d)
         \/ OutsideChange \/ UNCHANGED clusterObjectsVars
<1>1. ASSUME NEW a \in Admins, EditNamespace(a) \/ EditIngress(a) PROVE Sent(a)
  BY <1>1, SavesSend DEF EditNamespace, EditIngress
<1>2. ASSUME NEW a \in Admins, EditConfigMap(a) PROVE Sent(a)
  BY <1>2, SavesSend DEF EditConfigMap, SavesWhole
<1>3. ASSUME NEW a \in Admins, CreateNamespace(a) \/ CreateSecret(a) \/ CreateConfigMap(a) \/ CreateIngress(a)
      PROVE  Sent(a)
  BY <1>3, CreatesSend DEF CreateNamespace, CreateSecret, CreateConfigMap, CreateIngress
<1>4. ASSUME NEW a \in Admins, DeleteNamespace(a) \/ DeleteSecret(a) \/ DeleteConfigMap(a) \/ DeleteIngress(a)
      PROVE  \E k \in Kinds : DeleteObject(a, k) /\ namespace' \in BOOLEAN
  BY <1>4, ClusterTypes DEF DeleteNamespace, DeleteSecret, DeleteConfigMap, DeleteIngress, Kinds
<1>5. ASSUME NEW a \in Admins, ClusterRequest(a)
      PROVE  \/ OpenPage(a) \/ Sent(a) \/ UpdateSecret(a) \/ Fails(a) \/ Apply(a) \/ Scan(a) \/ AllRestarted(a)
             \/ \E d \in Users : RestartDeployment(a, d)
             \/ \E k \in Kinds : DeleteObject(a, k) /\ namespace' \in BOOLEAN
             \/ RequestDies(a)
  BY <1>1, <1>2, <1>3, <1>4, <1>5, SecretsSend DEF ClusterRequest
<1>6. QED
  BY <1>5 DEF ClusterNext

(* What the end of a request leaves. *)
LEMMA FinishShapes ==
  ASSUME ShapeInv, NEW a \in Admins, NEW behind \in BOOLEAN, Finish(a, behind),
         kind' = kind, namespace' \in BOOLEAN, runs' = runs,
         object' \in [there: BOOLEAN, data: Data, applied: SUBSET Fields]
  PROVE  ShapeInv'
<1>1. /\ stage' \in [Admins -> {"idle", "page", "get", "apply", "scan", "restart"}]
      /\ seen' \in [Admins -> Data] /\ manifest' \in [Admins -> Data]
  BY ClusterTypes DEF Finish
<1>2. /\ typed' \in [Admins -> SUBSET Fields] /\ recorded' \in [Admins -> SUBSET Fields]
      /\ todo' \in [Admins -> SUBSET Users]
  BY ClusterTypes DEF Finish
<1>3. excuse' \in BOOLEAN /\ writes' = writes /\ outside' = outside
  BY DEF Finish
<1>4. QED
  BY <1>1, <1>2, <1>3, ClusterTypes DEF ShapeInv, ClusterTypeOK, Data

LEMMA AppliedIs ==
  ASSUME ShapeInv, NEW a \in Admins
  PROVE  /\ Applied(manifest[a], recorded[a]) \in [there: BOOLEAN, data: Data, applied: SUBSET Fields]
         /\ Applied(manifest[a], recorded[a]).there = TRUE
         /\ \A n \in Fields : Applied(manifest[a], recorded[a]).data[n] \in {manifest[a][n], Absent, object.data[n]}
<1>0. /\ manifest[a] \in Data /\ object.data \in Data /\ recorded[a] \subseteq Fields /\ 0 \in 0 .. MaxWrites
  BY ClusterTypes
<1> DEFINE whole == IF kind = "ingress" THEN {"shown", "detail", "more"} ELSE {}
           Keep(n) == IF n \in object.applied \union whole THEN Absent ELSE object.data[n]
           data == [n \in Fields |-> IF manifest[a][n] # Absent THEN manifest[a][n] ELSE Keep(n)]
<1>1. Applied(manifest[a], recorded[a]) = [there |-> TRUE, applied |-> recorded[a], data |-> data]
  BY DEF Applied
<1>2. \A n \in Fields : Keep(n) \in {Absent, object.data[n]}
  OBVIOUS
<1> HIDE DEF Keep
<1>3. \A n \in Fields : data[n] \in {manifest[a][n], Absent, object.data[n]}
  BY <1>2
<1>4. \A n \in Fields : manifest[a][n] \in 0 .. MaxWrites /\ object.data[n] \in 0 .. MaxWrites /\ Absent \in 0 .. MaxWrites
  BY <1>0 DEF Data, Absent
<1>5. data \in Data
  BY <1>3, <1>4 DEF Data
<1> HIDE DEF data
<1>6. QED
  BY <1>0, <1>1, <1>3, <1>5

LEMMA StepShape ==
  ASSUME ShapeInv, CarriesInv, [ClusterNext]_clusterObjectsVars
  PROVE  ShapeInv'
<1>0. /\ kind \in Kinds /\ namespace \in BOOLEAN
      /\ object \in [there: BOOLEAN, data: Data, applied: SUBSET Fields]
  BY ClusterTypes
<1>1. ASSUME NEW a \in Admins, OpenPage(a) PROVE ShapeInv'
  <2>1. /\ [object.data EXCEPT !["detail"] = Absent, !["aside"] = Absent] \in Data
        /\ [object.data EXCEPT !["aside"] = Absent] \in Data
    BY ClusterTypes DEF Data, Absent
  <2>2. PICK form \in Data : Opens(a, form)
    BY <1>1, <2>1, ClusterTypes DEF OpenPage, RenderNamespaces, RenderSecrets, RenderConfigMaps, RenderIngressForm, RenderIngressYaml
  <2>3. /\ stage' \in [Admins -> {"idle", "page", "get", "apply", "scan", "restart"}]
        /\ seen' \in [Admins -> Data] /\ manifest' \in [Admins -> Data]
    BY <2>2, ClusterTypes DEF Opens
  <2>4. QED
    BY <2>2, <2>3, ClusterTypes DEF Opens, objectVars, ShapeInv, ClusterTypeOK, Data
<1>2. ASSUME NEW a \in Admins, Sent(a) PROVE ShapeInv'
  <2>1. PICK m \in Data, r \in SUBSET Fields, T \in SUBSET Fields, where \in {"get", "apply"} : Request(a, m, r, T, where)
    BY <1>2 DEF Sent
  <2>2. /\ stage' \in [Admins -> {"idle", "page", "get", "apply", "scan", "restart"}]
        /\ manifest' \in [Admins -> Data]
        /\ typed' \in [Admins -> SUBSET Fields] /\ recorded' \in [Admins -> SUBSET Fields]
    BY <2>1, ClusterTypes DEF Request
  <2>3. writes' \in 0 .. MaxWrites
    BY <2>1, ClusterTypes DEF Request
  <2>4. QED
    BY <2>1, <2>2, <2>3, ClusterTypes DEF Request, objectVars, ShapeInv, ClusterTypeOK, Data
<1>3. ASSUME NEW a \in Admins, UpdateSecret(a) PROVE ShapeInv'
  <2> DEFINE kept == In(object.data) \ typed[a]
             filled == [n \in Fields |-> IF n \in kept THEN object.data[n] ELSE manifest[a][n]]
  <2>1. filled \in Data /\ kept \subseteq Fields
    BY <1>3, ClusterTypes DEF Data, In
  <2>2. /\ seen' = [seen EXCEPT ![a] = object.data] /\ manifest' = [manifest EXCEPT ![a] = filled]
        /\ recorded' = [recorded EXCEPT ![a] = kept] /\ stage' = [stage EXCEPT ![a] = "apply"]
        /\ UNCHANGED <<objectVars, runs, typed, todo, writes, outside, excuse>>
    BY <1>3 DEF UpdateSecret
  <2> HIDE DEF filled, kept
  <2>3. /\ stage' \in [Admins -> {"idle", "page", "get", "apply", "scan", "restart"}]
        /\ manifest' \in [Admins -> Data] /\ seen' \in [Admins -> Data]
        /\ recorded' \in [Admins -> SUBSET Fields]
    BY <2>1, <2>2, ClusterTypes
  <2>4. QED
    BY <2>2, <2>3, ClusterTypes DEF objectVars, ShapeInv, ClusterTypeOK, Data
<1>4. ASSUME NEW a \in Admins, Fails(a) \/ AllRestarted(a) \/ RequestDies(a) PROVE ShapeInv'
  <2>1. Finish(a, FALSE) \/ Finish(a, stage[a] \in {"scan", "restart"})
    BY <1>4 DEF Fails, AllRestarted, RequestDies
  <2>2. UNCHANGED <<kind, namespace, object, runs>>
    BY <1>4 DEF Fails, AllRestarted, RequestDies, objectVars
  <2>3. QED
    BY <1>0, <2>1, <2>2, FinishShapes, FALSE \in BOOLEAN, (stage[a] \in {"scan", "restart"}) \in BOOLEAN
<1>5. ASSUME NEW a \in Admins, Apply(a) PROVE ShapeInv'
  <2>1. /\ object' = Applied(manifest[a], recorded[a]) /\ namespace' = TRUE /\ UNCHANGED <<kind, runs>>
        /\ object' \in [there: BOOLEAN, data: Data, applied: SUBSET Fields]
    BY <1>5, AppliedIs DEF Apply
  <2>2. CASE Restarts(a)
    <3>1. /\ stage' = [stage EXCEPT ![a] = "scan"]
          /\ UNCHANGED <<seen, manifest, recorded, typed, todo, writes, outside, excuse>>
      BY <1>5, <2>2 DEF Apply
    <3>2. stage' \in [Admins -> {"idle", "page", "get", "apply", "scan", "restart"}]
      BY <3>1, ClusterTypes
    <3>3. QED
      BY <2>1, <3>1, <3>2, ClusterTypes DEF ShapeInv, ClusterTypeOK, Data
  <2>3. CASE ~Restarts(a)
    <3>1. PICK behind \in BOOLEAN : Finish(a, behind)
      BY <1>5, <2>3 DEF Apply
    <3>2. QED
      BY <2>1, <3>1, FinishShapes
  <2>4. QED
    BY <2>2, <2>3
<1>6. ASSUME NEW a \in Admins, Scan(a) PROVE ShapeInv'
  <2>1. CASE Finish(a, TRUE)
    BY <1>0, <1>6, <2>1, FinishShapes DEF Scan, objectVars
  <2>2. CASE /\ todo' = [todo EXCEPT ![a] = DeploymentsUsing] /\ stage' = [stage EXCEPT ![a] = "restart"]
             /\ UNCHANGED <<seen, manifest, recorded, typed, writes, outside, excuse>>
    <3>1. /\ stage' \in [Admins -> {"idle", "page", "get", "apply", "scan", "restart"}]
          /\ todo' \in [Admins -> SUBSET Users]
      BY <2>2, ClusterTypes DEF DeploymentsUsing
    <3>2. QED
      BY <1>6, <2>2, <3>1, ClusterTypes DEF Scan, objectVars, ShapeInv, ClusterTypeOK, Data
  <2>3. QED
    BY <1>6, <2>1, <2>2 DEF Scan
<1>7. ASSUME NEW a \in Admins, NEW d \in Users, RestartDeployment(a, d) PROVE ShapeInv'
  <2>1. todo' \in [Admins -> SUBSET Users] /\ runs' \in [Users -> Data]
    BY <1>7, ClusterTypes DEF RestartDeployment
  <2>2. excuse' \in BOOLEAN
    BY <1>7, ClusterTypes DEF RestartDeployment
  <2>3. QED
    BY <1>7, <2>1, <2>2, ClusterTypes DEF RestartDeployment, objectVars, ShapeInv, ClusterTypeOK, Data
<1>8. ASSUME NEW a \in Admins, NEW k \in Kinds, DeleteObject(a, k), namespace' \in BOOLEAN PROVE ShapeInv'
  <2>1. object' \in [there: BOOLEAN, data: Data, applied: SUBSET Fields]
    BY <1>8, ClusterTypes DEF DeleteObject
  <2>2. excuse' \in BOOLEAN
    BY <1>8 DEF DeleteObject
  <2>3. QED
    BY <1>8, <2>1, <2>2, ClusterTypes DEF DeleteObject, requestVars, ShapeInv, ClusterTypeOK, Data
<1>9. ASSUME NEW d \in Users, RestartWorkload(d) PROVE ShapeInv'
  <2>1. runs' \in [Users -> Data]
    BY <1>9, ClusterTypes DEF RestartWorkload
  <2>2. QED
    BY <1>9, <2>1, ClusterTypes DEF RestartWorkload, objectVars, requestVars, ShapeInv, ClusterTypeOK, Data
<1>10. CASE OutsideChange
  <2>1. writes' \in 0 .. MaxWrites /\ Fresh \in 0 .. MaxWrites /\ Absent \in 0 .. MaxWrites
    BY <1>10, ClusterTypes DEF OutsideChange, Absent
  <2>2. PICK n \in FieldsOf, v \in {Absent, Fresh}, apply \in BOOLEAN :
           object' = [object EXCEPT !.data[n] = v, !.applied = IF apply THEN @ \union {n} ELSE @]
    BY <1>10 DEF OutsideChange
  <2>3. n \in Fields /\ v \in 0 .. MaxWrites
    BY <2>1 DEF FieldsOf, Fields
  <2>4. [object.data EXCEPT ![n] = v] \in Data
    BY <2>3, ClusterTypes DEF Data
  <2>5. object' = [object EXCEPT !.data = [object.data EXCEPT ![n] = v],
                                 !.applied = IF apply THEN object.applied \union {n} ELSE object.applied]
    BY <1>0, <2>2
  <2>6. object' \in [there: BOOLEAN, data: Data, applied: SUBSET Fields]
    BY <1>0, <2>3, <2>4, <2>5
  <2>7. excuse' \in BOOLEAN
    BY <1>10 DEF OutsideChange
  <2>8. QED
    BY <1>10, <2>1, <2>6, <2>7, ClusterTypes DEF OutsideChange, requestVars, ShapeInv, ClusterTypeOK, Data
<1>11. CASE UNCHANGED clusterObjectsVars
  BY <1>11 DEF clusterObjectsVars, objectVars, requestVars, ShapeInv, ClusterTypeOK, Data
<1>12. QED
  BY <1>1, <1>2, <1>3, <1>4, <1>5, <1>6, <1>7, <1>8, <1>9, <1>10, <1>11, ObjectsCases

LEMMA StepBehind ==
  ASSUME ObjectsInv, [ClusterNext]_clusterObjectsVars
  PROVE  BehindInv'
<1>0. ShapeInv /\ BehindInv /\ CarriesInv
  BY DEF ObjectsInv
<1>t. /\ excuse \in BOOLEAN /\ runs \in [Users -> Data] /\ todo \in [Admins -> SUBSET Users]
      /\ stage \in [Admins -> {"idle", "page", "get", "apply", "scan", "restart"}]
      /\ typed \in [Admins -> SUBSET Fields]
  BY <1>0, ClusterTypes
<1>a. ASSUME UNCHANGED <<kind, object, runs>>, excuse => excuse',
             \A a \in Admins : stage[a] \in {"scan", "restart"} => stage'[a] = stage[a] /\ todo'[a] = todo[a]
      PROVE  BehindInv'
  BY <1>0, <1>a DEF BehindInv
<1>e. ASSUME excuse' \/ kind' # "secret" PROVE BehindInv'
  BY <1>e DEF BehindInv
<1>1. ASSUME NEW a \in Admins, OpenPage(a) PROVE BehindInv'
  <2>1. /\ stage[a] = "idle" /\ stage' = [stage EXCEPT ![a] = "page"]
        /\ UNCHANGED <<kind, object, runs, todo, excuse>>
    BY <1>1 DEF OpenPage, Opens, objectVars
  <2>2. QED
    BY <1>t, <1>a, <2>1
<1>2. ASSUME NEW a \in Admins, Sent(a) PROVE BehindInv'
  <2>1. /\ stage[a] \in {"idle", "page"} /\ \A b \in Admins \ {a} : stage'[b] = stage[b]
        /\ UNCHANGED <<kind, object, runs, todo, excuse>>
    BY <1>2, <1>t DEF Sent, Request, objectVars
  <2>2. QED
    BY <1>t, <1>a, <2>1
<1>3. ASSUME NEW a \in Admins, UpdateSecret(a) PROVE BehindInv'
  <2>1. /\ stage[a] = "get" /\ stage' = [stage EXCEPT ![a] = "apply"]
        /\ UNCHANGED <<kind, object, runs, todo, excuse>>
    BY <1>3 DEF UpdateSecret, objectVars
  <2>2. QED
    BY <1>t, <1>a, <2>1
<1>4. ASSUME NEW a \in Admins, Fails(a) PROVE BehindInv'
  <2>1. /\ stage[a] \in {"page", "get", "apply"} /\ stage' = [stage EXCEPT ![a] = "idle"]
        /\ todo' = [todo EXCEPT ![a] = {}] /\ UNCHANGED <<kind, object, runs>>
    BY <1>4 DEF Fails, Finish, objectVars
  <2>2. excuse => excuse'
    BY <1>4 DEF Fails, Finish
  <2>3. QED
    BY <1>t, <1>a, <2>1, <2>2
<1>5. ASSUME NEW a \in Admins, AllRestarted(a) PROVE BehindInv'
  <2>1. /\ stage[a] = "restart" /\ todo[a] = {} /\ stage' = [stage EXCEPT ![a] = "idle"]
        /\ todo' = [todo EXCEPT ![a] = {}] /\ UNCHANGED <<kind, object, runs>>
    BY <1>5 DEF AllRestarted, Finish, objectVars
  <2>2. excuse => excuse'
    BY <1>5 DEF AllRestarted, Finish
  <2>3. QED
    BY <1>0, <1>t, <2>1, <2>2 DEF BehindInv
<1>6. ASSUME NEW a \in Admins, RequestDies(a) PROVE BehindInv'
  <2>1. CASE stage[a] \in {"scan", "restart"}
    BY <1>6, <2>1, <1>e DEF RequestDies, Finish
  <2>2. CASE stage[a] \notin {"scan", "restart"}
    <3>1. /\ stage' = [stage EXCEPT ![a] = "idle"] /\ todo' = [todo EXCEPT ![a] = {}] /\ UNCHANGED <<kind, object, runs>>
      BY <1>6 DEF RequestDies, Finish, objectVars
    <3>2. excuse => excuse'
      BY <1>6 DEF RequestDies, Finish
    <3>3. QED
      BY <1>t, <1>a, <2>2, <3>1, <3>2
  <2>3. QED
    BY <2>1, <2>2
<1>7. ASSUME NEW a \in Admins, Apply(a) PROVE BehindInv'
  <2>0. object'.there = TRUE /\ object' = Applied(manifest[a], recorded[a]) /\ UNCHANGED <<kind, runs>> /\ stage[a] = "apply"
    BY <1>0, <1>7, AppliedIs DEF Apply
  <2>1. CASE Restarts(a)
    <3>1. stage' = [stage EXCEPT ![a] = "scan"]
      BY <1>7, <2>1 DEF Apply
    <3>2. stage'[a] = "scan"
      BY <1>t, <3>1
    <3>3. QED
      BY <2>0, <3>2 DEF BehindInv
  <2>2. CASE ~Restarts(a) /\ kind = "secret" /\ object'.data = object.data
    <3>1. Finish(a, kind = "secret" /\ Applied(manifest[a], recorded[a]).data # object.data)
      BY <1>7, <2>2 DEF Apply
    <3>2. excuse => excuse'
      BY <3>1 DEF Finish
    <3>3. stage' = [stage EXCEPT ![a] = "idle"] /\ todo' = [todo EXCEPT ![a] = {}]
      BY <3>1 DEF Finish
    <3>4. \A b \in Admins : stage[b] \in {"scan", "restart"} => stage'[b] = stage[b] /\ todo'[b] = todo[b]
      BY <1>t, <2>0, <3>3
    <3>5. QED
      BY <1>0, <2>0, <2>2, <3>2, <3>4 DEF BehindInv
  <2>3. CASE ~Restarts(a) /\ kind = "secret" /\ object'.data # object.data
    <3>1. Finish(a, kind = "secret" /\ Applied(manifest[a], recorded[a]).data # object.data)
      BY <1>7, <2>3 DEF Apply
    <3>2. excuse'
      BY <2>0, <2>3, <3>1 DEF Finish
    <3>3. QED
      BY <1>e, <3>2
  <2>4. CASE kind # "secret"
    BY <1>e, <2>0, <2>4
  <2>5. QED
    BY <2>1, <2>2, <2>3, <2>4
<1>8. ASSUME NEW a \in Admins, Scan(a) PROVE BehindInv'
  <2>1. CASE Finish(a, TRUE)
    BY <2>1, <1>e DEF Finish
  <2>2. CASE /\ todo' = [todo EXCEPT ![a] = DeploymentsUsing] /\ stage' = [stage EXCEPT ![a] = "restart"]
             /\ UNCHANGED <<seen, manifest, recorded, typed, writes, outside, excuse>>
    <3>1. UNCHANGED <<kind, object, runs, excuse>> /\ stage[a] = "scan"
      BY <1>8, <2>2 DEF Scan, objectVars
    <3>2. stage'[a] = "restart" /\ \A d \in Users : d \in todo'[a]
      BY <1>t, <2>2 DEF DeploymentsUsing
    <3>3. QED
      BY <1>0, <3>1, <3>2 DEF BehindInv
  <2>3. QED
    BY <1>8, <2>1, <2>2 DEF Scan
<1>9. ASSUME NEW a \in Admins, NEW d \in Users, RestartDeployment(a, d) PROVE BehindInv'
  <2>1. CASE excuse' = TRUE
    BY <2>1, <1>e
  <2>2. CASE runs' = [runs EXCEPT ![d] = object.data] /\ UNCHANGED excuse
    <3>1. /\ UNCHANGED <<kind, object, stage>> /\ todo' = [todo EXCEPT ![a] = todo[a] \ {d}]
      BY <1>9 DEF RestartDeployment, objectVars
    <3>2. /\ runs'[d] = object'.data /\ \A u \in Users \ {d} : runs'[u] = runs[u]
          /\ \A b \in Admins, u \in Users \ {d} : u \in todo[b] => u \in todo'[b]
      BY <1>t, <2>2, <3>1
    <3>3. QED
      BY <1>0, <2>2, <3>1, <3>2 DEF BehindInv
  <2>3. QED
    BY <1>9, <2>1, <2>2 DEF RestartDeployment
<1>10. ASSUME NEW a \in Admins, NEW k \in Kinds, DeleteObject(a, k) PROVE BehindInv'
  <2>1. kind' = kind /\ kind = k
    BY <1>10 DEF DeleteObject
  <2>2. excuse' \/ kind' # "secret"
    BY <1>10, <2>1 DEF DeleteObject
  <2>3. QED
    BY <1>e, <2>2
<1>11. ASSUME NEW d \in Users, RestartWorkload(d) PROVE BehindInv'
  <2>1. /\ runs' = [runs EXCEPT ![d] = object.data] /\ UNCHANGED <<kind, object, stage, todo, excuse>>
    BY <1>11 DEF RestartWorkload, objectVars, requestVars
  <2>2. QED
    BY <1>0, <1>t, <2>1 DEF BehindInv
<1>12. CASE OutsideChange
  <2>1. kind' = kind
    BY <1>12 DEF OutsideChange
  <2>2. excuse' \/ kind' # "secret"
    BY <1>12, <2>1 DEF OutsideChange
  <2>3. QED
    BY <1>e, <2>2
<1>13. CASE UNCHANGED clusterObjectsVars
  <2>1. UNCHANGED <<kind, object, runs, stage, todo>> /\ excuse' = excuse
    BY <1>13 DEF clusterObjectsVars, objectVars, requestVars
  <2>2. QED
    BY <1>a, <2>1
<1>14. QED
  BY <1>0, <1>1, <1>2, <1>3, <1>4, <1>5, <1>6, <1>7, <1>8, <1>9, <1>10, <1>11, <1>12, <1>13, ObjectsCases

LEMMA StepCarries ==
  ASSUME ObjectsInv, [ClusterNext]_clusterObjectsVars
  PROVE  CarriesInv'
<1>0. ShapeInv /\ BehindInv /\ CarriesInv
  BY DEF ObjectsInv
<1>t. /\ object.data \in Data /\ seen \in [Admins -> Data] /\ manifest \in [Admins -> Data]
      /\ stage \in [Admins -> {"idle", "page", "get", "apply", "scan", "restart"}]
      /\ typed \in [Admins -> SUBSET Fields]
  BY <1>0, ClusterTypes
<1>a. ASSUME kind' = kind, NEW b \in Admins,
             stage'[b] \in {"idle", "scan", "restart"} \/
             (stage'[b] = stage[b] /\ seen'[b] = seen[b] /\ manifest'[b] = manifest[b] /\ typed'[b] = typed[b])
      PROVE  /\ stage'[b] = "get" => kind' = "secret"
             /\ stage'[b] = "page" /\ kind' \in {"namespace", "configmap"} => manifest'[b] = seen'[b]
             /\ stage'[b] = "page" /\ kind' = "secret" => manifest'[b] = Nothing
             /\ stage'[b] = "get" => \A n \in Fields \ typed'[b] : manifest'[b][n] = Absent
             /\ stage'[b] = "apply" /\ kind' \in Whole /\ typed'[b] # Fields =>
                  \A n \in Fields \ typed'[b] : manifest'[b][n] = seen'[b][n]
  BY <1>0, <1>a DEF CarriesInv
<1>b. ASSUME kind' = kind, NEW a \in Admins,
             \A b \in Admins \ {a} :
               stage'[b] = stage[b] /\ seen'[b] = seen[b] /\ manifest'[b] = manifest[b] /\ typed'[b] = typed[b],
             stage'[a] = "get" => kind' = "secret",
             stage'[a] = "page" /\ kind' \in {"namespace", "configmap"} => manifest'[a] = seen'[a],
             stage'[a] = "page" /\ kind' = "secret" => manifest'[a] = Nothing,
             stage'[a] = "get" => \A n \in Fields \ typed'[a] : manifest'[a][n] = Absent,
             stage'[a] = "apply" /\ kind' \in Whole /\ typed'[a] # Fields =>
               \A n \in Fields \ typed'[a] : manifest'[a][n] = seen'[a][n]
      PROVE  CarriesInv'
  BY <1>a, <1>b, Zenon DEF CarriesInv
<1>c. ASSUME UNCHANGED <<kind, stage, seen, manifest, typed>> PROVE CarriesInv'
  BY <1>0, <1>c DEF CarriesInv
<1>f. ASSUME NEW a \in Admins, NEW behind, Finish(a, behind), kind' = kind PROVE CarriesInv'
  <2>1. /\ stage'[a] = "idle"
        /\ \A b \in Admins \ {a} :
              stage'[b] = stage[b] /\ seen'[b] = seen[b] /\ manifest'[b] = manifest[b] /\ typed'[b] = typed[b]
    BY <1>t, <1>f DEF Finish
  <2>2. QED
    BY <1>b, <1>f, <2>1
<1>1. ASSUME NEW a \in Admins, OpenPage(a) PROVE CarriesInv'
  <2>1. PICK form : /\ Opens(a, form)
                    /\ kind \in {"namespace", "configmap"} => form = object.data
                    /\ kind = "secret" => form = Nothing
    BY <1>1 DEF OpenPage, RenderNamespaces, RenderSecrets, RenderConfigMaps
  <2>o. Opens(a, form)
    BY <2>1
  <2>2. /\ kind' = kind /\ stage' = [stage EXCEPT ![a] = "page"] /\ seen' = [seen EXCEPT ![a] = object.data]
        /\ manifest' = [manifest EXCEPT ![a] = form] /\ typed' = typed
    BY <2>o DEF Opens, objectVars
  <2>3. /\ stage'[a] = "page" /\ seen'[a] = object.data /\ manifest'[a] = form
        /\ \A b \in Admins \ {a} :
              stage'[b] = stage[b] /\ seen'[b] = seen[b] /\ manifest'[b] = manifest[b] /\ typed'[b] = typed[b]
    BY <1>t, <2>2
  <2>4. /\ stage'[a] # "get" /\ stage'[a] # "apply"
        /\ stage'[a] = "page" /\ kind' \in {"namespace", "configmap"} => manifest'[a] = seen'[a]
        /\ stage'[a] = "page" /\ kind' = "secret" => manifest'[a] = Nothing
    BY <2>1, <2>2, <2>3
  <2>5. QED
    BY <1>b, <2>2, <2>3, <2>4
<1>2. ASSUME NEW a \in Admins, Sent(a) PROVE CarriesInv'
  <2>1. PICK m \in Data, r \in SUBSET Fields, T \in SUBSET Fields, where \in {"get", "apply"} :
           /\ Request(a, m, r, T, where)
           /\ where = "get" => kind = "secret" /\ \A n \in Fields \ T : m[n] = Absent
           /\ where = "apply" /\ kind \in Whole /\ T # Fields => \A n \in Fields \ T : m[n] = seen[a][n]
    BY <1>2 DEF Sent
  <2>2. /\ kind' = kind /\ seen' = seen /\ stage'[a] = where /\ manifest'[a] = m /\ typed'[a] = T
        /\ \A b \in Admins \ {a} : stage'[b] = stage[b] /\ manifest'[b] = manifest[b] /\ typed'[b] = typed[b]
    BY <1>t, <2>1 DEF Request, objectVars
  <2>3. QED
    BY <1>b, <2>1, <2>2
<1>3. ASSUME NEW a \in Admins, UpdateSecret(a) PROVE CarriesInv'
  <2> DEFINE kept == In(object.data) \ typed[a]
             filled == [n \in Fields |-> IF n \in kept THEN object.data[n] ELSE manifest[a][n]]
  <2>1. filled = [n \in Fields |-> IF n \in kept THEN object.data[n] ELSE manifest[a][n]]
    OBVIOUS
  <2>2. /\ seen' = [seen EXCEPT ![a] = object.data] /\ stage' = [stage EXCEPT ![a] = "apply"]
        /\ stage[a] = "get" /\ kind' = kind /\ typed' = typed
    BY <1>3 DEF UpdateSecret, objectVars
  <2>3. manifest' = [manifest EXCEPT ![a] = filled]
    BY <1>3 DEF UpdateSecret
  <2>4. ASSUME NEW n \in Fields \ typed[a] PROVE filled[n] = object.data[n]
    <3>1. n \in kept <=> object.data[n] # Absent
      BY <2>4 DEF In
    <3>2. manifest[a][n] = Absent
      BY <1>0, <2>2, <2>4 DEF CarriesInv
    <3>3. QED
      BY <2>1, <2>4, <3>1, <3>2
  <2> HIDE DEF filled, kept
  <2>5. /\ stage'[a] = "apply" /\ seen'[a] = object.data /\ manifest'[a] = filled
        /\ \A b \in Admins \ {a} :
              stage'[b] = stage[b] /\ seen'[b] = seen[b] /\ manifest'[b] = manifest[b] /\ typed'[b] = typed[b]
    BY <1>t, <2>2, <2>3
  <2>6. QED
    BY <1>b, <2>2, <2>4, <2>5
<1>4. ASSUME NEW a \in Admins, Fails(a) \/ AllRestarted(a) \/ RequestDies(a) PROVE CarriesInv'
  BY <1>4, <1>f DEF Fails, AllRestarted, RequestDies, objectVars
<1>5. ASSUME NEW a \in Admins, Apply(a) PROVE CarriesInv'
  <2>1. CASE Restarts(a)
    <3>1. stage' = [stage EXCEPT ![a] = "scan"] /\ UNCHANGED <<kind, seen, manifest, typed>>
      BY <1>5, <2>1 DEF Apply
    <3>2. stage'[a] = "scan" /\ \A b \in Admins \ {a} : stage'[b] = stage[b]
      BY <1>t, <3>1
    <3>3. QED
      BY <1>b, <3>1, <3>2
  <2>2. CASE ~Restarts(a)
    BY <1>5, <1>f, <2>2 DEF Apply
  <2>3. QED
    BY <2>1, <2>2
<1>6. ASSUME NEW a \in Admins, Scan(a) PROVE CarriesInv'
  <2>1. CASE Finish(a, TRUE)
    BY <1>6, <1>f, <2>1 DEF Scan, objectVars
  <2>2. CASE stage' = [stage EXCEPT ![a] = "restart"] /\ UNCHANGED <<seen, manifest, typed>>
    <3>1. stage'[a] = "restart" /\ kind' = kind /\ \A b \in Admins \ {a} : stage'[b] = stage[b]
      BY <1>6, <1>t, <2>2 DEF Scan, objectVars
    <3>2. QED
      BY <1>b, <2>2, <3>1
  <2>3. QED
    BY <1>6, <2>1, <2>2 DEF Scan
<1>7. ASSUME NEW a \in Admins, \/ \E d \in Users : RestartDeployment(a, d)
                               \/ \E k \in Kinds : DeleteObject(a, k)
      PROVE  CarriesInv'
  BY <1>7, <1>c DEF RestartDeployment, DeleteObject, objectVars, requestVars
<1>8. CASE (\E d \in Users : RestartWorkload(d)) \/ OutsideChange \/ UNCHANGED clusterObjectsVars
  BY <1>8, <1>c DEF RestartWorkload, OutsideChange, clusterObjectsVars, objectVars, requestVars
<1>9. QED
  BY <1>0, <1>1, <1>2, <1>3, <1>4, <1>5, <1>6, <1>7, <1>8, ObjectsCases

LEMMA AlwaysObjects == ClusterSpec => []ObjectsInv
<1>1. ClusterInit => ObjectsInv
  <2> SUFFICES ASSUME ClusterInit PROVE ObjectsInv
    OBVIOUS
  <2>0. MaxWrites \in Nat /\ 0 \in 0 .. MaxWrites
    BY ClusterAssumption DEF ClusterAssumption
  <2>1. Nothing \in Data
    BY <2>0 DEF Nothing, Data, Absent
  <2>2. ShapeInv
    BY <2>0, <2>1 DEF ClusterInit, ShapeInv, ClusterTypeOK, Data
  <2>3. BehindInv /\ CarriesInv
    BY DEF ClusterInit, BehindInv, CarriesInv
  <2>4. QED
    BY <2>2, <2>3 DEF ObjectsInv
<1>2. ObjectsInv /\ [ClusterNext]_clusterObjectsVars => ObjectsInv'
  <2> SUFFICES ASSUME ObjectsInv, [ClusterNext]_clusterObjectsVars PROVE ObjectsInv'
    OBVIOUS
  <2>1. ShapeInv'
    BY StepShape DEF ObjectsInv
  <2>2. QED
    BY <2>1, StepBehind, StepCarries DEF ObjectsInv
<1>3. QED
  BY <1>1, <1>2, PTL DEF ClusterSpec

(* The pages, the cluster and the requests keep their types.               *)
THEOREM ClusterTypeCorrect == ClusterSpec => []ClusterTypeOK
<1>1. ObjectsInv => ClusterTypeOK
  BY DEF ObjectsInv, ShapeInv
<1>2. QED
  BY <1>1, AlwaysObjects, PTL

(* Once no save of the secret is under way, every Deployment that uses it  *)
(* runs with what it holds, or the code has an excuse: however many saves  *)
(* interleave, whatever is applied beneath a restart is restarted for by   *)
(* whoever applied it.                                                     *)
THEOREM SecretUsersCatchUp == ClusterSpec => []UsersCatchUp
<1>1. ObjectsInv => UsersCatchUp
  BY DEF ObjectsInv, BehindInv, UsersCatchUp
<1>2. QED
  BY <1>1, AlwaysObjects, PTL

(* No save changes a key that its user left alone, unless the key changed  *)
(* on the cluster since the page, or the secret, was read.                 *)
THEOREM UntouchedKeysAreKept == ClusterSpec => UntouchedKeysSurvive
<1> DEFINE Survives ==
      \A a \in Admins :
        /\ stage[a] = "apply" /\ stage'[a] # "apply"
        /\ kind \in {"namespace", "secret", "configmap"} /\ typed[a] # Fields
        => \A n \in Fields \ typed[a] : object.data[n] = seen[a][n] => object'.data[n] = object.data[n]
<1>1. ObjectsInv /\ [ClusterNext]_clusterObjectsVars => [Survives]_clusterObjectsVars
  <2> SUFFICES ASSUME ObjectsInv, [ClusterNext]_clusterObjectsVars, NEW a \in Admins,
                      stage[a] = "apply", stage'[a] # "apply",
                      kind \in {"namespace", "secret", "configmap"}, typed[a] # Fields,
                      NEW n \in Fields \ typed[a], object.data[n] = seen[a][n]
               PROVE  object'.data[n] = object.data[n]
    OBVIOUS
  <2>0. /\ ShapeInv /\ CarriesInv
        /\ stage \in [Admins -> {"idle", "page", "get", "apply", "scan", "restart"}]
    BY ClusterTypes DEF ObjectsInv
  <2>1. CASE object' = object
    BY <2>1
  <2>2. ASSUME NEW b \in Admins, Apply(b) PROVE object'.data[n] = object.data[n]
    <3>1. b = a
      <4>1. b # a => stage'[a] = stage[a]
        BY <2>0, <2>2 DEF Apply, Finish
      <4>2. QED
        BY <4>1
    <3>2. manifest[a][n] = object.data[n]
      BY <2>0 DEF CarriesInv, Whole
    <3>3. object'.data[n] \in {manifest[a][n], Absent, object.data[n]} /\ object' = Applied(manifest[a], recorded[a])
      BY <2>0, <2>2, <3>1, AppliedIs DEF Apply
    <3>4. manifest[a][n] # Absent => Applied(manifest[a], recorded[a]).data[n] = manifest[a][n]
      BY DEF Applied
    <3>5. QED
      BY <3>2, <3>3, <3>4
  <2>3. ASSUME NEW b \in Admins, NEW k \in Kinds, DeleteObject(b, k) PROVE FALSE
    BY <2>3 DEF DeleteObject, requestVars
  <2>4. CASE OutsideChange
    BY <2>4 DEF OutsideChange, requestVars
  <2>5. ASSUME NEW b \in Admins, Sent(b) PROVE object' = object
    BY <2>5 DEF Sent, Request, objectVars
  <2>6. ASSUME NEW b \in Admins,
               \/ OpenPage(b) \/ UpdateSecret(b) \/ Fails(b) \/ Scan(b) \/ AllRestarted(b) \/ RequestDies(b)
               \/ \E d \in Users : RestartDeployment(b, d)
        PROVE  object' = object
    BY <2>6 DEF OpenPage, Opens, UpdateSecret, Fails, Scan, AllRestarted, RequestDies, RestartDeployment, objectVars
  <2>7. CASE (\E d \in Users : RestartWorkload(d)) \/ UNCHANGED clusterObjectsVars
    BY <2>7 DEF RestartWorkload, clusterObjectsVars, objectVars
  <2>8. QED
    BY <2>0, <2>1, <2>2, <2>3, <2>4, <2>5, <2>6, <2>7, ObjectsCases
<1>2. QED
  BY <1>1, AlwaysObjects, PTL DEF ClusterSpec, UntouchedKeysSurvive

-----------------------------------------------------------------------------
(* The form of a network policy.                                           *)

(* A peer the form can make comes back from the row that shows it.         *)
LEMMA PeersComeBack ==
  ASSUME NEW p \in FormPeers
  PROVE  ~PeerToRow(p).blank /\ BuildPeer(PeerToRow(p)) = p
<1>1. PICK row \in Rows : p = BuildPeer(row)
  BY DEF FormPeers
<1>2. row.type \in {"pod", "namespace", "ip_block"}
  BY <1>1 DEF Rows
<1>3. CASE row.type = "pod"
  <2>1. p = [pod |-> "labels", ns |-> "absent", ip |-> "absent"]
    BY <1>1, <1>3 DEF BuildPeer
  <2>2. PeerToRow(p) = [type |-> "pod", blank |-> FALSE]
    BY <2>1 DEF PeerToRow
  <2>3. QED
    BY <2>1, <2>2 DEF BuildPeer
<1>4. CASE row.type = "namespace"
  <2>1. p = [pod |-> "absent", ns |-> "labels", ip |-> "absent"]
    BY <1>1, <1>4 DEF BuildPeer
  <2>2. PeerToRow(p) = [type |-> "namespace", blank |-> FALSE]
    BY <2>1 DEF PeerToRow
  <2>3. QED
    BY <2>1, <2>2 DEF BuildPeer
<1>5. CASE row.type = "ip_block"
  <2>1. p = [pod |-> "absent", ns |-> "absent", ip |-> "block"]
    BY <1>1, <1>5 DEF BuildPeer
  <2>2. PeerToRow(p) = [type |-> "ip_block", blank |-> FALSE]
    BY <2>1 DEF PeerToRow
  <2>3. QED
    BY <2>1, <2>2 DEF BuildPeer
<1>6. QED
  BY <1>2, <1>3, <1>4, <1>5

(* A rule made of such peers comes back whole, with no peer added.         *)
LEMMA RulesComeBack ==
  ASSUME NEW peers \in SUBSET FormPeers
  PROVE  BuildRule({PeerToRow(p) : p \in peers}) = peers
<1> DEFINE rows == {PeerToRow(p) : p \in peers}
<1>1. ASSUME NEW row \in {r \in rows : ~r.blank} PROVE BuildPeer(row) \in peers
  BY PeersComeBack
<1>2. ASSUME NEW p \in peers PROVE \E row \in {r \in rows : ~r.blank} : BuildPeer(row) = p
  BY <1>2, PeersComeBack
<1>3. QED
  BY <1>1, <1>2 DEF BuildRule

LEMMA FormKeepsTraffic ==
  ASSUME NEW P, NEW d \in Directions, Expressible(P, d)
  PROVE  Allowed(BuildPolicy(SpecToFormFields(P)), d) = Allowed(P, d)
<1> DEFINE f == SpecToFormFields(P)
           Q == BuildPolicy(f)
<1>1. /\ d \in f.enabled <=> d \in P.types \/ P.rules[d] # {}
      /\ f.rows[d] = {PeerToRow(p) : p \in UNION P.rules[d]}
  BY DEF SpecToFormFields
<1>2. Q.types = f.enabled /\ Q.rules[d] = IF d \in f.enabled THEN {BuildRule(f.rows[d])} ELSE {}
  BY DEF BuildPolicy
<1> HIDE DEF f, Q
<1>3. CASE d \notin P.types /\ P.rules[d] = {}
  BY <1>1, <1>2, <1>3 DEF Allowed, f, Q
<1>4. ASSUME d \in P.types, NEW peers \in SUBSET FormPeers, P.rules[d] = {peers}
      PROVE  Allowed(Q, d) = Allowed(P, d)
  <2>1. UNION P.rules[d] = peers
    BY <1>4
  <2>2. Q.rules[d] = {peers}
    BY <1>1, <1>2, <1>4, <2>1, RulesComeBack
  <2>3. QED
    BY <1>1, <1>2, <1>4, <2>2 DEF Allowed
<1>5. QED
  BY <1>3, <1>4 DEF Expressible, f, Q

(* A policy of any number of peers that is shown and saved as it was shown *)
(* lets through what it did, in every direction the form can express.      *)
THEOREM SavesKeepTraffic == PolicySpec => SaveKeepsTraffic
<1>1. [PolicyNext]_policyVars =>
        [open /\ ~open' /\ fields = SpecToFormFields(policy) /\ policy' = BuildPolicy(fields)
         => \A d \in Directions : Expressible(policy, d) => Allowed(policy', d) = Allowed(policy, d)]_policyVars
  BY FormKeepsTraffic
<1>2. QED
  BY <1>1, PTL DEF PolicySpec, SaveKeepsTraffic

(* There are finitely many peers and rows. *)
LEMMA PeersAreFinite == IsFiniteSet(SomePeer)
<1> DEFINE pods == [pod: Selectors, ns: Selectors, ip: {"absent"}]
           ips  == [pod: {"absent"}, ns: {"absent"}, ip: Blocks]
           f == [t \in Selectors \X Selectors |-> [pod |-> t[1], ns |-> t[2], ip |-> "absent"]]
           g == [b \in Blocks |-> [pod |-> "absent", ns |-> "absent", ip |-> b]]
<1>1. IsFiniteSet(Selectors) /\ IsFiniteSet(Blocks)
  <2>1. IsFiniteSet({"absent"}) /\ IsFiniteSet({"absent", "all"}) /\ IsFiniteSet({"absent", "all", "labels"})
    <3>1. IsFiniteSet({"absent"})
      BY FS_Singleton
    <3>2. IsFiniteSet({"absent"} \union {"all"})
      BY <3>1, FS_AddElement
    <3>3. {"absent", "all"} = {"absent"} \union {"all"}
      OBVIOUS
    <3>4. IsFiniteSet({"absent", "all"} \union {"labels"})
      BY <3>2, <3>3, FS_AddElement
    <3>5. {"absent", "all", "labels"} = {"absent", "all"} \union {"labels"}
      OBVIOUS
    <3>6. QED
      BY <3>1, <3>2, <3>3, <3>4, <3>5
  <2>2. IsFiniteSet({"absent", "all", "labels"} \union {"expressions"})
    BY <2>1, FS_AddElement
  <2>3. Selectors = {"absent", "all", "labels"} \union {"expressions"}
    BY DEF Selectors
  <2>4. IsFiniteSet({"absent"} \union {"block"})
    BY <2>1, FS_AddElement
  <2>5. IsFiniteSet(({"absent"} \union {"block"}) \union {"except"})
    BY <2>4, FS_AddElement
  <2>6. Blocks = ({"absent"} \union {"block"}) \union {"except"}
    BY DEF Blocks
  <2>7. QED
    BY <2>2, <2>3, <2>5, <2>6
<1>2. f \in Surjection(Selectors \X Selectors, pods)
  <2>1. f \in [Selectors \X Selectors -> pods]
    OBVIOUS
  <2>2. ASSUME NEW p \in pods PROVE \E t \in Selectors \X Selectors : f[t] = p
    <3>1. <<p.pod, p.ns>> \in Selectors \X Selectors /\ f[<<p.pod, p.ns>>] = p
      OBVIOUS
    <3>2. QED
      BY <3>1
  <2>3. QED
    BY <2>1, <2>2 DEF Surjection
<1>3. g \in Surjection(Blocks, ips)
  <2>1. g \in [Blocks -> ips]
    OBVIOUS
  <2>2. ASSUME NEW p \in ips PROVE \E b \in Blocks : g[b] = p
    <3>1. p.ip \in Blocks /\ g[p.ip] = p
      OBVIOUS
    <3>2. QED
      BY <3>1
  <2>3. QED
    BY <2>1, <2>2 DEF Surjection
<1> HIDE DEF f, g, pods, ips
<1>4. IsFiniteSet(pods) /\ IsFiniteSet(ips)
  <2>1. IsFiniteSet(Selectors \X Selectors)
    BY <1>1, FS_Product
  <2>2. QED
    BY <1>1, <1>2, <1>3, <2>1, FS_Surjection
<1>5. IsFiniteSet(pods \union ips)
  BY <1>4, FS_Union
<1>6. SomePeer \in SUBSET (pods \union ips)
  BY DEF SomePeer, Peers, pods, ips
<1>7. QED
  BY <1>5, <1>6, FS_Subset

LEMMA RowsAreFinite == IsFiniteSet(Rows)
<1> DEFINE types == {"pod", "namespace", "ip_block"}
           f == [t \in types \X BOOLEAN |-> [type |-> t[1], blank |-> t[2]]]
<1>1. IsFiniteSet(types)
  <2>1. IsFiniteSet({"pod"})
    BY FS_Singleton
  <2>2. IsFiniteSet({"pod"} \union {"namespace"})
    BY <2>1, FS_AddElement
  <2>3. IsFiniteSet(({"pod"} \union {"namespace"}) \union {"ip_block"})
    BY <2>2, FS_AddElement
  <2>4. types = ({"pod"} \union {"namespace"}) \union {"ip_block"}
    OBVIOUS
  <2>5. QED
    BY <2>3, <2>4
<1>2. IsFiniteSet(BOOLEAN)
  <2>1. IsFiniteSet({TRUE} \union {FALSE})
    BY FS_Singleton, FS_AddElement
  <2>2. BOOLEAN = {TRUE} \union {FALSE}
    OBVIOUS
  <2>3. QED
    BY <2>1, <2>2
<1>3. f \in Surjection(types \X BOOLEAN, Rows)
  <2>1. f \in [types \X BOOLEAN -> Rows]
    BY DEF Rows
  <2>2. ASSUME NEW r \in Rows PROVE \E t \in types \X BOOLEAN : f[t] = r
    <3>1. <<r.type, r.blank>> \in types \X BOOLEAN
      BY DEF Rows
    <3>2. f[<<r.type, r.blank>>] = r
      BY <3>1 DEF Rows
    <3>3. QED
      BY <3>1, <3>2
  <2>3. QED
    BY <2>1, <2>2 DEF Surjection
<1> HIDE DEF f, types
<1>4. IsFiniteSet(types \X BOOLEAN)
  BY <1>1, <1>2, FS_Product
<1>5. QED
  BY <1>3, <1>4, FS_Surjection

(* What is computed from each of a few things are few things. *)
LEMMA FewRemain ==
  ASSUME NEW S, IsFiniteSet(S), Cardinality(S) <= MaxPeers,
         NEW f, NEW T, \A x \in S : f[x] \in T, \A y \in T : \E x \in S : f[x] = y
  PROVE  Cardinality(T) <= MaxPeers
<1> DEFINE g == [x \in S |-> f[x]]
<1>1. g \in Surjection(S, T)
  BY DEF Surjection
<1>2. IsFiniteSet(T) /\ Cardinality(T) <= Cardinality(S)
  BY <1>1, FS_Surjection
<1>3. Cardinality(S) \in Nat /\ Cardinality(T) \in Nat /\ MaxPeers \in Nat
  BY <1>2, FS_CardinalityType, PolicyAssumption DEF PolicyAssumption
<1>4. QED
  BY <1>2, <1>3

LEMMA FormOfPolicy ==
  ASSUME NEW P \in Policies
  PROVE  SpecToFormFields(P) \in Forms
<1>1. ASSUME NEW d \in Directions PROVE {PeerToRow(p) : p \in UNION P.rules[d]} \in Few(Rows)
  <2> DEFINE S == UNION P.rules[d]
             f == [p \in SomePeer |-> PeerToRow(p)]
             T == {PeerToRow(p) : p \in S}
  <2>1. S \in SUBSET SomePeer /\ (S = {} \/ Cardinality(S) <= MaxPeers)
    <3>1. P.rules[d] \in Rules
      BY DEF Policies
    <3>2. CASE P.rules[d] = {}
      BY <3>2
    <3>3. ASSUME NEW peers \in Few(SomePeer), P.rules[d] = {peers}
          PROVE  S \in SUBSET SomePeer /\ Cardinality(S) <= MaxPeers
      <4>1. S = peers
        BY <3>3
      <4>2. QED
        BY <4>1 DEF Few
    <3>4. QED
      BY <3>1, <3>2, <3>3 DEF Rules
  <2>2. IsFiniteSet(S) /\ Cardinality(S) <= MaxPeers
    BY <2>1, PeersAreFinite, FS_Subset, FS_EmptySet, PolicyAssumption DEF PolicyAssumption
  <2>3. (\A p \in S : f[p] \in T) /\ \A y \in T : \E p \in S : f[p] = y
    BY <2>1
  <2> HIDE DEF S, T, f
  <2>4. Cardinality(T) <= MaxPeers
    BY <2>2, <2>3, FewRemain
  <2>5. T \in SUBSET Rows
    <3>1. ASSUME NEW p \in SomePeer PROVE PeerToRow(p) \in Rows
      BY DEF PeerToRow, Rows
    <3>2. QED
      BY <2>1, <3>1 DEF T
  <2>6. T \in Few(Rows)
    BY <2>4, <2>5 DEF Few
  <2>7. QED
    BY <2>6 DEF S, T
<1>2. QED
  BY <1>1 DEF SpecToFormFields, Forms

LEMMA PolicyOfForm ==
  ASSUME NEW f \in Forms, f.enabled # {}
  PROVE  BuildPolicy(f) \in Policies
<1>1. ASSUME NEW d \in Directions PROVE BuildRule(f.rows[d]) \in Few(SomePeer)
  <2> DEFINE S == {r \in f.rows[d] : ~r.blank}
             g == [r \in Rows |-> BuildPeer(r)]
             T == {BuildPeer(r) : r \in S}
  <2>1. f.rows[d] \in SUBSET Rows /\ Cardinality(f.rows[d]) <= MaxPeers
    BY DEF Forms, Few
  <2>2. IsFiniteSet(f.rows[d])
    BY <2>1, RowsAreFinite, FS_Subset
  <2>3. IsFiniteSet(S) /\ Cardinality(S) <= Cardinality(f.rows[d])
    BY <2>2, FS_Subset
  <2>4. Cardinality(S) <= MaxPeers
    BY <2>1, <2>2, <2>3, FS_CardinalityType, PolicyAssumption DEF PolicyAssumption
  <2>5. (\A r \in S : g[r] \in T) /\ \A y \in T : \E r \in S : g[r] = y
    BY <2>1
  <2> HIDE DEF S, T, g
  <2>6. Cardinality(T) <= MaxPeers
    BY <2>3, <2>4, <2>5, FewRemain
  <2>7. T \in SUBSET SomePeer
    <3>1. ASSUME NEW r \in Rows PROVE BuildPeer(r) \in SomePeer
      BY DEF BuildPeer, Rows, SomePeer, Peers, Selectors, Blocks
    <3>2. QED
      BY <2>1, <3>1 DEF S, T
  <2>8. BuildRule(f.rows[d]) = T
    BY DEF BuildRule, S, T
  <2>9. QED
    BY <2>6, <2>7, <2>8 DEF Few
<1>2. \A d \in Directions : BuildPolicy(f).rules[d] \in Rules
  BY <1>1 DEF BuildPolicy, Rules
<1>3. QED
  BY <1>2 DEF BuildPolicy, Policies, Forms

FormInv == policy \in Policies /\ fields \in Forms /\ open \in BOOLEAN

(* The policy on the cluster restricts some direction and has one rule at  *)
(* most in each, the form no more rows than a rule has peers, whatever is  *)
(* shown, saved, created or written by others.                             *)
THEOREM PolicyTypeCorrect == PolicySpec => []PolicyTypeOK
<1>1. NoForm \in Forms
  BY FS_EmptySet, PolicyAssumption DEF NoForm, Forms, Few, PolicyAssumption
<1>2. PolicyInit => FormInv
  BY <1>1 DEF PolicyInit, FormInv
<1>3. ASSUME FormInv, [PolicyNext]_policyVars PROVE FormInv'
  <2>1. ASSUME NEW f \in Forms, SavedPolicy(f) PROVE FormInv'
    BY <1>1, <2>1, PolicyOfForm DEF SavedPolicy, FormInv
  <2>2. CASE RenderNetworkPolicies
    BY <1>3, <2>2, FormOfPolicy DEF RenderNetworkPolicies, FormInv
  <2>3. CASE EditNetworkPolicy
    <3>1. ASSUME NEW d \in Directions, NEW rows \in Few(Rows) PROVE [fields EXCEPT !.rows[d] = rows] \in Forms
      BY <1>3 DEF FormInv, Forms
    <3>2. QED
      BY <1>3, <2>1, <2>3, <3>1 DEF EditNetworkPolicy, FormInv
  <2>4. CASE WriteYaml
    <3>1. ASSUME NEW d \in Directions, NEW rules \in Rules PROVE [policy EXCEPT !.rules[d] = rules] \in Policies
      BY <1>3 DEF FormInv, Policies
    <3>2. ASSUME NEW types \in (SUBSET Directions) \ {{}} PROVE [policy EXCEPT !.types = types] \in Policies
      BY <1>3 DEF FormInv, Policies
    <3>3. QED
      BY <1>3, <2>4, <3>1, <3>2 DEF WriteYaml, FormInv
  <2>5. CASE CreateNetworkPolicy
    BY <2>1, <2>5 DEF CreateNetworkPolicy
  <2>6. CASE UNCHANGED policyVars
    BY <1>3, <2>6 DEF policyVars, FormInv
  <2>7. QED
    BY <1>3, <2>2, <2>3, <2>4, <2>5, <2>6 DEF PolicyNext
<1>4. FormInv => PolicyTypeOK
  BY DEF FormInv, Policies, Forms, Few, PolicyTypeOK
<1>5. QED
  BY <1>2, <1>3, <1>4, PTL DEF PolicySpec
=============================================================================
