------------------------------- MODULE MCBots -------------------------------
(* Instances of TelegramBot and DiscordBot for TLC.  The two bots do not    *)
(* call each other: part says which of them a behaviour is about, and the   *)
(* variables of the other rest.                                             *)
EXTENDS TelegramBot, DiscordBot, TLC

CONSTANTS w1, b1, b2, m1, m2, s1, g1, v1, p1, p2, c1, c2, t1

VARIABLE part

(* Two builders and two manifests, one group of each. *)
OneGroup  == (b1 :> g1) @@ (b2 :> g1) @@ (m1 :> g1) @@ (m2 :> g1)
BothOnOne == (b1 :> v1) @@ (b2 :> v1)
Lost      == {m2, "workflow.run"}

telegramOnly == <<pollVars, serverVars, commandsOn, tried, faultVars>>
discordOnly  == <<gatewayVars, deferred>>

BotsInit == part \in {"telegram", "discord"} /\ TelegramInit /\ DiscordInit

(* Bounds: rows are disabled and permissions revoked under Telegram's users *)
(* only, since what is said of Discord does not look at them; and Telegram  *)
(* has either these changes or a switch of its settings.                    *)
BotsNext ==
  \/ part = "telegram" /\ TelegramNext /\ (toggles' = 0 \/ edits' = 0)
     /\ UNCHANGED <<discordOnly, part>>
  \/ part = "discord" /\ DiscordNext /\ UNCHANGED <<telegramOnly, part, edits>>

(* Both bots keep the types of their modules. *)
BotsTypeOK == TelegramTypeOK /\ DiscordTypeOK

BotsSpec ==
  /\ BotsInit /\ [][BotsNext]_<<telegramVars, discordVars, part>>
  /\ \A p \in Procs : WF_telegramVars(part = "telegram" /\ PollThread(p))
=============================================================================
