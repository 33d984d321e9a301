--------------------------- MODULE DiscordGateway ---------------------------
(***************************************************************************)
(* The connection of the Discord bot: the supervisor of app/services/      *)
(* discord/worker.py, which starts and stops a gateway as the settings     *)
(* change, and the gateways of app/services/discord/gateway.py: a thread   *)
(* that reads and reconnects, and a heartbeat thread per connection.  What *)
(* an interaction means is left to DiscordBot.  Sequence numbers count     *)
(* interactions.                                                           *)
(***************************************************************************)
EXTENDS Naturals, FiniteSets

CONSTANTS
  Gateways,          (* DiscordGateway objects; a finished one is reused    *)
  NoGateway,
  MaxInteractions,   (* bound: interactions users send                      *)
  MaxSwitches,       (* bound: changes of discord_bot_commands_enabled      *)
  MaxBreaks          (* bound: lost connections, sessions and processes     *)

ASSUME GatewayAssumption ==
  /\ NoGateway \notin Gateways
  /\ MaxInteractions \in Nat /\ MaxSwitches \in Nat /\ MaxBreaks \in Nat

VARIABLES
  switchedOn,        (* discord_bot_commands_enabled, with a token          *)
  active,            (* active_gateway of the supervisor                    *)
  (* each gateway *)
  link,              (* where its thread and its socket are                 *)
  stopEvent,          (* _stop_event                                         *)
  beat,              (* its heartbeat thread                                *)
  beatSent,          (* _beat_sent_since_last_ack                           *)
  owed,              (* Discord has a beat to acknowledge                   *)
  session,           (* _session_id is held                                 *)
  seq,               (* _last_seq                                           *)
  reading,           (* the interaction on_dispatch is busy with            *)
  (* Discord, history and bounds *)
  sent,              (* interactions so far                                 *)
  taken,             (* interactions handed to on_dispatch                  *)
  missed,            (* interactions no held session covers                 *)
  doubled,           (* two gateways held a session at once                  *)
  switches, breaks

socketVars  == <<link, beat, beatSent, owed>>
sessionVars == <<session, seq>>
worldVars   == <<sent, taken, missed, doubled, switches, breaks>>
gatewayVars == <<switchedOn, active, socketVars, stopEvent, sessionVars, reading, worldVars>>

Nothing == 0
Open    == {"hello", "auth", "ready"}
Links   == Open \union {"absent", "connect", "closing", "backoff", "done"}

Put(v, g, x) == [v EXCEPT ![g] = x]
Breaks       == breaks < MaxBreaks /\ breaks' = breaks + 1

(* The interactions after _last_seq that a session which is given up had.  *)
Uncovered(g) == IF session[g] THEN (seq[g] + 1)..sent ELSE {}

(* The next Hello sets the flag anew, whatever it was. *)
Silence(g) ==
  /\ beat' = Put(beat, g, "off")
  /\ beatSent' = Put(beatSent, g, FALSE) /\ owed' = Put(owed, g, FALSE)

-----------------------------------------------------------------------------
(* _supervise *)

StartGateway(g) ==
  /\ switchedOn /\ active = NoGateway
  /\ link[g] \in {"absent", "done"}
  /\ active' = g
  /\ link' = Put(link, g, "connect")
  /\ stopEvent' = Put(stopEvent, g, FALSE)
  /\ UNCHANGED <<switchedOn, beat, beatSent, owed, sessionVars, reading, worldVars>>

(* stop() sets two events; the socket stays open, and after a join of ten  *)
(* seconds the gateway is forgotten.                                       *)
StopGateway ==
  /\ ~switchedOn /\ active # NoGateway
  /\ stopEvent' = Put(stopEvent, active, TRUE)
  /\ Silence(active)
  /\ active' = NoGateway
  /\ UNCHANGED <<switchedOn, link, sessionVars, reading, worldVars>>

-----------------------------------------------------------------------------
(* run() and _connect_and_run() *)

Connect(g) ==
  /\ link[g] = "connect"
  /\ link' = Put(link, g, "hello")
  /\ UNCHANGED <<switchedOn, active, stopEvent, beat, beatSent, owed, sessionVars, reading, worldVars>>

ConnectFails(g) ==
  /\ link[g] = "connect" /\ Breaks
  /\ link' = Put(link, g, "closing")
  /\ UNCHANGED <<switchedOn, active, stopEvent, beat, beatSent, owed, sessionVars, reading, sent, taken, missed,
                 doubled, switches>>

GiveUp(g) ==
  /\ missed' = missed \union Uncovered(g)
  /\ session' = Put(session, g, FALSE)
  /\ seq' = Put(seq, g, Nothing)

(* run_forever returns.  A close code that rules out a resume gives up the *)
(* session.                                                                *)
Closed(g) ==
  /\ link[g] = "closing" /\ reading[g] = Nothing /\ ~stopEvent[g]
  /\ Silence(g)
  /\ link' = Put(link, g, "backoff")
  /\ \/ UNCHANGED <<sessionVars, missed, breaks>>
     \/ Breaks /\ GiveUp(g)
  /\ UNCHANGED <<switchedOn, active, stopEvent, reading, sent, taken, doubled, switches>>

Retry(g) ==
  /\ link[g] = "backoff" /\ ~stopEvent[g]
  /\ link' = Put(link, g, "connect")
  /\ UNCHANGED <<switchedOn, active, stopEvent, beat, beatSent, owed, sessionVars, reading, worldVars>>

(* Only between two connections does run() look at the stop event. *)
Finish(g) ==
  /\ link[g] \in {"closing", "backoff"} /\ reading[g] = Nothing /\ stopEvent[g]
  /\ link' = Put(link, g, "done")
  /\ Silence(g)
  /\ GiveUp(g)
  /\ UNCHANGED <<switchedOn, active, stopEvent, reading, sent, taken, doubled, switches, breaks>>

-----------------------------------------------------------------------------
(* _on_message *)

(* Hello: _start_heartbeat clears the event stop() set, then Identify or   *)
(* Resume is sent.                                                         *)
Hello(g) ==
  /\ link[g] = "hello"
  /\ link' = Put(link, g, "auth")
  /\ beat' = Put(beat, g, "wait")
  /\ beatSent' = Put(beatSent, g, FALSE)
  /\ owed' = Put(owed, g, FALSE)
  /\ UNCHANGED <<switchedOn, active, stopEvent, sessionVars, reading, worldVars>>

GetReady(g) ==
  /\ link' = Put(link, g, "ready")
  /\ doubled' = (doubled \/ \E h \in Gateways \ {g} : session[h])

(* Identify leads to a new session, which begins with READY. *)
Ready(g) ==
  /\ link[g] = "auth" /\ ~session[g]
  /\ GetReady(g)
  /\ session' = Put(session, g, TRUE)
  /\ seq' = Put(seq, g, sent)
  /\ UNCHANGED <<switchedOn, active, stopEvent, beat, beatSent, owed, reading, sent, taken, missed, switches, breaks>>

(* Resume: what came after _last_seq is sent again. *)
ForgetsSeq(n)  == IF n = 0 THEN 0 ELSE n - 1                 (* mutant *)
SkipsAhead(n)  == sent                                       (* mutant *)
ResumesFrom(n) == n
Resumed(g) ==
  /\ link[g] = "auth" /\ session[g]
  /\ GetReady(g)
  /\ seq' = Put(seq, g, ResumesFrom(seq[g]))
  /\ UNCHANGED <<switchedOn, active, stopEvent, beat, beatSent, owed, session, reading, sent, taken, missed, switches,
                 breaks>>

(* INVALID_SESSION that may not be resumed: a new Identify. *)
InvalidSession(g) ==
  /\ link[g] = "auth" /\ session[g] /\ Breaks
  /\ GiveUp(g)
  /\ UNCHANGED <<switchedOn, active, socketVars, stopEvent, reading, sent, taken, doubled, switches>>

(* A dispatch: the number is kept before the interaction is handled, and   *)
(* the next message is read when the handler has returned.                 *)
Deliver(g) ==
  /\ link[g] = "ready" /\ reading[g] = Nothing
  /\ seq[g] < sent
  /\ seq' = Put(seq, g, seq[g] + 1)
  /\ reading' = Put(reading, g, seq[g] + 1)
  /\ taken' = taken \union {seq[g] + 1}
  /\ UNCHANGED <<switchedOn, active, socketVars, stopEvent, session, sent, missed, doubled, switches, breaks>>

Acknowledge(g) ==
  /\ link[g] \in {"auth", "ready"} /\ reading[g] = Nothing
  /\ owed[g]
  /\ owed' = Put(owed, g, FALSE)
  /\ beatSent' = Put(beatSent, g, FALSE)
  /\ UNCHANGED <<switchedOn, active, link, stopEvent, beat, sessionVars, reading, worldVars>>

-----------------------------------------------------------------------------
(* The heartbeat thread: the beat goes out, then the flag is set. *)

SendBeat(g) ==
  /\ link[g] \in {"auth", "ready"}
  /\ beat[g] = "wait" /\ ~beatSent[g]
  /\ beat' = Put(beat, g, "sending")
  /\ owed' = Put(owed, g, TRUE)
  /\ UNCHANGED <<switchedOn, active, link, stopEvent, beatSent, sessionVars, reading, worldVars>>

MarkBeat(g) ==
  /\ beat[g] = "sending"
  /\ beat' = Put(beat, g, "wait")
  /\ beatSent' = Put(beatSent, g, TRUE)
  /\ UNCHANGED <<switchedOn, active, link, stopEvent, owed, sessionVars, reading, worldVars>>

(* The previous beat seems unanswered.  Within an interval Discord answers *)
(* and an idle thread reads the answer, unless the network fails.          *)
CloseZombie(g) ==
  /\ link[g] \in {"auth", "ready"}
  /\ beat[g] = "wait" /\ beatSent[g]
  /\ IF owed[g] /\ reading[g] = Nothing THEN Breaks ELSE UNCHANGED breaks
  /\ link' = Put(link, g, "closing")
  /\ Silence(g)
  /\ UNCHANGED <<switchedOn, active, stopEvent, sessionVars, reading, sent, taken, missed, doubled,
                 switches>>

-----------------------------------------------------------------------------
(* Discord, the network, users and administrators *)

(* RECONNECT, or the connection is lost; free of charge if it went silent. *)
Lose(g) ==
  /\ link[g] \in Open
  /\ IF beat[g] = "off" /\ link[g] # "hello" THEN UNCHANGED breaks ELSE Breaks
  /\ link' = Put(link, g, "closing")
  /\ Silence(g)
  /\ UNCHANGED <<switchedOn, active, stopEvent, sessionVars, reading, sent, taken, missed,
                 doubled, switches>>

Interact ==
  /\ sent < MaxInteractions
  /\ sent' = sent + 1
  /\ missed' = IF \E g \in Gateways : session[g] THEN missed ELSE missed \union {sent + 1}
  /\ UNCHANGED <<switchedOn, active, socketVars, stopEvent, sessionVars, reading, taken, doubled, switches, breaks>>

Switch ==
  /\ switches < MaxSwitches /\ switches' = switches + 1
  /\ switchedOn' = ~switchedOn
  /\ UNCHANGED <<active, socketVars, stopEvent, sessionVars, reading, sent, taken, missed, doubled, breaks>>

(* The process dies with its threads; another one takes the advisory lock. *)
ProcessDies ==
  /\ Breaks
  /\ active' = NoGateway
  /\ link' = [g \in Gateways |-> IF link[g] = "absent" THEN "absent" ELSE "done"]
  /\ stopEvent' = [g \in Gateways |-> FALSE]
  /\ beat' = [g \in Gateways |-> "off"]
  /\ beatSent' = [g \in Gateways |-> FALSE] /\ owed' = [g \in Gateways |-> FALSE]
  /\ session' = [g \in Gateways |-> FALSE] /\ seq' = [g \in Gateways |-> Nothing]
  /\ reading' = [g \in Gateways |-> Nothing]
  /\ missed' = missed \union UNION {Uncovered(g) : g \in Gateways}
  /\ UNCHANGED <<switchedOn, sent, taken, doubled, switches>>

(* The threads, and Discord's answers to them. *)
Runs(g) ==
  \/ StartGateway(g) \/ Connect(g) \/ Closed(g) \/ Retry(g) \/ Finish(g)
  \/ Hello(g) \/ Ready(g) \/ Resumed(g) \/ Deliver(g)
  \/ Acknowledge(g) \/ SendBeat(g) \/ MarkBeat(g) \/ CloseZombie(g)

Trouble(g) == ConnectFails(g) \/ InvalidSession(g) \/ Lose(g)

GatewayInit ==
  /\ switchedOn = TRUE /\ active = NoGateway
  /\ link = [g \in Gateways |-> "absent"] /\ stopEvent = [g \in Gateways |-> FALSE]
  /\ beat = [g \in Gateways |-> "off"] /\ beatSent = [g \in Gateways |-> FALSE]
  /\ owed = [g \in Gateways |-> FALSE]
  /\ session = [g \in Gateways |-> FALSE] /\ seq = [g \in Gateways |-> Nothing]
  /\ reading = [g \in Gateways |-> Nothing]
  /\ sent = 0 /\ taken = {} /\ missed = {} /\ doubled = FALSE /\ switches = 0 /\ breaks = 0

GatewayTypeOK ==
  /\ switchedOn \in BOOLEAN /\ doubled \in BOOLEAN
  /\ active \in Gateways \union {NoGateway}
  /\ link \in [Gateways -> Links]
  /\ stopEvent \in [Gateways -> BOOLEAN] /\ session \in [Gateways -> BOOLEAN]
  /\ beat \in [Gateways -> {"off", "wait", "sending"}]
  /\ beatSent \in [Gateways -> BOOLEAN] /\ owed \in [Gateways -> BOOLEAN]
  /\ seq \in [Gateways -> 0..MaxInteractions] /\ reading \in [Gateways -> 0..MaxInteractions]
  /\ sent \in 0..MaxInteractions /\ taken \subseteq 1..sent /\ missed \subseteq 1..sent
  /\ \A g \in Gateways : session[g] => seq[g] <= sent
=============================================================================
