------------------------------- MODULE Server -------------------------------
(***************************************************************************)
(* The server process (cmd/server/main.go, internal/config): main loads    *)
(* the configuration, starts the components, registers the expanded health *)
(* handler, waits for a signal, cancels the context, waits for the         *)
(* shutdown timeout, stops the components and prints their statistics.     *)
(*                                                                         *)
(* The workers send events to one telemetry channel, and both the hub and  *)
(* the event processor, which feeds the registry, receive from it.  The    *)
(* health handler and the final statistics read the components' counters   *)
(* one after the other while they run.  Inside, the components see Ingest, *)
(* Hub, DroneRegistry and WebSocketServer: here they are goroutines that   *)
(* run until the context or their own done channel ends them.              *)
(***************************************************************************)
EXTENDS Integers, Sequences, FiniteSets

CONSTANTS
  TelemetryCap,   (* capacity of telemetryChan                            *)
  MuxReplaces,    (* whether a pattern registered twice gets the second   *)
                  (* handler; FALSE is net/http, which panics             *)
  InFile,         (* the settings a configuration file may give           *)
  MaxEvents       (* bound on the packets that arrive                     *)

Sizes == {"packet_queue_size", "read_buffer_size", "subscriber_buffer_size"}
Settings == {"stale_check_interval", "broadcast_interval", "pool_size"} \cup Sizes

ASSUME ServerAssumption ==
  /\ TelemetryCap \in Nat \ {0}
  /\ MuxReplaces \in BOOLEAN
  /\ InFile \subseteq Settings
  /\ MaxEvents \in Nat

VARIABLES
  main,       (* the place of main                                        *)
  cfg,        (* the configuration in force                               *)
  signalled,  (* sigChan holds a signal                                   *)
  ctxDone,    (* the context is cancelled                                 *)
  routine,    (* the state of each goroutine                              *)
  served,     (* goroutines of WebSocket clients are running              *)
  wsDone,     (* wsServer's done channel is closed                        *)
  received,   (* packetsReceived of the listener                          *)
  produced,   (* events the workers produced so far                       *)
  telemetry,  (* telemetryChan                                            *)
  dropped,    (* the events that found it full                            *)
  applied,    (* those given to the registry                              *)
  fanned,     (* those given to the hub's subscribers                     *)
  pending,    (* the broadcast loop has updates to send                   *)
  report,     (* the statistics each reader has read, and how many        *)
  ended       (* how the process ended: "no", "exit" or "panic"           *)

events == <<received, produced, telemetry, dropped, applied, fanned, pending>>
vars == <<main, cfg, signalled, ctxDone, routine, served, wsDone, events, report,
          ended>>

Routines == {"udp", "processor", "hub", "ws", "broadcaster", "listener"}
Readers == {"health", "main"}
Running == ended = "no"
Runs(r) == Running /\ routine[r] = "running"
Becomes(r, s) == routine' = [routine EXCEPT ![r] = s]
-----------------------------------------------------------------------------
(* Configuration.  Nothing is validated: a setting is 0 when it cannot be  *)
(* used (an interval or a number of workers that is not positive, a size   *)
(* that is negative, which make refuses) and 1 otherwise.  Settings that   *)
(* only parameterise one component are the CONSTANTS of its module.        *)

Default == [s \in Settings |-> 1]

Files == UNION {[S -> {0, 1}] : S \in SUBSET InFile}

(* The file is merged over the defaults. *)
LoadFile(f) == [s \in Settings |-> IF s \in DOMAIN f THEN f[s] ELSE Default[s]]

(* The flags win over the file if they are given. *)
Override(c, workers) == IF workers > 0 THEN [c EXCEPT !.pool_size = workers] ELSE c

Init ==
  /\ main = "loading"
  /\ cfg = Default
  /\ signalled = FALSE /\ ctxDone = FALSE
  /\ routine = [r \in Routines |-> "none"]
  /\ served = FALSE /\ wsDone = FALSE
  /\ received = 0 /\ produced = 0
  /\ telemetry = <<>>
  /\ dropped = {} /\ applied = {} /\ fanned = {}
  /\ pending = FALSE
  /\ report = [r \in Readers |-> [read |-> 0, handled |-> 0, packets |-> 0]]
  /\ ended = "no"

(* A file that cannot be read or parsed ends the process before it starts. *)
LoadFails ==
  /\ Running /\ main = "loading"
  /\ main' = "done"
  /\ ended' = "exit"
  /\ UNCHANGED <<cfg, signalled, ctxDone, routine, served, wsDone, events, report>>

Load ==
  /\ Running /\ main = "loading"
  /\ \E f \in Files, workers \in {0, 1} : cfg' = Override(LoadFile(f), workers)
  /\ main' = "starting"
  /\ UNCHANGED <<signalled, ctxDone, routine, served, wsDone, events, report, ended>>
-----------------------------------------------------------------------------
(* main.                                                                   *)

(* NewWebSocketServer subscribes to the hub: a channel of a negative size  *)
(* panics.                                                                 *)
SubscribeFails ==
  /\ Running /\ main = "starting" /\ cfg.subscriber_buffer_size = 0
  /\ ended' = "panic"
  /\ UNCHANGED <<main, cfg, signalled, ctxDone, routine, served, wsDone, events, report>>

StartComponents ==
  /\ Running /\ main = "starting" /\ cfg.subscriber_buffer_size > 0
  /\ main' = "registering"
  /\ routine' = [r \in Routines |-> "running"]
  /\ UNCHANGED <<cfg, signalled, ctxDone, served, wsDone, events, report, ended>>

(* NewWebSocketServer has registered /api/health before (websocket.go:104). *)
RegisterHealth ==
  /\ Running /\ main = "registering"
  /\ IF MuxReplaces
     THEN main' = "waiting" /\ UNCHANGED ended
     ELSE ended' = "panic" /\ UNCHANGED main
  /\ UNCHANGED <<cfg, signalled, ctxDone, routine, served, wsDone, events, report>>

Signal ==
  /\ Running /\ main # "loading" /\ ~signalled
  /\ signalled' = TRUE
  /\ UNCHANGED <<main, cfg, ctxDone, routine, served, wsDone, events, report, ended>>

(* Mutant: main does not cancel the context. *)
MutReceiveSignalKeepsContext ==
  /\ Running /\ main = "waiting" /\ signalled
  /\ main' = "timeout"
  /\ UNCHANGED <<cfg, signalled, ctxDone, routine, served, wsDone, events, report,
                 ended>>

ReceiveSignal ==
  /\ Running /\ main = "waiting" /\ signalled
  /\ main' = "timeout"
  /\ ctxDone' = TRUE
  /\ UNCHANGED <<cfg, signalled, routine, served, wsDone, events, report, ended>>

(* close(ws.done), by whoever calls Stop: a second close panics. *)
CloseDone ==
  /\ wsDone' = TRUE
  /\ ended' = IF wsDone THEN "panic" ELSE ended

(* The shutdown timeout is always waited for to its end. *)
MainStopsWS ==
  /\ Running /\ main = "timeout"
  /\ CloseDone
  /\ main' = "waitWS"
  /\ UNCHANGED <<cfg, signalled, ctxDone, routine, served, events, report>>

(* What wsServer.Stop waits for. *)
WSGroupDone ==
  routine["broadcaster"] = "returned" /\ routine["listener"] = "returned" /\ ~served

MainWaitedWS ==
  /\ Running /\ main = "waitWS" /\ WSGroupDone
  /\ main' = "stopHub"
  /\ UNCHANGED <<cfg, signalled, ctxDone, routine, served, wsDone, events, report,
                 ended>>

(* A ticker whose interval is not positive panics; the panic is recovered  *)
(* and the loop begun again, without a look at the context, for ever.      *)
Ticks(interval) == cfg[interval] > 0

(* The done channels of the hub and of the manager add nothing to the      *)
(* cancelled context: Stop waits for the goroutine.  That of the stale     *)
(* checker, which does nothing else here, has ended unless it spins.       *)
MainStopsHub ==
  /\ Running /\ main = "stopHub" /\ routine["hub"] = "returned"
  /\ main' = "stopManager"
  /\ UNCHANGED <<cfg, signalled, ctxDone, routine, served, wsDone, events, report,
                 ended>>

MainStopsManager ==
  /\ Running /\ main = "stopManager" /\ ctxDone /\ Ticks("stale_check_interval")
  /\ main' = "printing"
  /\ UNCHANGED <<cfg, signalled, ctxDone, routine, served, wsDone, events, report,
                 ended>>

MainExits ==
  /\ Running /\ main = "printing" /\ report["main"].read = 3
  /\ main' = "done"
  /\ ended' = "exit"
  /\ UNCHANGED <<cfg, signalled, ctxDone, routine, served, wsDone, events, report>>
-----------------------------------------------------------------------------
(* The statistics, as the health handler and printStats read them.         *)

(* Mutant: the listener is asked first. *)
MutStatsOrder == <<"listener", "manager", "hub">>

StatsOrder == <<"manager", "hub", "listener">>

(* PacketsReceived; TotalMessages and EventsReceived, of which the report  *)
(* keeps the sum.                                                          *)
Reading(rep, part) ==
  CASE part = "manager" -> [rep EXCEPT !.handled = @ + Cardinality(applied)]
    [] part = "hub" -> [rep EXCEPT !.handled = @ + Cardinality(fanned)]
    [] part = "listener" -> [rep EXCEPT !.packets = received]

ReadStats(r) ==
  LET n == report[r].read + 1
  IN  /\ Running
      /\ report[r].read < 3
      /\ r = "main" => main = "printing"
      /\ r = "health" /\ n = 1 =>
           Runs("listener") /\ main \notin {"loading", "starting", "registering"}
      /\ report' = [report EXCEPT ![r] = [Reading(@, StatsOrder[n]) EXCEPT !.read = n]]
      /\ UNCHANGED <<main, cfg, signalled, ctxDone, routine, served, wsDone, events,
                     ended>>

(* The health handler has answered; the next request starts anew. *)
HealthAnswered ==
  /\ Running /\ report["health"].read = 3
  /\ report' = [report EXCEPT !["health"] = [field \in DOMAIN @ |-> 0]]
  /\ UNCHANGED <<main, cfg, signalled, ctxDone, routine, served, wsDone, events, ended>>
-----------------------------------------------------------------------------
(* The components.                                                         *)

(* The receiver counts a packet it has read. *)
Receive ==
  /\ Runs("udp") /\ received < MaxEvents
  /\ cfg.packet_queue_size > 0 /\ cfg.read_buffer_size > 0
  /\ received' = received + 1
  /\ UNCHANGED <<main, cfg, signalled, ctxDone, routine, served, wsDone, produced,
                 telemetry, dropped, applied, fanned, pending, report, ended>>

(* A worker's non-blocking send of what a packet was decoded to; a packet  *)
(* that was dropped or rejected is one that is never produced.             *)
Produce ==
  /\ Runs("udp") /\ cfg.pool_size > 0 /\ produced < received
  /\ produced' = produced + 1
  /\ IF Len(telemetry) < TelemetryCap
     THEN telemetry' = Append(telemetry, produced') /\ UNCHANGED dropped
     ELSE dropped' = dropped \cup {produced'} /\ UNCHANGED telemetry
  /\ UNCHANGED <<main, cfg, signalled, ctxDone, routine, served, wsDone, received,
                 applied, fanned, pending, report, ended>>

(* Mutant: the failure also stops the WebSocket server. *)
MutUDPFailsStopsWS ==
  /\ Runs("udp") /\ received = 0
  /\ Becomes("udp", "failed")
  /\ ctxDone' = TRUE
  /\ CloseDone
  /\ UNCHANGED <<main, cfg, signalled, served, events, report>>

(* udpListener.Start returns an error: the context is cancelled, and main  *)
(* goes on waiting for a signal.                                           *)
UDPFails ==
  /\ Runs("udp") /\ received = 0
  /\ Becomes("udp", "failed")
  /\ ctxDone' = TRUE
  /\ UNCHANGED <<main, cfg, signalled, served, wsDone, events, report, ended>>

(* Start makes packetChan, or the receiver the first buffer of the pool,   *)
(* of a negative size.  Nobody recovers.                                   *)
UDPPanics ==
  /\ Runs("udp") /\ 0 \in {cfg.packet_queue_size, cfg.read_buffer_size}
  /\ ended' = "panic"
  /\ UNCHANGED <<main, cfg, signalled, ctxDone, routine, served, wsDone, events, report>>

(* A receiver that sees the context first asks for no buffer. *)
UDPReturns ==
  /\ Runs("udp") /\ ctxDone /\ cfg.packet_queue_size > 0
  /\ Becomes("udp", "returned")
  /\ UNCHANGED <<main, cfg, signalled, ctxDone, served, wsDone, events, report, ended>>

(* The packet just read is sent on the closed packetChan (see Ingest). *)
UDPCrashes ==
  /\ Runs("udp") /\ ctxDone /\ produced < received
  /\ ended' = "panic"
  /\ UNCHANGED <<main, cfg, signalled, ctxDone, routine, served, wsDone, events, report>>

(* Mutant: the event is handled but stays in the channel. *)
MutProcessorTakesPeeks ==
  /\ Runs("processor") /\ telemetry # <<>>
  /\ applied' = applied \cup {Head(telemetry)}
  /\ UNCHANGED <<main, cfg, signalled, ctxDone, routine, served, wsDone, received,
                 produced, telemetry, dropped, fanned, pending, report, ended>>

ProcessorTakes ==
  /\ Runs("processor") /\ telemetry # <<>>
  /\ applied' = applied \cup {Head(telemetry)}
  /\ telemetry' = Tail(telemetry)
  /\ UNCHANGED <<main, cfg, signalled, ctxDone, routine, served, wsDone, received,
                 produced, dropped, fanned, pending, report, ended>>

(* The WebSocket server's subscription hears of the event. *)
HubTakes ==
  /\ Runs("hub") /\ telemetry # <<>>
  /\ fanned' = fanned \cup {Head(telemetry)}
  /\ telemetry' = Tail(telemetry)
  /\ pending' = TRUE
  /\ UNCHANGED <<main, cfg, signalled, ctxDone, routine, served, wsDone, received,
                 produced, dropped, applied, report, ended>>

(* The processor and the hub end with the context. *)
EndsWithContext(r) ==
  /\ Runs(r) /\ ctxDone
  /\ Becomes(r, "returned")
  /\ UNCHANGED <<main, cfg, signalled, ctxDone, served, wsDone, events, report, ended>>

BroadcasterTicks ==
  /\ Runs("broadcaster") /\ Ticks("broadcast_interval") /\ pending
  /\ pending' = FALSE
  /\ UNCHANGED <<main, cfg, signalled, ctxDone, routine, served, wsDone, received,
                 produced, telemetry, dropped, applied, fanned, report, ended>>

BroadcasterReturns ==
  /\ Runs("broadcaster") /\ Ticks("broadcast_interval") /\ (ctxDone \/ wsDone)
  /\ Becomes("broadcaster", "returned")
  /\ UNCHANGED <<main, cfg, signalled, ctxDone, served, wsDone, events, report, ended>>

(* The HTTP server ends when Stop shuts it down, or, with no more than a   *)
(* line in the log, when it cannot listen or accept.                       *)
ListenerReturns ==
  /\ Runs("listener")
  /\ Becomes("listener", "returned")
  /\ UNCHANGED <<main, cfg, signalled, ctxDone, served, wsDone, events, report, ended>>

(* Clients connect (WebSocketServer has each of them), and their           *)
(* goroutines are started.                                                 *)
ClientsCome ==
  /\ Runs("listener") /\ ~served
  /\ served' = TRUE
  /\ UNCHANGED <<main, cfg, signalled, ctxDone, routine, wsDone, events, report, ended>>

(* They leave, or Stop has cancelled them; one that came late is not.      *)
ClientsEnd ==
  /\ Running /\ served
  /\ served' = FALSE
  /\ UNCHANGED <<main, cfg, signalled, ctxDone, routine, wsDone, events, report, ended>>

(* wsServer.Start calls Stop when the context is cancelled. *)
WSStops ==
  /\ Runs("ws") /\ ctxDone
  /\ CloseDone
  /\ Becomes("ws", "stopping")
  /\ UNCHANGED <<main, cfg, signalled, ctxDone, served, events, report>>

WSReturns ==
  /\ Running /\ routine["ws"] = "stopping" /\ WSGroupDone
  /\ Becomes("ws", "returned")
  /\ UNCHANGED <<main, cfg, signalled, ctxDone, served, wsDone, events, report, ended>>
-----------------------------------------------------------------------------
MainStep ==
  \/ LoadFails \/ Load
  \/ SubscribeFails \/ StartComponents \/ RegisterHealth \/ ReceiveSignal
  \/ MainStopsWS \/ MainWaitedWS \/ MainStopsHub \/ MainStopsManager
  \/ ReadStats("main") \/ MainExits

HealthStep == ReadStats("health") \/ HealthAnswered
UDPStep == UDPPanics \/ UDPReturns \/ UDPCrashes
ProcessorStep == ProcessorTakes \/ EndsWithContext("processor")
HubStep == HubTakes \/ EndsWithContext("hub")
BroadcasterStep == BroadcasterTicks \/ BroadcasterReturns
WSStep == WSStops \/ WSReturns

Next ==
  \/ MainStep \/ HealthStep \/ UDPStep \/ ProcessorStep \/ HubStep \/ WSStep
  \/ BroadcasterStep \/ ListenerReturns
  \/ Signal \/ Receive \/ Produce \/ UDPFails \/ ClientsCome \/ ClientsEnd

Spec == Init /\ [][Next]_vars

(* Every goroutine that can run does; the HTTP server ends when it is shut *)
(* down.  A client may be served for ever.                                 *)
Fairness ==
  /\ WF_vars(MainStep) /\ WF_vars(UDPStep) /\ WF_vars(ProcessorStep)
  /\ WF_vars(HubStep) /\ WF_vars(WSStep) /\ WF_vars(BroadcasterStep)
  /\ WF_vars(wsDone /\ ListenerReturns)

FairSpec == Spec /\ Fairness
-----------------------------------------------------------------------------
Waiting == {telemetry[i] : i \in DOMAIN telemetry}
Counts == 0 .. MaxEvents

(* Types of the variables. *)
TypeOK ==
  /\ main \in {"loading", "starting", "registering", "waiting", "timeout", "waitWS",
               "stopHub", "stopManager", "printing", "done"}
  /\ cfg \in [Settings -> {0, 1}]
  /\ signalled \in BOOLEAN /\ ctxDone \in BOOLEAN /\ served \in BOOLEAN
  /\ wsDone \in BOOLEAN /\ pending \in BOOLEAN
  /\ routine \in [Routines -> {"none", "running", "failed", "stopping", "returned"}]
  /\ received \in Counts /\ produced \in Counts
  /\ telemetry \in Seq(1 .. MaxEvents) /\ Len(telemetry) <= TelemetryCap
  /\ dropped \subseteq 1 .. MaxEvents
  /\ applied \subseteq 1 .. MaxEvents /\ fanned \subseteq 1 .. MaxEvents
  /\ report \in [Readers -> [read : 0 .. 3, handled : Counts, packets : Counts]]
  /\ ended \in {"no", "exit", "panic"}

(* Every event a worker produced is in one place: it waits, was dropped,   *)
(* or was taken by exactly one of the registry's processor and the hub     *)
(* (udp.go:360-370, main.go:259-268, hub.go:161-176).                      *)
EventsHandledOnce ==
  LET places == <<Waiting, dropped, applied, fanned>>
  IN  /\ UNION {places[i] : i \in 1 .. 4} = 1 .. produced
      /\ \A i, j \in 1 .. 4 : i # j => places[i] \cap places[j] = {}
      /\ Cardinality(Waiting) = Len(telemetry)

(* The health response and the final statistics never show more messages   *)
(* and events handled than packets received, although the counters go on   *)
(* while they are read: those further up the pipeline are read later       *)
(* (main.go:178-180, 362-364).                                             *)
HealthAddsUp ==
  \A r \in Readers :
    report[r].read = 3 => report[r].handled <= report[r].packets

ShuttingDown == main \in {"timeout", "waitWS", "stopHub", "stopManager", "printing"}

(* The file has a size that main, or the listener it started, cannot use.  *)
SizeRefused ==
  \/ main = "starting" /\ cfg.subscriber_buffer_size = 0
  \/ routine["udp"] = "running" /\ 0 \in {cfg.packet_queue_size, cfg.read_buffer_size}

(* The process panics for one of two causes only: it has been signalled    *)
(* and main shuts down, or the file has a negative size.  A context that   *)
(* a failed listener cancelled does not end it, nor does a server that     *)
(* cannot listen, nor any other setting (main.go:91-110, 150-163,          *)
(* websocket.go:126-148, udp.go:102, config.go:134-148).                   *)
PanicsHaveACause ==
  ended = "panic" => (signalled /\ ctxDone /\ ShuttingDown) \/ SizeRefused

(* After a signal the process ends, in one way or the other, whatever the  *)
(* components were doing, and even when one of them spins on a ticker it   *)
(* cannot make (main.go:150-166).                                          *)
ShutdownEnds == signalled ~> ~Running

(* main.go:169 says that registerExpandedHealth replaces the basic health  *)
(* handler: main goes on after it.                                         *)
HealthReplaced == [][main = "registering" => ended' = "no"]_vars

(* main.go:153 calls the end of main a graceful shutdown: the process does *)
(* not end in a panic.                                                     *)
ShutdownIsGraceful == ended # "panic"

(* hub.go:17-18: the hub receives events from its input and broadcasts     *)
(* them to all subscribers; manager.go:70: ProcessEvent is the entry point *)
(* from the ingest pipeline.  So an event that was taken reaches both.     *)
EachEventReachesBoth ==
  \A e \in 1 .. MaxEvents :
    e \in applied \cup fanned ~> e \in applied \cap fanned \/ ctxDone
=============================================================================
