--------------------------- MODULE WebSocketServer ---------------------------
(***************************************************************************)
(* The WebSocket server (internal/broadcast/websocket.go): HTTP handlers   *)
(* register clients, a read loop per client takes its drone filter, a      *)
(* write loop sends what is queued for it, the broadcast loop queues a     *)
(* snapshot of the registry for every client, and Stop ends them all.      *)
(*                                                                         *)
(* The broadcast loop holds the read lock of mu while it visits the        *)
(* clients; registering, removing and Stop's cancel loop are one step each *)
(* under the write lock.  A client's filter has a lock of its own, taken   *)
(* once to ask whether there is a filter and once more for every drone, so *)
(* that a subscription may come in between.                                *)
(*                                                                         *)
(* Every snapshot holds all of Systems: what the registry holds is         *)
(* DroneRegistry's subject.  The event types of a subscription are stored  *)
(* and never read, and are left out.  A messages channel is the number of  *)
(* messages in it; loop.picked holds the drones of the latest one.         *)
(***************************************************************************)
EXTENDS Integers, Sequences, FiniteSets

CONSTANTS
  Conns,          (* the connections of remote peers                      *)
  Choosy,         (* those whose peers may subscribe with a filter        *)
  Systems,        (* the system ids of the drones in a snapshot           *)
  Filters,        (* the filters a peer may subscribe with, {} for all    *)
  MaxClients,     (* max_clients, 0 for no limit                          *)
  QueueCap,       (* capacity of a client's messages channel              *)
  MaxBroadcasts   (* bound on the broadcasts                              *)

ASSUME WebSocketAssumption ==
  /\ IsFiniteSet(Conns)
  /\ Choosy \subseteq Conns
  /\ Filters \subseteq SUBSET Systems
  /\ MaxClients \in Nat
  /\ QueueCap \in Nat \ {0}
  /\ MaxBroadcasts \in Nat

VARIABLES
  handler,     (* the place of each connection's handleWebSocket          *)
  alive,       (* the connections whose peer is there and keeps reading   *)
  clients,     (* the clients map                                         *)
  cancelled,   (* the connections whose context is cancelled              *)
  reader,      (* the read loop of each                                   *)
  writer,      (* the write loop of each                                  *)
  filter,      (* droneIDs of each, {} when there is no filter            *)
  messages,    (* how many messages wait for each                         *)
  loop,        (* the broadcast loop                                      *)
  pending,     (* whether pendingUpdates is not empty                     *)
  broadcasts,  (* broadcasts so far                                       *)
  ctxDone,     (* the server's context is cancelled                       *)
  stop,        (* the place of Stop, which Start calls                    *)
  raced,       (* history: a check passed while a handler was in flight   *)
  late         (* history: clients registered after Stop cancelled them   *)

conns == <<handler, alive, clients, cancelled, reader, writer>>
shared == <<filter, messages>>
history == <<raced, late>>
vars == <<conns, shared, loop, pending, broadcasts, ctxDone, stop, history>>

Idle == [pc |-> "select", todo |-> {}, conn |-> {}, rest |-> {}, picked |-> {},
         seen |-> {}]

Init ==
  /\ handler = [c \in Conns |-> "none"]
  /\ alive = Conns
  /\ clients = {}
  /\ cancelled = {}
  /\ reader = [c \in Conns |-> "none"]
  /\ writer = [c \in Conns |-> "none"]
  /\ filter = [c \in Conns |-> {}]
  /\ messages = [c \in Conns |-> 0]
  /\ loop = Idle
  /\ pending = FALSE
  /\ broadcasts = 0
  /\ ctxDone = FALSE
  /\ stop = "idle"
  /\ raced = FALSE /\ late = {}

(* The write lock of mu is free. *)
Unlocked == loop.pc \notin {"visiting", "filtering"}

InFlight == {c \in Conns : handler[c] = "checked"}

Goto(c, from, to) == handler[c] = from /\ handler' = [handler EXCEPT ![c] = to]
-----------------------------------------------------------------------------
(* handleWebSocket.                                                        *)

(* Mutant: the limit is off by one. *)
MutHasRoomOffByOne == MaxClients = 0 \/ Cardinality(clients) <= MaxClients

HasRoom == MaxClients = 0 \/ Cardinality(clients) < MaxClients

(* The limit is checked under a lock that is released again. *)
Check(c) ==
  /\ stop \notin {"waiting", "returned"}
  /\ IF HasRoom THEN Goto(c, "none", "checked") ELSE Goto(c, "none", "gone")
  /\ raced' = (raced \/ (HasRoom /\ InFlight # {}))
  /\ UNCHANGED <<alive, clients, cancelled, reader, writer, shared, loop, pending,
                 broadcasts, ctxDone, stop, late>>

(* The upgrade fails. *)
AcceptFails(c) ==
  /\ Goto(c, "checked", "gone")
  /\ UNCHANGED <<alive, clients, cancelled, reader, writer, shared, loop, pending,
                 broadcasts, ctxDone, stop, history>>

(* The upgrade succeeds, and the client is put into the map. *)
Register(c) ==
  /\ Unlocked
  /\ c \in alive
  /\ Goto(c, "checked", "registered")
  /\ clients' = clients \cup {c}
  /\ late' = IF stop = "idle" THEN late ELSE late \cup {c}
  /\ UNCHANGED <<alive, cancelled, reader, writer, shared, loop, pending,
                 broadcasts, ctxDone, stop, raced>>

Spawn(c) ==
  /\ Goto(c, "registered", "serving")
  /\ reader' = [reader EXCEPT ![c] = "running"]
  /\ writer' = [writer EXCEPT ![c] = "running"]
  /\ UNCHANGED <<alive, clients, cancelled, shared, loop, pending, broadcasts,
                 ctxDone, stop, history>>

(* Mutant: the client is removed without the lock. *)
MutCleanupUnlocked(c) ==
  /\ c \in cancelled
  /\ Goto(c, "serving", "gone")
  /\ clients' = clients \ {c}
  /\ UNCHANGED <<alive, cancelled, reader, writer, shared, loop, pending,
                 broadcasts, ctxDone, stop, history>>

(* Mutant: the handler returns without removing the client. *)
MutCleanupKeepsClient(c) ==
  /\ Unlocked
  /\ c \in cancelled
  /\ Goto(c, "serving", "gone")
  /\ UNCHANGED <<alive, clients, cancelled, reader, writer, shared, loop, pending,
                 broadcasts, ctxDone, stop, history>>

(* The context is cancelled: the client is removed and the socket closed. *)
Cleanup(c) ==
  /\ Unlocked
  /\ c \in cancelled
  /\ Goto(c, "serving", "gone")
  /\ clients' = clients \ {c}
  /\ UNCHANGED <<alive, cancelled, reader, writer, shared, loop, pending,
                 broadcasts, ctxDone, stop, history>>
-----------------------------------------------------------------------------
(* The loops of a client.                                                  *)

(* A subscription replaces the filter; one for no drone at all clears it. *)
ReadSubscribe(c, f) ==
  /\ c \in Choosy
  /\ reader[c] = "running"
  /\ c \in alive
  /\ filter' = [filter EXCEPT ![c] = f]
  /\ loop' = IF c \in loop.conn THEN [loop EXCEPT !.seen = @ \cup {f}] ELSE loop
  /\ UNCHANGED <<conns, messages, pending, broadcasts, ctxDone, stop, history>>

(* Read fails: the deferred cancel ends the other loop as well. *)
ReaderReturn(c) ==
  /\ reader[c] = "running"
  /\ c \in cancelled \/ c \notin alive
  /\ reader' = [reader EXCEPT ![c] = "returned"]
  /\ cancelled' = cancelled \cup {c}
  /\ UNCHANGED <<handler, alive, clients, writer, shared, loop, pending,
                 broadcasts, ctxDone, stop, history>>

(* A message is written in time. *)
Write(c) ==
  /\ writer[c] = "running"
  /\ messages[c] > 0
  /\ c \in alive
  /\ messages' = [messages EXCEPT ![c] = @ - 1]
  /\ UNCHANGED <<conns, filter, loop, pending, broadcasts, ctxDone, stop, history>>

(* The context is done, or a write or a ping fails or times out. *)
WriterReturn(c) ==
  /\ writer[c] = "running"
  /\ c \in cancelled \/ c \notin alive
  /\ writer' = [writer EXCEPT ![c] = "returned"]
  /\ cancelled' = cancelled \cup {c}
  /\ \/ UNCHANGED messages
     \/ messages[c] > 0 /\ messages' = [messages EXCEPT ![c] = @ - 1]
  /\ UNCHANGED <<handler, alive, clients, reader, filter, loop, pending, broadcasts,
                 ctxDone, stop, history>>

(* External: the peer goes away, or stops reading and answering pings. *)
PeerLeave(c) ==
  /\ c \in alive
  /\ alive' = alive \ {c}
  /\ UNCHANGED <<handler, clients, cancelled, reader, writer, shared, loop, pending,
                 broadcasts, ctxDone, stop, history>>
-----------------------------------------------------------------------------
(* The broadcast loop.                                                     *)

LoopEvent ==
  /\ loop.pc = "select"
  /\ ~pending
  /\ broadcasts < MaxBroadcasts
  /\ pending' = TRUE
  /\ UNCHANGED <<conns, shared, loop, broadcasts, ctxDone, stop, history>>

(* The ticker fires and something is pending: the snapshot is taken. *)
LoopTick ==
  /\ loop.pc = "select"
  /\ pending
  /\ loop' = [Idle EXCEPT !.pc = "visiting", !.todo = clients]
  /\ broadcasts' = broadcasts + 1
  /\ UNCHANGED <<conns, shared, pending, ctxDone, stop, history>>

(* The non-blocking send of message m to client c, and on to the next. *)
Queued(c, m) ==
  /\ messages' = [messages EXCEPT ![c] = IF @ < QueueCap THEN @ + 1 ELSE @]
  /\ loop' = [Idle EXCEPT !.pc = "visiting", !.todo = loop.todo \ {c}, !.picked = m]

(* Mutant: clients with a filter get the whole snapshot. *)
MutLoopVisitFull(c) ==
  /\ loop.pc = "visiting" /\ c \in loop.todo
  /\ Queued(c, Systems)
  /\ UNCHANGED <<conns, filter, pending, broadcasts, ctxDone, stop, history>>

(* hasFilter decides between the whole snapshot and the filtered one. *)
LoopVisit(c) ==
  /\ loop.pc = "visiting" /\ c \in loop.todo
  /\ \/ filter[c] = {} /\ Queued(c, Systems)
     \/ /\ filter[c] # {}
        /\ loop' = [loop EXCEPT !.pc = "filtering", !.conn = {c}, !.rest = Systems,
                                !.picked = {}, !.seen = {filter[c]}]
        /\ UNCHANGED messages
  /\ UNCHANGED <<conns, filter, pending, broadcasts, ctxDone, stop, history>>

Matches(c, s) == filter[c] = {} \/ s \in filter[c]

(* matchesDrone, for one drone of the snapshot. *)
LoopMatch(c, s) ==
  /\ loop.pc = "filtering" /\ c \in loop.conn /\ s \in loop.rest
  /\ loop' = [loop EXCEPT !.rest = @ \ {s},
                          !.picked = @ \cup (IF Matches(c, s) THEN {s} ELSE {})]
  /\ UNCHANGED <<conns, shared, pending, broadcasts, ctxDone, stop, history>>

LoopQueue(c) ==
  /\ loop.pc = "filtering" /\ c \in loop.conn /\ loop.rest = {}
  /\ Queued(c, loop.picked)
  /\ UNCHANGED <<conns, filter, pending, broadcasts, ctxDone, stop, history>>

LoopUnlock ==
  /\ loop.pc = "visiting" /\ loop.todo = {}
  /\ loop' = Idle
  /\ pending' = FALSE
  /\ UNCHANGED <<conns, shared, broadcasts, ctxDone, stop, history>>

LoopReturn ==
  /\ loop.pc = "select"
  /\ ctxDone
  /\ loop' = [loop EXCEPT !.pc = "returned"]
  /\ UNCHANGED <<conns, shared, pending, broadcasts, ctxDone, stop, history>>
-----------------------------------------------------------------------------
(* Shutdown: Start calls Stop when the context is cancelled.               *)

CancelContext ==
  /\ ~ctxDone
  /\ ctxDone' = TRUE
  /\ UNCHANGED <<conns, shared, loop, pending, broadcasts, stop, history>>

(* Mutant: the clients' contexts are not cancelled. *)
MutStopCancelForgets ==
  /\ stop = "idle" /\ ctxDone
  /\ Unlocked
  /\ stop' = "cancelled"
  /\ UNCHANGED <<conns, shared, loop, pending, broadcasts, ctxDone, history>>

(* done is closed and the contexts of the clients are cancelled. *)
StopCancel ==
  /\ stop = "idle" /\ ctxDone
  /\ Unlocked
  /\ cancelled' = cancelled \cup clients
  /\ stop' = "cancelled"
  /\ UNCHANGED <<handler, alive, clients, reader, writer, shared, loop, pending,
                 broadcasts, ctxDone, history>>

(* The HTTP server stops listening; Shutdown waits at most five seconds    *)
(* for the handlers that are not upgraded yet.                             *)
StopShutdown ==
  /\ stop = "cancelled"
  /\ stop' = "waiting"
  /\ UNCHANGED <<conns, shared, loop, pending, broadcasts, ctxDone, history>>

(* wg.Wait. *)
StopReturn ==
  /\ stop = "waiting"
  /\ loop.pc = "returned"
  /\ \A c \in Conns : reader[c] # "running" /\ writer[c] # "running"
  /\ stop' = "returned"
  /\ UNCHANGED <<conns, shared, loop, pending, broadcasts, ctxDone, history>>
-----------------------------------------------------------------------------
ClientStep(c) ==
  \/ AcceptFails(c) \/ Register(c) \/ Spawn(c) \/ Cleanup(c)
  \/ ReaderReturn(c) \/ Write(c) \/ WriterReturn(c)

LoopStep ==
  \/ LoopTick \/ LoopUnlock \/ LoopReturn
  \/ \E c \in Conns : \/ LoopVisit(c) \/ LoopQueue(c)
                      \/ \E s \in Systems : LoopMatch(c, s)

StopStep == StopCancel \/ StopShutdown \/ StopReturn

GoStep == (\E c \in Conns : ClientStep(c)) \/ LoopStep \/ StopStep

Next ==
  \/ GoStep
  \/ \E c \in Conns : Check(c) \/ PeerLeave(c) \/ \E f \in Filters : ReadSubscribe(c, f)
  \/ LoopEvent
  \/ CancelContext

Spec == Init /\ [][Next]_vars

(* While a goroutine can go on, some goroutine does.  Their steps cannot   *)
(* be repeated for ever within the bound, so that in the end none can.     *)
(* Peers need not connect, subscribe or leave.                             *)
FairSpec == Spec /\ WF_vars(GoStep)
-----------------------------------------------------------------------------
LoopType ==
  [pc : {"select", "visiting", "filtering", "returned"}, todo : SUBSET Conns,
   conn : SUBSET Conns, rest : SUBSET Systems, picked : SUBSET Systems,
   seen : SUBSET Filters]

(* Types of the variables; no messages channel holds more than its capacity. *)
TypeOK ==
  /\ handler \in [Conns -> {"none", "checked", "registered", "serving", "gone"}]
  /\ alive \subseteq Conns /\ clients \subseteq Conns /\ cancelled \subseteq Conns
  /\ late \subseteq Conns
  /\ reader \in [Conns -> {"none", "running", "returned"}]
  /\ writer \in [Conns -> {"none", "running", "returned"}]
  /\ filter \in [Conns -> Filters \cup {{}}]
  /\ messages \in [Conns -> 0 .. QueueCap]
  /\ loop \in LoopType
  /\ pending \in BOOLEAN /\ ctxDone \in BOOLEAN /\ raced \in BOOLEAN
  /\ broadcasts \in 0 .. MaxBroadcasts
  /\ stop \in {"idle", "cancelled", "waiting", "returned"}

Shown(f) == IF f = {} THEN Systems ELSE f

(* A message never shows a drone that no filter of its client asked for    *)
(* while the message was put together, and shows every drone that all of   *)
(* them asked for: the filter may change between hasFilter and the calls   *)
(* of matchesDrone (websocket.go:66-79, 245-264).                          *)
MessagesFollowFilters ==
  [][\A c \in Conns :
       messages'[c] > messages[c] =>
         LET m    == loop'.picked
             seen == IF loop.pc = "filtering" THEN loop.seen ELSE {filter[c]}
         IN  /\ m \subseteq UNION {Shown(f) : f \in seen}
             /\ \A s \in Systems : (\A f \in seen : s \in Shown(f)) => s \in m]_vars

(* Nothing is queued for a client once it has left the map, although the   *)
(* broadcast visits a snapshot of the map (websocket.go:240-271, 324-326). *)
OnlyClientsGetMessages ==
  [][\A c \in Conns : messages'[c] > messages[c] => c \in clients]_vars

(* The limit on clients holds as long as no two handshakes overlap between *)
(* the check and the registration (websocket.go:277-283, 303-305).         *)
LimitUnlessRaced ==
  ~raced /\ MaxClients > 0 => Cardinality(clients) <= MaxClients

(* A client whose peer has left is removed, whoever notices first, and     *)
(* both of its loops end (websocket.go:335-343, 378-409, 321-326).         *)
DepartedAreRemoved ==
  \A c \in Conns :
    (c \in clients /\ c \notin alive)
      ~> (c \notin clients /\ reader[c] = "returned" /\ writer[c] = "returned")

(* Stop returns, unless a handler registers its client after the contexts  *)
(* were cancelled: that client is served until its peer leaves             *)
(* (websocket.go:146-166).                                                 *)
StopReturnsUnlessLate ==
  ctxDone ~> (stop = "returned" \/ late \cap clients # {})
=============================================================================
