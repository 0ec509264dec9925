---------------------------- MODULE DroneRegistry ----------------------------
(***************************************************************************)
(* The drone registry (internal/drone/manager.go): ProcessEvent applies    *)
(* telemetry to the state of a drone, the stale checker marks the drones   *)
(* that fell silent, and both announce what they did on the bounded        *)
(* updates channel, without waiting for room.                              *)
(*                                                                         *)
(* Both hold the write lock of mu throughout.  What they announce goes     *)
(* through outbox, one emitUpdate a step, because whoever reads the        *)
(* updates channel takes no lock and may take from it in between; the lock *)
(* is held while outbox is not empty.                                      *)
(*                                                                         *)
(* An event carries the time at which its worker decoded the frame         *)
(* (parser.go:187).  It may be applied later, and when two workers race to *)
(* the telemetry channel, after an event that was decoded after it.        *)
(***************************************************************************)
EXTENDS Integers, Sequences, FiniteSets, Functions

CONSTANTS
  Drones,          (* the drones: system and component together           *)
  SystemOf,        (* the system id of each drone                         *)
  Payloads,        (* the payloads the decoder may produce                *)
  HistorySize,     (* capacity of a drone's history                       *)
  StaleThreshold,  (* silence after which a drone is stale                *)
  UpdatesCap,      (* capacity of the updates channel                     *)
  MaxDelay,        (* bound on the time from decoding to applying         *)
  MaxClock,        (* bound on the clock                                  *)
  MaxEvents        (* bound on the events applied                         *)

ASSUME RegistryAssumption ==
  /\ IsFiniteSet(Drones)
  /\ HistorySize \in Nat \ {0}
  /\ StaleThreshold \in Nat
  /\ UpdatesCap \in Nat
  /\ MaxDelay \in Nat /\ MaxClock \in Nat /\ MaxEvents \in Nat

(* A payload: its type, whether the frame was too short for it (the        *)
(* decoder then returns a nil pointer of that type), and the armed flag of *)
(* a heartbeat.                                                            *)
PayloadType ==
  [kind : {"heartbeat", "gps", "battery", "attitude", "raw"},
   short : BOOLEAN, armed : BOOLEAN]

ASSUME PayloadsAssumption == Payloads \subseteq PayloadType

Nil == "nil"

(* The GPS pointer is nil. *)
NoFix == -1

(* A history entry: the fields of manager.go:150-162 the properties use. *)
Entry(s, now) == [at |-> now, armed |-> s.armed, battery |-> s.battery]

Buffer == INSTANCE RingBufferOps WITH
            Capacity <- HistorySize,
            ZeroEntry <- [at |-> 0, armed |-> FALSE, battery |-> Nil]

VARIABLES
  clock,     (* time.Now()                                                *)
  known,     (* the drones in the map                                     *)
  state,     (* the state of each                                         *)
  history,   (* the history buffer of each                                *)
  outbox,    (* updates the holder of the lock is still to emit           *)
  updates,   (* the updates channel                                       *)
  dropped,   (* droppedUpdates is not zero                                *)
  panics,    (* panics of ProcessEvent, recovered by its caller           *)
  applied,   (* events applied so far                                     *)
  newest,    (* history: the latest time any event of the drone carried   *)
  overtaken, (* history: the drones that had a newer event applied first  *)
  emitted,   (* history: how often each kind of update was emitted        *)
  mirror     (* history: the last state a reader of the channel was shown *)

vars == <<clock, known, state, history, outbox, updates, dropped, panics,
          applied, newest, overtaken, emitted, mirror>>

Alerts == {"New", "Reconnect", "Disconnect", "Armed", "Disarmed"}

(* The GPS position of a state is known by the time it was decoded.        *)
NewState(now) ==
  [connected |-> TRUE, armed |-> FALSE, firstSeen |-> now, lastSeen |-> now,
   messages |-> 0, heartbeat |-> Nil, gps |-> NoFix, battery |-> Nil,
   attitude |-> Nil]

Init ==
  /\ clock = 0
  /\ known = {}
  /\ state = [d \in Drones |-> NewState(0)]
  /\ history = [d \in Drones |-> Buffer!NewRingBuffer]
  /\ outbox = <<>>
  /\ updates = <<>>
  /\ dropped = FALSE
  /\ panics = 0
  /\ applied = 0
  /\ newest = [d \in Drones |-> 0]
  /\ overtaken = {}
  /\ emitted = [d \in Drones |-> [a \in Alerts |-> 0]]
  /\ mirror = [d \in Drones |-> NewState(0)]
-----------------------------------------------------------------------------
(* ProcessEvent.                                                           *)

(* Mutant: LastSeen is only set when the drone is registered. *)
MutHeardKeepsLastSeen(s, now) ==
  [s EXCEPT !.connected = TRUE, !.messages = @ + 1]

(* Mutant: a message that brings a drone back is not counted. *)
MutHeardSkipsReconnect(s, now) ==
  [s EXCEPT !.connected = TRUE, !.lastSeen = now,
            !.messages = @ + IF s.connected THEN 1 ELSE 0]

(* The common fields (manager.go:109-122). *)
Heard(s, now) ==
  [s EXCEPT !.connected = TRUE, !.lastSeen = now, !.messages = @ + 1]

(* The type-specific fields (manager.go:128-171); a short payload leaves a *)
(* nil pointer behind, and stops there when a field of it is read next.    *)
WithPayload(s, p) ==
  LET value == IF p.short THEN Nil ELSE "set"
  IN  CASE p.kind = "raw" -> s
        [] p.kind = "heartbeat" ->
             [s EXCEPT !.heartbeat = value, !.armed = IF p.short THEN @ ELSE p.armed]
        [] p.kind = "gps" -> [s EXCEPT !.gps = IF p.short THEN NoFix ELSE s.lastSeen]
        [] p.kind \in {"battery", "attitude"} -> [s EXCEPT ![p.kind] = value]

(* payload.Armed and payload.Latitude are read through the nil pointer. *)
Panics(p) == p.short /\ p.kind \in {"heartbeat", "gps"}

(* Mutant: the flag is compared after it was overwritten. *)
MutUpdateTypeAfterwards(s, p) == "Telemetry"

(* The type of the last update, from the state before the payload *)
(* (manager.go:125-144).                                                   *)
UpdateType(s, p) ==
  IF p.kind # "heartbeat" \/ p.armed = s.armed THEN "Telemetry"
  ELSE IF p.armed THEN "Armed" ELSE "Disarmed"

Records(p) == p.kind = "gps" /\ ~p.short

Update(d, type, s) == [drone |-> d, type |-> type, state |-> s]

(* The update before the payload: a new drone, or one that comes back. *)
Announcement(d, isNew, s) ==
  IF isNew THEN <<Update(d, "New", s)>>
  ELSE IF ~s.connected THEN <<Update(d, "Reconnect", [s EXCEPT !.connected = TRUE])>>
  ELSE <<>>

(* The event of drone d with payload p, decoded at the time now. *)
ProcessEvent(d, p, now) ==
  /\ outbox = <<>>
  /\ applied < MaxEvents
  /\ clock - now \in 0 .. MaxDelay
  /\ LET isNew == d \notin known
         s     == IF isNew THEN NewState(now) ELSE state[d]
         heard == Heard(s, now)
         final == WithPayload(heard, p)
     IN  /\ known' = known \cup {d}
         /\ state' = [state EXCEPT ![d] = final]
         /\ history' = IF Records(p)
                       THEN [history EXCEPT ![d] = Buffer!Push(@, Entry(heard, now))]
                       ELSE history
         /\ outbox' = Announcement(d, isNew, s)
                        \o IF Panics(p) THEN <<>>
                           ELSE <<Update(d, UpdateType(heard, p), final)>>
         /\ panics' = panics + IF Panics(p) THEN 1 ELSE 0
  /\ applied' = applied + 1
  /\ newest' = [newest EXCEPT ![d] = IF now > @ THEN now ELSE @]
  /\ overtaken' = IF now < newest[d] THEN overtaken \cup {d} ELSE overtaken
  /\ UNCHANGED <<clock, updates, dropped, emitted, mirror>>
-----------------------------------------------------------------------------
(* emitUpdate, the stale checker, the reader of the channel.               *)

emitUpdate ==
  /\ outbox # <<>>
  /\ LET u    == Head(outbox)
         room == Len(updates) < UpdatesCap
     IN  /\ updates' = IF room THEN Append(updates, u) ELSE updates
         /\ dropped' = (dropped \/ ~room)
         /\ emitted' = IF u.type \in Alerts
                       THEN [emitted EXCEPT ![u.drone][u.type] = @ + 1]
                       ELSE emitted
  /\ outbox' = Tail(outbox)
  /\ UNCHANGED <<clock, known, state, history, panics, applied, newest, overtaken,
                 mirror>>

(* Mutant: only drones that are already disconnected are looked at. *)
MutStaleInverted ==
  {d \in known : ~state[d].connected /\ clock - state[d].lastSeen > StaleThreshold}

Stale ==
  {d \in known : state[d].connected /\ clock - state[d].lastSeen > StaleThreshold}

Disconnected(d) == [state[d] EXCEPT !.connected = FALSE]

(* The orders in which a range over the map may visit a set of drones. *)
Orders(ds) ==
  {f \in [1 .. Cardinality(ds) -> ds] : \A d \in ds : \E i \in DOMAIN f : f[i] = d}

(* Mutant: the disconnected drones are not announced. *)
MutCheckStaleSilent ==
  /\ outbox = <<>>
  /\ Stale # {}
  /\ state' = [d \in Drones |-> IF d \in Stale THEN Disconnected(d) ELSE state[d]]
  /\ UNCHANGED <<clock, known, history, outbox, updates, dropped, panics, applied,
                 newest, overtaken, emitted, mirror>>

(* One round of the checker; a round that finds no stale drone changes     *)
(* nothing.                                                                *)
checkStale ==
  /\ outbox = <<>>
  /\ Stale # {}
  /\ state' = [d \in Drones |-> IF d \in Stale THEN Disconnected(d) ELSE state[d]]
  /\ \E order \in Orders(Stale) :
       outbox' = [i \in DOMAIN order |->
                    Update(order[i], "Disconnect", Disconnected(order[i]))]
  /\ UNCHANGED <<clock, known, history, updates, dropped, panics, applied, newest,
                 overtaken, emitted, mirror>>

(* Whoever reads the updates channel keeps the last state of each drone. *)
ReadUpdate ==
  /\ updates # <<>>
  /\ mirror' = [mirror EXCEPT ![Head(updates).drone] = Head(updates).state]
  /\ updates' = Tail(updates)
  /\ UNCHANGED <<clock, known, state, history, outbox, dropped, panics, applied,
                 newest, overtaken, emitted>>

Tick ==
  /\ clock < MaxClock
  /\ clock' = clock + 1
  /\ UNCHANGED <<known, state, history, outbox, updates, dropped, panics, applied,
                 newest, overtaken, emitted, mirror>>

Next ==
  \/ \E d \in Drones, p \in Payloads, now \in 0 .. clock : ProcessEvent(d, p, now)
  \/ emitUpdate
  \/ checkStale
  \/ ReadUpdate
  \/ Tick

Spec == Init /\ [][Next]_vars

(* The holder of the lock goes on, and the checker's ticker keeps firing;  *)
(* a waiting writer of the mutex is not passed over forever.               *)
FairSpec == Spec /\ WF_vars(emitUpdate) /\ SF_vars(checkStale)
-----------------------------------------------------------------------------
(* What the accessors answer when the lock is free.                        *)

Matching(sys) == {d \in known : SystemOf[d] = sys}

(* The possible answers of GetHistory(sys, n): the first match of a map    *)
(* range; nil, and Last of an empty buffer, are the empty sequence         *)
(* (manager.go:243-253, history.go:59-61).                                 *)
GetHistory(sys, n) ==
  IF Matching(sys) = {} THEN {<<>>}
  ELSE {Buffer!LastN(history[d], n) : d \in Matching(sys)}

ToSummary(d) ==
  [drone |-> d, connected |-> state[d].connected, armed |-> state[d].armed,
   position |-> state[d].gps, lastSeen |-> state[d].lastSeen]

GetAllSummaries == {ToSummary(d) : d \in known}

Connected == {d \in known : state[d].connected}
Armed == {d \in known : state[d].armed}

Stats ==
  [total |-> Cardinality(known), connected |-> Cardinality(Connected),
   armed |-> Cardinality(Armed),
   messages |-> FoldFunctionOnSet(LAMBDA s, n : s.messages + n, 0, state, known)]
-----------------------------------------------------------------------------
StateType ==
  [connected : BOOLEAN, armed : BOOLEAN, firstSeen : Nat, lastSeen : Nat,
   messages : Nat, heartbeat : {Nil, "set"}, gps : {NoFix} \cup Nat,
   battery : {Nil, "set"}, attitude : {Nil, "set"}]

Updates == [drone : Drones, type : Alerts \cup {"Telemetry"}, state : StateType]

(* Types of the variables. *)
TypeOK ==
  /\ clock \in Nat
  /\ known \subseteq Drones
  /\ state \in [Drones -> StateType]
  /\ \A d \in Drones : history[d].head \in Buffer!Slots /\ history[d].count \in 0 .. HistorySize
  /\ outbox \in Seq(Updates)
  /\ updates \in Seq(Updates)
  /\ dropped \in BOOLEAN /\ panics \in Nat /\ applied \in Nat
  /\ newest \in [Drones -> Nat]
  /\ overtaken \subseteq Drones
  /\ emitted \in [Drones -> [Alerts -> Nat]]
  /\ mirror \in [Drones -> StateType]

Count(b) == IF b THEN 1 ELSE 0

(* The alerts tell the whole story of a drone: between any two alerts of   *)
(* one kind there is one of the opposite kind, and the last of them says   *)
(* what the registry holds, through every interleaving of events, stale    *)
(* checks and panics; and so do the totals of Stats, which count the       *)
(* messages that panicked too (manager.go:99-144, 329-342, 395-433).       *)
AlertsMatchState ==
  outbox = <<>> =>
    /\ \A d \in Drones :
         LET e == emitted[d]
         IN  /\ e["New"] = Count(d \in known)
             /\ e["New"] + e["Reconnect"] - e["Disconnect"] = Count(d \in Connected)
             /\ e["Armed"] - e["Disarmed"] = Count(d \in Armed)
    /\ Stats.messages = applied
    /\ Stats.total - Stats.connected
         = FoldFunction(LAMBDA e, n : e["Disconnect"] - e["Reconnect"] + n, 0, emitted)

(* Who reads every update holds the registry's state: once the channel is  *)
(* drained, and unless an update was dropped or an event panicked, the     *)
(* last snapshot of each drone is its state (manager.go:173-199, 337-342). *)
MirrorIsCurrent ==
  outbox = <<>> /\ updates = <<>> /\ ~dropped /\ panics = 0 =>
    \A d \in known : mirror[d] = state[d]

(* The stale checker marks a drone although one of its events is recent.   *)
Misjudged(d) ==
  state[d].connected /\ ~state'[d].connected /\ clock - newest[d] <= StaleThreshold

(* The only way to misjudge a drone is to have applied one of its events   *)
(* after a newer one (manager.go:76, 120, 329).                            *)
OnlyOvertakenMisjudged ==
  [][\A d \in known : Misjudged(d) => d \in overtaken]_vars

Silent(d) ==
  d \in known /\ state[d].connected /\ clock - state[d].lastSeen > StaleThreshold

(* A drone that is silent beyond the threshold is marked, or is heard of   *)
(* again, however events and checks compete for the lock.                  *)
SilentIsNoticed ==
  \A d \in Drones : Silent(d) ~> ~Silent(d)

(* Whichever component's history GetHistory answers with, its entries are  *)
(* in the order of their times (history.go:51, manager.go:243-253), for a  *)
(* vehicle whose events were never applied out of order.                   *)
HistoryInOrder ==
  LET disordered == {SystemOf[d] : d \in overtaken}
  IN  \A d \in known : SystemOf[d] \notin disordered =>
        \A h \in GetHistory(SystemOf[d], HistorySize) :
          \A i, j \in DOMAIN h : i < j => h[i].at <= h[j].at
=============================================================================
