--------------------------- MODULE WebSocketProofs ---------------------------
(***************************************************************************)
(* Theorems about the WebSocket server, for every set of connections, of   *)
(* drones and of filters, and every limit and queue capacity.              *)
(*                                                                         *)
(* Three arguments.  The read lock: while a broadcast visits the clients   *)
(* the map cannot change, so that what is still to be visited is in it     *)
(* (Visiting).  The filter: a message that is being put together lies      *)
(* between what all and what any of the filters seen so far ask for        *)
(* (Picking), and the filter in force is one of these.  The limit: as long *)
(* as no two handshakes overlapped, the one in flight still has the room   *)
(* it found (Room).                                                        *)
(***************************************************************************)
EXTENDS WebSocketServer, FiniteSetTheorems, TLAPS

(* The map, and the broadcast that goes through it. *)
Visiting ==
  /\ \A c \in clients : handler[c] \in {"registered", "serving"}
  /\ ~Unlocked => loop.todo \subseteq clients
  /\ loop.pc = "filtering" => \E c \in loop.todo : loop.conn = {c}
  /\ loop.pc # "filtering" => loop.conn = {}

(* The message for the client at which the broadcast is. *)
Picking ==
  \A c \in loop.conn :
    /\ filter[c] \in loop.seen
    /\ loop.picked \subseteq UNION {Shown(f) : f \in loop.seen}
    /\ \A s \in Systems \ loop.rest :
         (\A f \in loop.seen : s \in Shown(f)) => s \in loop.picked

Room ==
  ~raced /\ MaxClients > 0 =>
    /\ Cardinality(clients) <= MaxClients
    /\ InFlight # {} => Cardinality(clients) < MaxClients
    /\ \A c, d \in InFlight : c = d

ConnType ==
  /\ handler \in [Conns -> {"none", "checked", "registered", "serving", "gone"}]
  /\ alive \subseteq Conns /\ clients \subseteq Conns /\ cancelled \subseteq Conns
  /\ late \subseteq Conns

ClientType ==
  /\ reader \in [Conns -> {"none", "running", "returned"}]
  /\ writer \in [Conns -> {"none", "running", "returned"}]
  /\ filter \in [Conns -> Filters \cup {{}}]
  /\ messages \in [Conns -> 0 .. QueueCap]

FlagType ==
  /\ pending \in BOOLEAN /\ ctxDone \in BOOLEAN /\ raced \in BOOLEAN
  /\ broadcasts \in 0 .. MaxBroadcasts
  /\ stop \in {"idle", "cancelled", "waiting", "returned"}

LoopTyped == loop \in LoopType

Typed == ConnType /\ ClientType /\ LoopTyped /\ FlagType

(* What is pending may still be broadcast. *)
Bounded == loop.pc = "select" /\ pending => broadcasts < MaxBroadcasts

IInv ==
  /\ Typed
  /\ Visiting
  /\ Picking
  /\ Room
  /\ Bounded
-----------------------------------------------------------------------------
USE WebSocketAssumption DEF Unlocked

LEMMA TypedIsTypeOK == Typed <=> TypeOK
BY DEF Typed, ConnType, ClientType, LoopTyped, FlagType, TypeOK

LEMMA InitIInv == Init => IInv
<1> SUFFICES ASSUME Init PROVE IInv
  OBVIOUS
<1> USE DEF Init, Idle
<1>1. ConnType
  BY DEF ConnType
<1>2. ClientType
  BY DEF ClientType
<1>3. LoopTyped
  BY DEF LoopTyped, LoopType
<1>4. FlagType
  <2>1. broadcasts \in 0 .. MaxBroadcasts
    OBVIOUS
  <2> QED  BY <2>1 DEF FlagType
<1>5. Visiting /\ Picking /\ Bounded
  BY DEF Visiting, Picking, Bounded
<1>6. Room
  BY FS_EmptySet DEF Room, InFlight
<1> HIDE DEF Init
<1> QED  BY <1>1, <1>2, <1>3, <1>4, <1>5, <1>6 DEF IInv, Typed

LEMMA ClientsFinite == ConnType => IsFiniteSet(clients) /\ Cardinality(clients) \in Nat
BY FS_Subset, FS_CardinalityType DEF ConnType

LEMMA CheckIInv ==
  ASSUME IInv, NEW c \in Conns, Check(c)
  PROVE  IInv'
<1> USE DEF IInv, Typed, Check, Goto, HasRoom, shared
<1>1. ConnType' /\ ClientType'
  BY DEF ConnType, ClientType
<1>2. LoopTyped' /\ FlagType'
  BY DEF LoopTyped, LoopType, FlagType
<1>3. Visiting' /\ Picking' /\ Bounded'
  BY DEF ConnType, ClientType, Visiting, Picking, Bounded
<1>4. Room'
  <2> SUFFICES ASSUME ~raced', MaxClients > 0
               PROVE  /\ Cardinality(clients) <= MaxClients
                      /\ InFlight' # {} => Cardinality(clients) < MaxClients
                      /\ \A a, b \in InFlight' : a = b
    BY DEF Room
  <2>1. Room => /\ Cardinality(clients) <= MaxClients
                /\ InFlight # {} => Cardinality(clients) < MaxClients
                /\ \A a, b \in InFlight : a = b
    BY DEF Room
  <2>2. CASE HasRoom
    <3>1. InFlight = {}
      BY <2>2, Zenon
    <3>2. Cardinality(clients) < MaxClients
      BY <2>2
    <3>3. InFlight' \subseteq InFlight \cup {c}
      BY <2>2 DEF ConnType, InFlight
    <3> QED  BY <2>1, <3>1, <3>2, <3>3
  <2>3. CASE ~HasRoom
    <3>1. InFlight' = InFlight
      BY <2>3 DEF ConnType, InFlight
    <3> QED  BY <2>1, <3>1
  <2> QED  BY <2>2, <2>3
<1> QED  BY <1>1, <1>2, <1>3, <1>4

LEMMA AcceptFailsIInv ==
  ASSUME IInv, NEW c \in Conns, AcceptFails(c)
  PROVE  IInv'
<1> USE DEF IInv, Typed, AcceptFails, Goto, shared, history
<1>1. ConnType' /\ ClientType'
  BY DEF ConnType, ClientType
<1>2. LoopTyped' /\ FlagType'
  BY DEF LoopTyped, LoopType, FlagType
<1>3. Visiting' /\ Picking' /\ Bounded'
  BY DEF ConnType, ClientType, Visiting, Picking, Bounded
<1>4. Room'
  BY ClientsFinite DEF ConnType, FlagType, Room, InFlight
<1> QED  BY <1>1, <1>2, <1>3, <1>4

LEMMA RegisterIInv ==
  ASSUME IInv, NEW c \in Conns, Register(c)
  PROVE  IInv'
<1> USE DEF IInv, Typed, Register, Goto, shared
<1>1. ConnType' /\ ClientType'
  BY DEF ConnType, ClientType
<1>2. LoopTyped' /\ FlagType'
  BY DEF LoopTyped, LoopType, FlagType
<1>3. Visiting' /\ Picking' /\ Bounded'
  BY DEF ConnType, ClientType, Visiting, Picking, Bounded
<1>4. Room'
  <2>1. c \in InFlight /\ InFlight' = InFlight \ {c}
    BY DEF ConnType, InFlight
  <2>2. c \notin clients
    BY DEF Visiting
  <2>3. IsFiniteSet(clients) /\ Cardinality(clients) \in Nat
        /\ Cardinality(clients') = Cardinality(clients) + 1
    BY <2>2, ClientsFinite, FS_AddElement
  <2>4. raced' = raced
    OBVIOUS
  <2> HIDE DEF Register
  <2> QED  BY <2>1, <2>3, <2>4 DEF Room
<1> QED  BY <1>1, <1>2, <1>3, <1>4

LEMMA SpawnIInv ==
  ASSUME IInv, NEW c \in Conns, Spawn(c)
  PROVE  IInv'
<1> USE DEF IInv, Typed, Spawn, Goto, shared, history
<1>1. ConnType' /\ ClientType'
  BY DEF ConnType, ClientType
<1>2. LoopTyped' /\ FlagType'
  BY DEF LoopTyped, LoopType, FlagType
<1>3. Visiting' /\ Picking' /\ Bounded'
  BY DEF ConnType, ClientType, Visiting, Picking, Bounded
<1>4. Room'
  BY ClientsFinite DEF ConnType, FlagType, Room, InFlight
<1> QED  BY <1>1, <1>2, <1>3, <1>4

LEMMA CleanupIInv ==
  ASSUME IInv, NEW c \in Conns, Cleanup(c)
  PROVE  IInv'
<1> USE DEF IInv, Typed, Cleanup, Goto, shared, history
<1>1. ConnType' /\ ClientType'
  BY DEF ConnType, ClientType
<1>2. LoopTyped' /\ FlagType'
  BY DEF LoopTyped, LoopType, FlagType
<1>3. Visiting' /\ Picking' /\ Bounded'
  BY DEF ConnType, ClientType, Visiting, Picking, Bounded
<1>4. Room'
  <2>1. InFlight' = InFlight
    BY DEF ConnType, InFlight
  <2>2. /\ Cardinality(clients) \in Nat /\ Cardinality(clients') \in Nat
        /\ Cardinality(clients') <= Cardinality(clients)
    BY ClientsFinite, FS_Subset, FS_CardinalityType
  <2>3. raced' = raced
    OBVIOUS
  <2> HIDE DEF Cleanup
  <2> QED  BY <2>1, <2>2, <2>3 DEF Room
<1> QED  BY <1>1, <1>2, <1>3, <1>4

LEMMA ReadSubscribeIInv ==
  ASSUME IInv, NEW c \in Conns, NEW f \in Filters, ReadSubscribe(c, f)
  PROVE  IInv'
<1> USE DEF IInv, Typed, ReadSubscribe, conns, shared, history
<1>1. ConnType' /\ ClientType'
  BY DEF ConnType, ClientType
<1>2. LoopTyped' /\ FlagType'
  BY DEF LoopTyped, LoopType, FlagType
<1>3. Visiting' /\ Picking' /\ Bounded'
  BY DEF ConnType, ClientType, Visiting, Picking, Bounded
<1>4. Room'
  BY ClientsFinite DEF ConnType, FlagType, Room, InFlight
<1> QED  BY <1>1, <1>2, <1>3, <1>4

LEMMA ReaderReturnIInv ==
  ASSUME IInv, NEW c \in Conns, ReaderReturn(c)
  PROVE  IInv'
<1> USE DEF IInv, Typed, ReaderReturn, conns, shared, history
<1>1. ConnType' /\ ClientType'
  BY DEF ConnType, ClientType
<1>2. LoopTyped' /\ FlagType'
  BY DEF LoopTyped, LoopType, FlagType
<1>3. Visiting' /\ Picking' /\ Bounded'
  BY DEF ConnType, ClientType, Visiting, Picking, Bounded
<1>4. Room'
  BY ClientsFinite DEF ConnType, FlagType, Room, InFlight
<1> QED  BY <1>1, <1>2, <1>3, <1>4

LEMMA WriteIInv ==
  ASSUME IInv, NEW c \in Conns, Write(c)
  PROVE  IInv'
<1> USE DEF IInv, Typed, Write, conns, shared, history
<1>1. ConnType' /\ ClientType'
  BY DEF ConnType, ClientType
<1>2. LoopTyped' /\ FlagType'
  BY DEF LoopTyped, LoopType, FlagType
<1>3. Visiting' /\ Picking' /\ Bounded'
  BY DEF ConnType, ClientType, Visiting, Picking, Bounded
<1>4. Room'
  BY ClientsFinite DEF ConnType, FlagType, Room, InFlight
<1> QED  BY <1>1, <1>2, <1>3, <1>4

LEMMA WriterReturnIInv ==
  ASSUME IInv, NEW c \in Conns, WriterReturn(c)
  PROVE  IInv'
<1> USE DEF IInv, Typed, WriterReturn, conns, shared, history
<1>1. ConnType' /\ ClientType'
  BY DEF ConnType, ClientType
<1>2. LoopTyped' /\ FlagType'
  BY DEF LoopTyped, LoopType, FlagType
<1>3. Visiting' /\ Picking' /\ Bounded'
  BY DEF ConnType, ClientType, Visiting, Picking, Bounded
<1>4. Room'
  BY ClientsFinite DEF ConnType, FlagType, Room, InFlight
<1> QED  BY <1>1, <1>2, <1>3, <1>4

LEMMA PeerLeaveIInv ==
  ASSUME IInv, NEW c \in Conns, PeerLeave(c)
  PROVE  IInv'
<1> USE DEF IInv, Typed, PeerLeave, conns, shared, history
<1>1. ConnType' /\ ClientType'
  BY DEF ConnType, ClientType
<1>2. LoopTyped' /\ FlagType'
  BY DEF LoopTyped, LoopType, FlagType
<1>3. Visiting' /\ Picking' /\ Bounded'
  BY DEF ConnType, ClientType, Visiting, Picking, Bounded
<1>4. Room'
  BY ClientsFinite DEF ConnType, FlagType, Room, InFlight
<1> QED  BY <1>1, <1>2, <1>3, <1>4
-----------------------------------------------------------------------------

LEMMA LoopEventIInv ==
  ASSUME IInv, LoopEvent
  PROVE  IInv'
<1> USE DEF IInv, Typed, LoopEvent, conns, shared, history
<1>1. ConnType' /\ ClientType'
  BY DEF ConnType, ClientType
<1>2. LoopTyped' /\ FlagType'
  BY DEF LoopTyped, LoopType, FlagType
<1>3. Visiting' /\ Picking' /\ Bounded'
  BY DEF ConnType, ClientType, Visiting, Picking, Bounded
<1>4. Room'
  BY ClientsFinite DEF ConnType, FlagType, Room, InFlight
<1> QED  BY <1>1, <1>2, <1>3, <1>4

LEMMA LoopTickIInv ==
  ASSUME IInv, LoopTick
  PROVE  IInv'
<1> USE DEF IInv, Typed, LoopTick, conns, shared, history, Idle
<1>1. ConnType' /\ ClientType'
  BY DEF ConnType, ClientType
<1>2. LoopTyped'
  BY DEF ConnType, LoopTyped, LoopType
<1>3. FlagType'
  BY DEF FlagType, Bounded
<1>4. Visiting' /\ Picking' /\ Bounded'
  BY DEF ConnType, ClientType, Visiting, Picking, Bounded
<1>5. Room'
  BY ClientsFinite DEF ConnType, FlagType, Room, InFlight
<1> QED  BY <1>1, <1>2, <1>3, <1>4, <1>5

LEMMA LoopVisitIInv ==
  ASSUME IInv, NEW c \in Conns, LoopVisit(c)
  PROVE  IInv'
<1> USE DEF IInv, Typed, conns, shared, history
<1>1. ConnType' /\ ClientType' /\ FlagType'
  BY DEF LoopVisit, Queued, ConnType, ClientType, FlagType
<1>2. LoopTyped' /\ Visiting' /\ Picking' /\ Bounded'
  <2>1. /\ loop \in LoopType /\ c \in loop.todo /\ loop.pc = "visiting"
        /\ handler' = handler /\ clients' = clients /\ filter' = filter
    BY DEF LoopVisit, LoopTyped
  <2>2. CASE filter[c] = {}
    <3>1. loop' = [pc |-> "visiting", todo |-> loop.todo \ {c}, conn |-> {},
                   rest |-> {}, picked |-> Systems, seen |-> {}]
      BY <2>2 DEF LoopVisit, Queued, Idle
    <3>2. LoopTyped'
      BY <2>1, <3>1 DEF LoopTyped, LoopType
    <3>3. Visiting' /\ Picking' /\ Bounded'
      BY <2>1, <3>1 DEF Visiting, Picking, Bounded
    <3> QED  BY <3>2, <3>3
  <2>3. CASE filter[c] # {}
    <3>1. loop' = [loop EXCEPT !.pc = "filtering", !.conn = {c}, !.rest = Systems,
                               !.picked = {}, !.seen = {filter[c]}]
      BY <2>3 DEF LoopVisit
    <3>2. loop' = [pc |-> "filtering", todo |-> loop.todo, conn |-> {c},
                   rest |-> Systems, picked |-> {}, seen |-> {filter[c]}]
      BY <2>1, <3>1 DEF LoopType
    <3>3. filter[c] \in Filters
      BY <2>3 DEF ClientType
    <3>4. LoopTyped'
      BY <2>1, <3>2, <3>3 DEF LoopTyped, LoopType
    <3>5. Visiting' /\ Bounded'
      BY <2>1, <3>2 DEF Visiting, Bounded
    <3>6. Picking'
      BY <2>1, <3>2 DEF Picking
    <3> QED  BY <3>4, <3>5, <3>6
  <2> QED  BY <2>2, <2>3
<1>3. Room'
  BY ClientsFinite DEF LoopVisit, ConnType, FlagType, Room, InFlight
<1> QED  BY <1>1, <1>2, <1>3

LEMMA LoopMatchIInv ==
  ASSUME IInv, NEW c \in Conns, NEW s \in Systems, LoopMatch(c, s)
  PROVE  IInv'
<1> USE DEF IInv, Typed, LoopMatch, conns, shared, history
<1>1. ConnType' /\ ClientType'
  BY DEF ConnType, ClientType
<1>2. FlagType'
  BY DEF FlagType
<1>3. LoopTyped'
  <2> DEFINE found == IF Matches(c, s) THEN {s} ELSE {}
  <2>1. loop' = [loop EXCEPT !.rest = @ \ {s}, !.picked = @ \cup found]
    BY Zenon
  <2>2. found \subseteq Systems
    OBVIOUS
  <2> HIDE DEF LoopMatch
  <2> QED  BY <2>1, <2>2 DEF LoopTyped, LoopType
<1>4. Visiting' /\ Bounded'
  BY DEF Visiting, Bounded
<1>5. Picking'
  BY DEF Picking, LoopTyped, LoopType, Matches, Shown
<1>6. Room'
  BY ClientsFinite DEF ConnType, FlagType, Room, InFlight
<1> QED  BY <1>1, <1>2, <1>3, <1>4, <1>5, <1>6

LEMMA LoopQueueIInv ==
  ASSUME IInv, NEW c \in Conns, LoopQueue(c)
  PROVE  IInv'
<1> USE DEF IInv, Typed, LoopQueue, conns, shared, history, Queued, Idle
<1>1. ConnType' /\ ClientType'
  BY DEF ConnType, ClientType
<1>2. LoopTyped' /\ FlagType'
  BY DEF LoopTyped, LoopType, FlagType
<1>3. Visiting' /\ Picking' /\ Bounded'
  BY DEF ConnType, ClientType, Visiting, Picking, Bounded
<1>4. Room'
  BY ClientsFinite DEF ConnType, FlagType, Room, InFlight
<1> QED  BY <1>1, <1>2, <1>3, <1>4

LEMMA LoopUnlockIInv ==
  ASSUME IInv, LoopUnlock
  PROVE  IInv'
<1> USE DEF IInv, Typed, LoopUnlock, conns, shared, history, Idle
<1>1. ConnType' /\ ClientType'
  BY DEF ConnType, ClientType
<1>2. LoopTyped' /\ FlagType'
  BY DEF LoopTyped, LoopType, FlagType
<1>3. Visiting' /\ Picking' /\ Bounded'
  BY DEF ConnType, ClientType, Visiting, Picking, Bounded
<1>4. Room'
  BY ClientsFinite DEF ConnType, FlagType, Room, InFlight
<1> QED  BY <1>1, <1>2, <1>3, <1>4

LEMMA LoopReturnIInv ==
  ASSUME IInv, LoopReturn
  PROVE  IInv'
<1> USE DEF IInv, Typed, LoopReturn, conns, shared, history
<1>1. ConnType' /\ ClientType'
  BY DEF ConnType, ClientType
<1>2. LoopTyped' /\ FlagType'
  BY DEF LoopTyped, LoopType, FlagType
<1>3. Visiting' /\ Picking' /\ Bounded'
  BY DEF ConnType, ClientType, Visiting, Picking, Bounded
<1>4. Room'
  BY ClientsFinite DEF ConnType, FlagType, Room, InFlight
<1> QED  BY <1>1, <1>2, <1>3, <1>4

LEMMA CancelContextIInv ==
  ASSUME IInv, CancelContext
  PROVE  IInv'
<1> USE DEF IInv, Typed, CancelContext, conns, shared, history
<1>1. ConnType' /\ ClientType'
  BY DEF ConnType, ClientType
<1>2. LoopTyped' /\ FlagType'
  BY DEF LoopTyped, LoopType, FlagType
<1>3. Visiting' /\ Picking' /\ Bounded'
  BY DEF ConnType, ClientType, Visiting, Picking, Bounded
<1>4. Room'
  BY ClientsFinite DEF ConnType, FlagType, Room, InFlight
<1> QED  BY <1>1, <1>2, <1>3, <1>4

LEMMA StopCancelIInv ==
  ASSUME IInv, StopCancel
  PROVE  IInv'
<1> USE DEF IInv, Typed, StopCancel, conns, shared, history
<1>1. ConnType' /\ ClientType'
  BY DEF ConnType, ClientType
<1>2. LoopTyped' /\ FlagType'
  BY DEF LoopTyped, LoopType, FlagType
<1>3. Visiting' /\ Picking' /\ Bounded'
  BY DEF ConnType, ClientType, Visiting, Picking, Bounded
<1>4. Room'
  BY ClientsFinite DEF ConnType, FlagType, Room, InFlight
<1> QED  BY <1>1, <1>2, <1>3, <1>4

LEMMA StopShutdownIInv ==
  ASSUME IInv, StopShutdown
  PROVE  IInv'
<1> USE DEF IInv, Typed, StopShutdown, conns, shared, history
<1>1. ConnType' /\ ClientType'
  BY DEF ConnType, ClientType
<1>2. LoopTyped' /\ FlagType'
  BY DEF LoopTyped, LoopType, FlagType
<1>3. Visiting' /\ Picking' /\ Bounded'
  BY DEF ConnType, ClientType, Visiting, Picking, Bounded
<1>4. Room'
  BY ClientsFinite DEF ConnType, FlagType, Room, InFlight
<1> QED  BY <1>1, <1>2, <1>3, <1>4

LEMMA StopReturnIInv ==
  ASSUME IInv, StopReturn
  PROVE  IInv'
<1> USE DEF IInv, Typed, StopReturn, conns, shared, history
<1>1. ConnType' /\ ClientType'
  BY DEF ConnType, ClientType
<1>2. LoopTyped' /\ FlagType'
  BY DEF LoopTyped, LoopType, FlagType
<1>3. Visiting' /\ Picking' /\ Bounded'
  BY DEF ConnType, ClientType, Visiting, Picking, Bounded
<1>4. Room'
  BY ClientsFinite DEF ConnType, FlagType, Room, InFlight
<1> QED  BY <1>1, <1>2, <1>3, <1>4
-----------------------------------------------------------------------------
LEMMA NextIInv == IInv /\ [Next]_vars => IInv'
<1> SUFFICES ASSUME IInv, [Next]_vars PROVE IInv'
  OBVIOUS
<1>1. ASSUME NEW c \in Conns, ClientStep(c) PROVE IInv'
  BY <1>1, AcceptFailsIInv, RegisterIInv, SpawnIInv, CleanupIInv, ReaderReturnIInv,
     WriteIInv, WriterReturnIInv DEF ClientStep
<1>2. ASSUME LoopStep PROVE IInv'
  BY <1>2, LoopTickIInv, LoopUnlockIInv, LoopReturnIInv, LoopVisitIInv, LoopQueueIInv,
     LoopMatchIInv DEF LoopStep
<1>3. ASSUME StopStep PROVE IInv'
  BY <1>3, StopCancelIInv, StopShutdownIInv, StopReturnIInv DEF StopStep
<1>4. ASSUME NEW c \in Conns,
             Check(c) \/ PeerLeave(c) \/ \E f \in Filters : ReadSubscribe(c, f)
      PROVE  IInv'
  BY <1>4, CheckIInv, PeerLeaveIInv, ReadSubscribeIInv
<1>5. CASE UNCHANGED vars
  BY <1>5
     DEF vars, conns, shared, history, IInv, Typed, ConnType, ClientType, LoopTyped,
     FlagType, Visiting, Picking, Room, InFlight, Bounded
<1> QED
  BY <1>1, <1>2, <1>3, <1>4, <1>5, LoopEventIInv, CancelContextIInv DEF Next, GoStep

LEMMA Invariance == Spec => []IInv
<1> HIDE DEF IInv
<1> QED  BY InitIInv, NextIInv, PTL DEF Spec
-----------------------------------------------------------------------------
(* The variables have their types; in particular no messages channel ever  *)
(* holds more than its capacity (websocket.go:259-268, 301).               *)
THEOREM TypeCorrect == Spec => []TypeOK
<1>1. IInv => TypeOK
  BY TypedIsTypeOK DEF IInv
<1> QED  BY <1>1, Invariance, PTL

(* The limit on clients holds as long as no two handshakes overlap between *)
(* the check and the registration (websocket.go:277-306).                  *)
THEOREM LimitKept == Spec => []LimitUnlessRaced
<1>1. IInv => LimitUnlessRaced
  BY DEF IInv, Room, LimitUnlessRaced
<1> QED  BY <1>1, Invariance, PTL

(* Only the two steps that end a visit put a message into a queue.         *)
LEMMA QueuedInVisit ==
  ASSUME IInv, [Next]_vars, NEW c \in Conns, messages'[c] > messages[c]
  PROVE  LoopVisit(c) \/ LoopQueue(c)
<1> USE DEF IInv, Typed, ClientType, conns, shared, history
<1>1. ~UNCHANGED messages
  BY DEF ClientType
<1>2. ~UNCHANGED vars
  BY <1>1 DEF vars
<1>3. ASSUME NEW d \in Conns PROVE ~Write(d) /\ ~WriterReturn(d)
  BY DEF Write, WriterReturn
<1>4. ASSUME NEW d \in Conns PROVE ~ClientStep(d)
  BY <1>1, <1>3, Zenon
     DEF ClientStep, AcceptFails, Register, Spawn, Cleanup, ReaderReturn
<1>5. ASSUME NEW d \in Conns
      PROVE  ~Check(d) /\ ~PeerLeave(d) /\ ~\E f \in Filters : ReadSubscribe(d, f)
  BY <1>1 DEF Check, PeerLeave, ReadSubscribe
<1>6. ~LoopEvent /\ ~CancelContext /\ ~StopStep
  BY <1>1 DEF LoopEvent, CancelContext, StopStep, StopCancel, StopShutdown, StopReturn
<1>7. LoopStep
  BY <1>2, <1>4, <1>5, <1>6 DEF Next, GoStep
<1>8. PICK d \in Conns : LoopVisit(d) \/ LoopQueue(d)
  BY <1>1, <1>7 DEF LoopStep, LoopTick, LoopUnlock, LoopReturn, LoopMatch
<1>9. d = c
  BY <1>1, <1>8 DEF LoopVisit, LoopQueue, Queued
<1> QED  BY <1>8, <1>9

(* Nothing is queued for a client once it has left the map: the read lock  *)
(* keeps the map as it was when the broadcast took its clients             *)
(* (websocket.go:240-272, 325-327).                                        *)
THEOREM ClientsOnly == Spec => OnlyClientsGetMessages
<1>1. ASSUME IInv, [Next]_vars, NEW c \in Conns, messages'[c] > messages[c]
      PROVE  c \in clients
  <2>1. LoopVisit(c) \/ LoopQueue(c)
    BY <1>1, QueuedInVisit
  <2>2. loop.todo \subseteq clients
    BY <1>1, <2>1 DEF LoopVisit, LoopQueue, IInv, Visiting
  <2>3. c \in loop.todo
    BY <1>1, <2>1 DEF LoopVisit, LoopQueue, IInv, Visiting
  <2> QED  BY <2>2, <2>3
<1>2. IInv /\ [Next]_vars
        => [\A c \in Conns : messages'[c] > messages[c] => c \in clients]_vars
  BY <1>1
<1> QED  BY <1>2, Invariance, PTL DEF Spec, OnlyClientsGetMessages

(* A message shows what the filters of its client asked for while it was   *)
(* put together, whenever a subscription came in between                   *)
(* (websocket.go:245-250).                                                 *)
THEOREM FiltersFollowed == Spec => MessagesFollowFilters
<1> DEFINE seen(c) == IF loop.pc = "filtering" THEN loop.seen ELSE {filter[c]}
           Follows(c) == /\ loop'.picked \subseteq UNION {Shown(f) : f \in seen(c)}
                         /\ \A s \in Systems :
                              (\A f \in seen(c) : s \in Shown(f)) => s \in loop'.picked
<1>1. ASSUME IInv, [Next]_vars, NEW c \in Conns, messages'[c] > messages[c]
      PROVE  Follows(c)
  <2>1. CASE LoopVisit(c)
    <3>1. messages' # messages
      BY <1>1 DEF IInv, Typed, ClientType
    <3>2. filter[c] = {} /\ Queued(c, Systems)
      BY <2>1, <3>1, Zenon DEF LoopVisit
    <3>3. loop'.picked = Systems
      BY <3>2 DEF Queued, Idle
    <3>4. seen(c) = {filter[c]}
      BY <2>1 DEF LoopVisit
    <3> QED  BY <3>2, <3>3, <3>4 DEF Shown
  <2>2. CASE LoopQueue(c)
    <3>1. loop'.picked = loop.picked /\ seen(c) = loop.seen
      BY <2>2 DEF LoopQueue, Queued, Idle
    <3>2. loop.rest = {} /\ c \in loop.conn
      BY <2>2 DEF LoopQueue
    <3> QED  BY <1>1, <3>1, <3>2 DEF IInv, Picking
  <2> QED  BY <1>1, <2>1, <2>2, QueuedInVisit
<1>2. IInv /\ [Next]_vars
        => [\A c \in Conns : messages'[c] > messages[c] => Follows(c)]_vars
  BY <1>1
<1> QED  BY <1>2, Invariance, PTL DEF Spec, MessagesFollowFilters
=============================================================================
