----------------------------- MODULE IngestProofs -----------------------------
(***************************************************************************)
(* Theorems about UDP ingestion, for any number of workers, every          *)
(* whitelist, every mix of packets and every capacity of the queue, the    *)
(* telemetry channel and the pool.                                         *)
(*                                                                         *)
(* A buffer the pool made is in the pool, or at the receiver, or in the    *)
(* queue, or at a worker: always at one of them (NoneLost) and never at    *)
(* two (NoneShared).  So nobody writes to a buffer that holds a packet     *)
(* somebody else still needs, and the packets on their way are distinct,   *)
(* not delivered yet, and admitted by the checks they have passed          *)
(* (Holding).                                                              *)
(***************************************************************************)
EXTENDS Ingest, FiniteSetTheorems, TLAPS

ControlType ==
  /\ ctxDone \in BOOLEAN /\ connOpen \in BOOLEAN /\ chanClosed \in BOOLEAN
  /\ start \in {"binding", "failed", "running", "closing", "waitReceiver",
                "waitWorkers", "stopped"}
  /\ crashed \in BOOLEAN

RxType ==
  rx \in [pc : {"none", "loop", "reading", "read", "returned"},
          buf : Buffers \cup {None}]

WorkerType ==
  worker \in [Workers -> [pc : {"none", "select", "decode", "send", "returned"},
                          buf : Buffers \cup {None}]]

QueueType == queue \in Seq(Buffers) /\ Len(queue) <= QueueCap

SinkType ==
  /\ output \in Seq(1 .. MaxPackets) /\ Len(output) <= OutputCap
  /\ delivered \subseteq 1 .. MaxPackets

MemoryType ==
  /\ made \in 0 .. MaxBuffers
  /\ pooled \in [Buffers -> Nat]
  /\ content \in [Buffers -> 0 .. MaxPackets]

ClassType == class \in Seq(Classes) /\ Arrived <= MaxPackets

CountType ==
  count \in [received : Nat, dropped : Nat, errors : Nat, limited : Nat,
             processed : Nat, sent : Nat, outputDrops : Nat]

Typed ==
  /\ ControlType /\ RxType /\ WorkerType /\ QueueType /\ SinkType /\ MemoryType
  /\ ClassType /\ CountType

(* Who holds a buffer, by the place it is at. *)
Placed ==
  /\ start \in {"binding", "failed"} =>
       /\ rx = [pc |-> "none", buf |-> None]
       /\ worker = [w \in Workers |-> [pc |-> "none", buf |-> None]]
  /\ rx.buf # None <=> rx.pc \in {"reading", "read"}
  /\ \A w \in Workers : worker[w].buf # None <=> worker[w].pc \in {"decode", "send"}

Queued == {queue[i] : i \in DOMAIN queue}
AtWorkers == {worker[w].buf : w \in Workers} \ {None}

(* Every buffer the pool made is somewhere... *)
NoneLost ==
  \A b \in 1 .. made : pooled[b] = 1 \/ rx.buf = b \/ b \in Queued \cup AtWorkers

(* ... and nowhere else. *)
Once == \A i, j \in DOMAIN queue : queue[i] = queue[j] => i = j

Apart ==
  \A v, w \in Workers : worker[v].buf = worker[w].buf => v = w \/ worker[v].buf = None

NoneShared ==
  /\ \A b \in Buffers : pooled[b] \in {0, 1}
  /\ \A b \in Buffers : b > made =>
       pooled[b] = 0 /\ rx.buf # b /\ b \notin Queued \cup AtWorkers
  /\ \A b \in Buffers : pooled[b] = 1 => rx.buf # b /\ b \notin Queued \cup AtWorkers
  /\ rx.buf \notin Queued \cup AtWorkers
  /\ Queued \cap AtWorkers = {}

(* The buffers that hold a packet nobody is done with. *)
Live == Queued \cup AtWorkers \cup (IF rx.pc = "read" THEN {rx.buf} ELSE {})

Holding ==
  /\ \A b \in Live : content[b] \in 1 .. Arrived /\ content[b] \notin delivered
  /\ \A b, c \in Live : content[b] = content[c] => b = c
  /\ \A b \in Queued \cup AtWorkers : ~Denied(b)
  /\ \A w \in Workers :
       worker[w].pc = "send" => ClassOf(worker[w].buf).kind # "malformed"

IInv ==
  /\ Typed /\ Placed /\ NoneLost /\ Once /\ Apart /\ NoneShared /\ Holding
  /\ PacketsAccounted /\ EventsAreOwn
-----------------------------------------------------------------------------
USE IngestAssumption DEF Buffers, None

LEMMA TypedIsTypeOK == Typed => TypeOK
BY DEF Typed, ControlType, RxType, WorkerType, QueueType, SinkType, MemoryType, ClassType,
   TypeOK

(* Two sets of workers that differ at most in w. *)
LEMMA Recount ==
  ASSUME NEW w \in Workers, NEW A \in SUBSET Workers, NEW B \in SUBSET Workers,
         A \ {w} = B \ {w}
  PROVE  /\ Cardinality(A) \in Nat /\ Cardinality(B) \in Nat
         /\ Cardinality(B) = Cardinality(A) - Cnt(w \in A) + Cnt(w \in B)
<1>1. IsFiniteSet(A) /\ IsFiniteSet(B)
  BY FS_Subset
<1>2. Cardinality(A) \in Nat /\ Cardinality(B) \in Nat
  BY <1>1, FS_CardinalityType
<1>3. CASE w \in A /\ w \notin B
  <2>1. B = A \ {w}
    BY <1>3
  <2>2. Cardinality(B) = Cardinality(A) - 1
    BY <1>1, <1>3, <2>1, FS_RemoveElement
  <2> QED  BY <1>2, <1>3, <2>2 DEF Cnt
<1>4. CASE w \notin A /\ w \in B
  <2>1. B = A \cup {w}
    BY <1>4
  <2>2. Cardinality(B) = Cardinality(A) + 1
    BY <1>1, <1>4, <2>1, FS_AddElement
  <2> QED  BY <1>2, <1>4, <2>2 DEF Cnt
<1>5. CASE w \in A <=> w \in B
  <2>1. A = B
    BY <1>5
  <2> QED  BY <1>2, <2>1 DEF Cnt
<1> QED  BY <1>3, <1>4, <1>5

(* How a worker's step changes the number of workers at a place. *)
LEMMA PlacesMove ==
  ASSUME WorkerType, NEW w \in Workers, NEW p, NEW b,
         worker' = [worker EXCEPT ![w] = [pc |-> p, buf |-> b]]
  PROVE  /\ InPlace("decode") \in Nat /\ InPlace("decode")' \in Nat
         /\ InPlace("send") \in Nat /\ InPlace("send")' \in Nat
         /\ InPlace("decode")' = InPlace("decode") - Cnt(worker[w].pc = "decode")
                                   + Cnt(p = "decode")
         /\ InPlace("send")' = InPlace("send") - Cnt(worker[w].pc = "send")
                                 + Cnt(p = "send")
<1>1. worker'[w].pc = p /\ \A v \in Workers \ {w} : worker'[v] = worker[v]
  BY DEF WorkerType
<1>2. /\ InPlace("decode") \in Nat /\ InPlace("decode")' \in Nat
      /\ InPlace("decode")' = InPlace("decode") - Cnt(worker[w].pc = "decode")
                                + Cnt(p = "decode")
  <2> DEFINE A == {v \in Workers : worker[v].pc = "decode"}
             B == {v \in Workers : worker'[v].pc = "decode"}
  <2>1. InPlace("decode") = Cardinality(A) /\ InPlace("decode")' = Cardinality(B)
    BY DEF InPlace
  <2>2. A \ {w} = B \ {w}
    BY <1>1
  <2>3. (w \in A <=> worker[w].pc = "decode") /\ (w \in B <=> p = "decode")
    BY <1>1
  <2>4. A \in SUBSET Workers /\ B \in SUBSET Workers
    OBVIOUS
  <2> HIDE DEF A, B
  <2>5. /\ Cardinality(A) \in Nat /\ Cardinality(B) \in Nat
        /\ Cardinality(B) = Cardinality(A) - Cnt(w \in A) + Cnt(w \in B)
    BY <2>2, <2>4, Recount
  <2> QED  BY <2>1, <2>3, <2>5 DEF Cnt
<1>3. /\ InPlace("send") \in Nat /\ InPlace("send")' \in Nat
      /\ InPlace("send")' = InPlace("send") - Cnt(worker[w].pc = "send")
                              + Cnt(p = "send")
  <2> DEFINE A == {v \in Workers : worker[v].pc = "send"}
             B == {v \in Workers : worker'[v].pc = "send"}
  <2>1. InPlace("send") = Cardinality(A) /\ InPlace("send")' = Cardinality(B)
    BY DEF InPlace
  <2>2. A \ {w} = B \ {w}
    BY <1>1
  <2>3. (w \in A <=> worker[w].pc = "send") /\ (w \in B <=> p = "send")
    BY <1>1
  <2>4. A \in SUBSET Workers /\ B \in SUBSET Workers
    OBVIOUS
  <2> HIDE DEF A, B
  <2>5. /\ Cardinality(A) \in Nat /\ Cardinality(B) \in Nat
        /\ Cardinality(B) = Cardinality(A) - Cnt(w \in A) + Cnt(w \in B)
    BY <2>2, <2>4, Recount
  <2> QED  BY <2>1, <2>3, <2>5 DEF Cnt
<1> QED  BY <1>2, <1>3

(* A worker takes a buffer nobody has, or gives up its own. *)
LEMMA WorkerMoves ==
  ASSUME WorkerType, Apart, NEW w \in Workers, NEW p, NEW b,
         b = None \/ b \notin AtWorkers,
         worker' = [worker EXCEPT ![w] = [pc |-> p, buf |-> b]]
  PROVE  /\ Apart'
         /\ AtWorkers' = (AtWorkers \ {worker[w].buf}) \cup ({b} \ {None})
<1>1. /\ worker'[w].buf = b
      /\ \A v \in Workers \ {w} : worker'[v].buf = worker[v].buf
  BY DEF WorkerType
<1>2. \A v \in Workers : worker[v].buf = None \/ worker[v].buf \in AtWorkers
  BY DEF AtWorkers
<1>3. Apart'
  BY <1>1, <1>2 DEF Apart
<1>4. ASSUME NEW c \in AtWorkers'
      PROVE  c \in (AtWorkers \ {worker[w].buf}) \cup ({b} \ {None})
  <2>1. c # None
    BY DEF AtWorkers
  <2>2. PICK v \in Workers : c = worker'[v].buf
    BY DEF AtWorkers
  <2>3. CASE v = w
    BY <1>1, <2>1, <2>2, <2>3
  <2>4. CASE v # w
    <3>1. c = worker[v].buf
      BY <1>1, <2>2, <2>4
    <3> QED  BY <1>2, <2>1, <2>4, <3>1 DEF Apart
  <2> QED  BY <2>3, <2>4
<1>5. ASSUME NEW c \in (AtWorkers \ {worker[w].buf}) \cup ({b} \ {None})
      PROVE  c \in AtWorkers'
  <2>1. CASE c = b /\ b # None
    BY <1>1, <2>1 DEF AtWorkers
  <2>2. CASE c \in AtWorkers /\ c # worker[w].buf
    <3>1. PICK v \in Workers : c = worker[v].buf /\ c # None
      BY <2>2 DEF AtWorkers
    <3>2. c = worker'[v].buf
      BY <1>1, <2>2, <3>1
    <3> QED  BY <3>1, <3>2 DEF AtWorkers
  <2> QED  BY <1>5, <2>1, <2>2
<1> QED  BY <1>3, <1>4, <1>5

LEMMA WorkerStays ==
  ASSUME WorkerType, Apart, NEW w \in Workers, NEW p,
         worker' = [worker EXCEPT ![w] = [pc |-> p, buf |-> worker[w].buf]]
  PROVE  Apart' /\ AtWorkers' = AtWorkers
<1>1. \A v \in Workers : worker'[v].buf = worker[v].buf
  BY DEF WorkerType
<1> QED  BY <1>1 DEF Apart, AtWorkers

(* A buffer that is not in the queue goes to its end. *)
LEMMA QueueGrows ==
  ASSUME QueueType, Once, NEW b \in Buffers, b \notin Queued,
         Len(queue) < QueueCap, queue' = Append(queue, b)
  PROVE  /\ QueueType' /\ Once' /\ Queued' = Queued \cup {b}
         /\ Len(queue') = Len(queue) + 1 /\ Len(queue) \in Nat
<1> DEFINE n == Len(queue)
<1>1. n \in Nat /\ DOMAIN queue = 1 .. n
  BY DEF QueueType
<1>2. /\ queue' \in Seq(Buffers) /\ Len(queue') = n + 1
      /\ DOMAIN queue' = 1 .. (n + 1)
      /\ \A i \in 1 .. n : queue'[i] = queue[i]
      /\ queue'[n + 1] = b
  BY <1>1 DEF QueueType
<1>3. QueueType'
  BY <1>1, <1>2 DEF QueueType
<1>4. \A i \in 1 .. n : queue[i] # b
  BY <1>1 DEF Queued
<1>5. Once'
  BY <1>1, <1>2, <1>4 DEF Once
<1>6. ASSUME NEW c \in Queued' PROVE c \in Queued \cup {b}
  BY <1>1, <1>2 DEF Queued
<1>7. ASSUME NEW c \in Queued \cup {b} PROVE c \in Queued'
  <2>1. CASE c = b
    <3>1. n + 1 \in DOMAIN queue'
      BY <1>1, <1>2
    <3> QED  BY <1>2, <2>1, <3>1 DEF Queued
  <2>2. CASE c \in Queued
    BY <1>1, <1>2, <2>2 DEF Queued
  <2> QED  BY <1>7, <2>1, <2>2
<1> QED  BY <1>1, <1>2, <1>3, <1>5, <1>6, <1>7

(* Its first buffer leaves the queue. *)
LEMMA QueueShrinks ==
  ASSUME QueueType, Once, queue # <<>>, queue' = Tail(queue)
  PROVE  /\ QueueType' /\ Once' /\ Queued' = Queued \ {Head(queue)}
         /\ Head(queue) \in Queued /\ Head(queue) \in Buffers
         /\ Len(queue') = Len(queue) - 1 /\ Len(queue) \in Nat
<1> DEFINE n == Len(queue)
<1>1. n \in Nat \ {0} /\ DOMAIN queue = 1 .. n /\ Head(queue) = queue[1]
      /\ n <= QueueCap
  BY DEF QueueType
<1>2. /\ queue' \in Seq(Buffers) /\ Len(queue') = n - 1
      /\ DOMAIN queue' = 1 .. (n - 1)
      /\ \A i \in 1 .. (n - 1) : queue'[i] = queue[i + 1]
  BY <1>1 DEF QueueType
<1>3. QueueType'
  BY <1>1, <1>2 DEF QueueType
<1>4. \A i, j \in 1 .. n : queue[i] = queue[j] => i = j
  BY <1>1 DEF Once
<1>5. Once'
  <2> SUFFICES ASSUME NEW i \in 1 .. (n - 1), NEW j \in 1 .. (n - 1),
                      queue'[i] = queue'[j]
               PROVE  i = j
    BY <1>2 DEF Once
  <2>1. i + 1 \in 1 .. n /\ j + 1 \in 1 .. n
    BY <1>1
  <2>2. queue[i + 1] = queue[j + 1]
    BY <1>2
  <2>3. i + 1 = j + 1
    BY <1>4, <2>1, <2>2
  <2> QED  BY <2>3
<1>6. Head(queue) \in Queued /\ Head(queue) \in Buffers
  BY <1>1 DEF Queued, QueueType
<1>7. ASSUME NEW c \in Queued' PROVE c \in Queued /\ c # Head(queue)
  <2>1. PICK i \in 1 .. (n - 1) : c = queue'[i]
    BY <1>2 DEF Queued
  <2>2. c = queue[i + 1] /\ i + 1 \in 1 .. n /\ i + 1 # 1 /\ 1 \in 1 .. n
    BY <1>1, <1>2, <2>1
  <2> QED  BY <1>1, <1>4, <2>2 DEF Queued
<1>8. ASSUME NEW c \in Queued, c # Head(queue) PROVE c \in Queued'
  <2>1. PICK i \in 1 .. n : c = queue[i]
    BY <1>1 DEF Queued
  <2>2. i - 1 \in 1 .. (n - 1) /\ queue'[i - 1] = queue[i]
    BY <1>1, <1>2, <1>8, <2>1
  <2> QED  BY <1>2, <2>1, <2>2 DEF Queued
<1> QED  BY <1>1, <1>2, <1>3, <1>5, <1>6, <1>7, <1>8

LEMMA WorkersCounted ==
  ASSUME WorkerType, NEW pc
  PROVE  InPlace(pc) \in Nat
<1>1. IsFiniteSet({w \in Workers : worker[w].pc = pc})
  BY FS_Subset
<1> QED  BY <1>1, FS_CardinalityType DEF InPlace

LEMMA Counting ==
  ASSUME CountType,
         NEW field \in {"received", "dropped", "errors", "limited", "processed", "sent",
                        "outputDrops"},
         Counted(field)
  PROVE  /\ CountType'
         /\ count'.received = count.received + Cnt(field = "received")
         /\ count'.dropped = count.dropped + Cnt(field = "dropped")
         /\ count'.errors = count.errors + Cnt(field = "errors")
         /\ count'.limited = count.limited + Cnt(field = "limited")
         /\ count'.processed = count.processed + Cnt(field = "processed")
         /\ count'.sent = count.sent + Cnt(field = "sent")
         /\ count'.outputDrops = count.outputDrops + Cnt(field = "outputDrops")
BY DEF CountType, Counted, Cnt

LEMMA InitIInv == Init => IInv
<1> SUFFICES ASSUME Init PROVE IInv
  OBVIOUS
<1> USE DEF Init
<1>1. ControlType /\ RxType /\ QueueType /\ SinkType /\ MemoryType /\ CountType
  <2>1. ControlType /\ RxType
    BY DEF ControlType, RxType
  <2>2. QueueType /\ SinkType
    BY DEF QueueType, SinkType
  <2>3. MemoryType
    BY DEF MemoryType
  <2>4. CountType
    BY DEF CountType
  <2> QED  BY <2>1, <2>2, <2>3, <2>4
<1>2. WorkerType
  BY DEF WorkerType
<1>3. ClassType
  BY DEF ClassType, Arrived
<1>4. Queued = {} /\ AtWorkers = {}
  <2>1. DOMAIN queue = {}
    OBVIOUS
  <2> QED  BY <2>1 DEF Queued, AtWorkers
<1>5. Placed
  BY DEF Placed
<1>6. Once /\ Apart
  BY DEF Once, Apart
<1>7. NoneLost /\ NoneShared
  BY <1>4 DEF NoneLost, NoneShared
<1>8. Holding
  BY <1>4 DEF Holding, Live
<1>9. PacketsAccounted
  <2>1. InPlace("decode") = 0 /\ InPlace("send") = 0
    <3>1. /\ {w \in Workers : worker[w].pc = "decode"} = {}
          /\ {w \in Workers : worker[w].pc = "send"} = {}
      OBVIOUS
    <3> QED  BY <3>1, FS_EmptySet DEF InPlace
  <2>2. Len(queue) = 0 /\ Cnt(rx.pc = "read") = 0
    BY DEF Cnt
  <2> QED  BY <2>1, <2>2 DEF PacketsAccounted
<1>10. EventsAreOwn
  BY FS_EmptySet DEF EventsAreOwn
<1> HIDE DEF Init
<1> QED  BY <1>1, <1>2, <1>3, <1>5, <1>6, <1>7, <1>8, <1>9, <1>10 DEF IInv, Typed
-----------------------------------------------------------------------------
(* The steps that move no buffer and no packet. *)
LEMMA Quiet ==
  ASSUME IInv, ControlType', Placed',
         UNCHANGED <<rx, worker, queue, delivered, made, pooled, content, class, count>>,
         SinkType'
  PROVE  IInv'
<1> USE DEF IInv, Typed
<1>1. /\ RxType' /\ WorkerType' /\ QueueType' /\ MemoryType' /\ CountType'
      /\ ClassType'
  BY DEF RxType, WorkerType, QueueType, MemoryType, CountType, ClassType, Arrived
<1>2. Once' /\ Apart' /\ Queued' = Queued /\ AtWorkers' = AtWorkers
  BY DEF Once, Apart, Queued, AtWorkers
<1>3. NoneLost' /\ NoneShared'
  BY <1>2 DEF NoneLost, NoneShared
<1>4. Holding'
  BY <1>2 DEF Holding, Live, Denied, ClassOf, isAllowed, Arrived
<1>5. PacketsAccounted'
  BY DEF PacketsAccounted, InPlace
<1>6. EventsAreOwn'
  BY DEF EventsAreOwn, isAllowed, Arrived
<1> QED  BY <1>1, <1>2, <1>3, <1>4, <1>5, <1>6

LEMMA StartIInv ==
  ASSUME IInv,
         \/ StartFails \/ StartCloseConn \/ StartCloseChan \/ StartWaitReceiver
         \/ StartWaitWorkers \/ CancelContext \/ RxSendOnClosed \/ TakeEvent
  PROVE  IInv'
<1> USE DEF IInv, Typed, StartFails, StartCloseConn, StartCloseChan, StartWaitReceiver,
       StartWaitWorkers, CancelContext, RxSendOnClosed, TakeEvent, flags, sink, memory
<1>1. UNCHANGED <<rx, worker, queue, delivered, made, pooled, content, class, count>>
  OBVIOUS
<1>2. ControlType'
  BY DEF ControlType
<1>3. Placed'
  BY DEF Placed
<1>4. SinkType'
  <2>1. CASE TakeEvent
    <3>1. output # <<>> /\ output' = Tail(output)
      BY <2>1
    <3>2. output' \in Seq(1 .. MaxPackets) /\ Len(output') <= Len(output)
      BY <3>1 DEF SinkType
    <3> QED  BY <1>1, <3>2 DEF SinkType
  <2>2. CASE ~TakeEvent
    <3>1. UNCHANGED output
      BY <2>2
    <3> QED  BY <1>1, <3>1 DEF SinkType
  <2> QED  BY <2>1, <2>2
<1> HIDE DEF StartFails, StartCloseConn, StartCloseChan, StartWaitReceiver,
       StartWaitWorkers, CancelContext, RxSendOnClosed, TakeEvent
<1> QED  BY <1>1, <1>2, <1>3, <1>4, Quiet

(* The goroutines begin with no buffer, as they were before. *)
LEMMA StartListensIInv ==
  ASSUME IInv, StartListens
  PROVE  IInv'
<1> USE DEF IInv, Typed, sink, memory
<1>1. /\ start = "binding" /\ start' = "running"
      /\ UNCHANGED <<ctxDone, chanClosed, queue, output, delivered, made, pooled, content,
                     class, count, crashed>>
  BY DEF StartListens
<1>2. /\ rx = [pc |-> "none", buf |-> None] /\ rx' = [pc |-> "loop", buf |-> None]
      /\ worker = [w \in Workers |-> [pc |-> "none", buf |-> None]]
      /\ worker' = [w \in Workers |-> [pc |-> "select", buf |-> None]]
  BY <1>1 DEF StartListens, Placed
<1>3. ControlType'
  BY DEF StartListens, ControlType
<1>4. RxType' /\ WorkerType'
  BY <1>2 DEF RxType, WorkerType
<1>5. QueueType' /\ SinkType' /\ MemoryType' /\ ClassType' /\ CountType'
  BY <1>1 DEF QueueType, SinkType, MemoryType, ClassType, CountType, Arrived
<1>6. Placed'
  BY <1>1, <1>2 DEF Placed
<1>7. Once' /\ Apart' /\ Queued' = Queued /\ AtWorkers' = AtWorkers
  BY <1>1, <1>2 DEF Once, Apart, Queued, AtWorkers
<1>8. NoneLost' /\ NoneShared'
  BY <1>1, <1>2, <1>7 DEF NoneLost, NoneShared
<1>9. Holding'
  BY <1>1, <1>2, <1>7 DEF Holding, Live, Denied, ClassOf, isAllowed, Arrived
<1>10. PacketsAccounted'
  <2>1. \A pc \in {"decode", "send"} : InPlace(pc)' = InPlace(pc)
    <3>1. ASSUME NEW pc \in {"decode", "send"}
          PROVE  {w \in Workers : worker'[w].pc = pc} = {w \in Workers : worker[w].pc = pc}
      BY <1>2
    <3> QED  BY <3>1 DEF InPlace
  <2> QED  BY <1>1, <1>2, <2>1 DEF PacketsAccounted, Cnt
<1>11. EventsAreOwn'
  BY <1>1 DEF EventsAreOwn, isAllowed, Arrived
<1> QED  BY <1>3, <1>4, <1>5, <1>6, <1>7, <1>8, <1>9, <1>10, <1>11
-----------------------------------------------------------------------------
LEMMA RxReturnIInv ==
  ASSUME IInv, RxReturn
  PROVE  IInv'
<1> USE DEF IInv, Typed, flags, sink, memory
<1>1. /\ rx.pc = "loop" /\ rx'.pc = "returned" /\ rx'.buf = rx.buf /\ RxType'
      /\ UNCHANGED <<ctxDone, connOpen, chanClosed, start, worker, queue, output, delivered,
                     made, pooled, content, class, count, crashed>>
  BY DEF RxReturn, RxType
<1>2. /\ ControlType' /\ WorkerType' /\ QueueType' /\ SinkType' /\ MemoryType'
      /\ ClassType' /\ CountType'
  BY <1>1 DEF ControlType, WorkerType, QueueType, SinkType, MemoryType, ClassType,
     CountType, Arrived
<1>3. Placed'
  BY <1>1 DEF Placed
<1>4. Once' /\ Apart' /\ Queued' = Queued /\ AtWorkers' = AtWorkers
  BY <1>1 DEF Once, Apart, Queued, AtWorkers
<1>5. NoneLost' /\ NoneShared'
  BY <1>1, <1>4 DEF NoneLost, NoneShared
<1>6. Holding'
  BY <1>1, <1>4 DEF Holding, Live, Denied, ClassOf, isAllowed, Arrived
<1>7. PacketsAccounted'
  BY <1>1 DEF PacketsAccounted, InPlace, Cnt
<1>8. EventsAreOwn'
  BY <1>1 DEF EventsAreOwn, isAllowed, Arrived
<1> QED  BY <1>1, <1>2, <1>3, <1>4, <1>5, <1>6, <1>7, <1>8

LEMMA RxGetIInv ==
  ASSUME IInv, NEW b \in Buffers, RxGet(b)
  PROVE  IInv'
<1> USE DEF IInv, Typed, flags, sink, memory
<1>1. /\ rx.pc = "loop" /\ rx' = [pc |-> "reading", buf |-> b]
      /\ content' = [content EXCEPT ![b] = None]
      /\ UNCHANGED <<ctxDone, connOpen, chanClosed, start, worker, queue, output, delivered,
                     class, count, crashed>>
  BY DEF RxGet
<1>2. \/ pooled[b] = 1 /\ pooled' = [pooled EXCEPT ![b] = 0] /\ made' = made
      \/ b = made + 1 /\ made' = b /\ pooled' = pooled
  <2>1. pooled[b] > 0 => pooled[b] = 1
    BY DEF NoneShared
  <2>2. 1 - 1 = 0
    OBVIOUS
  <2> QED  BY <2>1, <2>2 DEF RxGet
<1>3. made \in 0 .. MaxBuffers /\ b \in 1 .. MaxBuffers /\ rx.buf = None
  BY <1>1 DEF MemoryType, Placed
<1>4. b \notin Queued \cup AtWorkers
  BY <1>2, <1>3 DEF NoneShared
<1>5. RxType' /\ MemoryType'
  <2>1. RxType'
    BY <1>1 DEF RxType
  <2>2. made' \in 0 .. MaxBuffers
    BY <1>2, <1>3
  <2>3. pooled' \in [Buffers -> Nat]
    BY <1>2 DEF MemoryType
  <2>4. content' \in [Buffers -> 0 .. MaxPackets]
    BY <1>1 DEF MemoryType
  <2> QED  BY <2>1, <2>2, <2>3, <2>4 DEF MemoryType
<1>6. /\ ControlType' /\ WorkerType' /\ QueueType' /\ SinkType' /\ ClassType' /\ CountType'
  BY <1>1
     DEF ControlType, WorkerType, QueueType, SinkType, ClassType, CountType, Arrived
<1>7. Placed'
  BY <1>1, <1>3 DEF Placed
<1>8. Once' /\ Apart' /\ Queued' = Queued /\ AtWorkers' = AtWorkers
  BY <1>1 DEF Once, Apart, Queued, AtWorkers
<1>9. NoneLost'
  BY <1>1, <1>2, <1>3, <1>8 DEF NoneLost, MemoryType
<1>10. NoneShared'
  <2>1. CASE pooled[b] = 1 /\ pooled' = [pooled EXCEPT ![b] = 0] /\ made' = made
    BY <1>1, <1>3, <1>4, <1>8, <2>1 DEF NoneShared, MemoryType
  <2>2. CASE b = made + 1 /\ made' = b /\ pooled' = pooled
    BY <1>1, <1>3, <1>4, <1>8, <2>2 DEF NoneShared, MemoryType
  <2> QED  BY <1>2, <2>1, <2>2
<1>11. Holding'
  <2>1. Live' = Queued \cup AtWorkers /\ Live' \subseteq Live
    BY <1>1, <1>8 DEF Live
  <2>2. \A c \in Live' : content'[c] = content[c]
    BY <1>1, <1>4, <2>1 DEF MemoryType
  <2>3. \A w \in Workers : worker[w].pc = "send" => worker[w].buf \in Live'
    BY <2>1 DEF Placed, AtWorkers
  <2> QED  BY <1>1, <1>8, <2>1, <2>2, <2>3
              DEF Holding, Denied, ClassOf, isAllowed, Arrived
<1>12. PacketsAccounted'
  BY <1>1 DEF PacketsAccounted, InPlace, Cnt
<1>13. EventsAreOwn'
  BY <1>1 DEF EventsAreOwn, isAllowed, Arrived
<1> QED  BY <1>5, <1>6, <1>7, <1>8, <1>9, <1>10, <1>11, <1>12, <1>13

(* The receiver gives up its buffer and does not come back with one. *)
LEMMA RxPuts ==
  ASSUME IInv, rx.pc \in {"reading", "read"}, Put(rx.buf),
         rx'.buf = None, rx'.pc \in {"loop", "returned"},
         UNCHANGED <<start, worker, queue, made, content, class, delivered>>
  PROVE  /\ MemoryType' /\ Placed' /\ Once' /\ Apart' /\ NoneLost' /\ NoneShared'
         /\ Holding' /\ WorkerType' /\ QueueType' /\ ClassType'
<1> USE DEF IInv, Typed
<1> DEFINE b == rx.buf
<1>1. b \in Buffers /\ b # None /\ b <= made
  BY DEF RxType, Placed, NoneShared, MemoryType
<1>2. pooled[b] = 0 /\ b \notin Queued \cup AtWorkers
  BY <1>1 DEF NoneShared
<1>3. pooled' = [pooled EXCEPT ![b] = 1]
  <2>1. 0 + 1 = 1
    OBVIOUS
  <2> QED  BY <1>2, <2>1 DEF Put
<1>4. MemoryType' /\ WorkerType' /\ QueueType' /\ ClassType'
  BY <1>3 DEF MemoryType, WorkerType, QueueType, ClassType, Arrived
<1>5. Placed'
  BY DEF Placed
<1>6. Once' /\ Apart' /\ Queued' = Queued /\ AtWorkers' = AtWorkers
  BY DEF Once, Apart, Queued, AtWorkers
<1>7. NoneLost'
  BY <1>1, <1>3, <1>6 DEF NoneLost, MemoryType
<1>8. None \notin Queued \cup AtWorkers
  BY DEF Queued, QueueType, AtWorkers
<1>9. NoneShared'
  BY <1>1, <1>2, <1>3, <1>6, <1>8 DEF NoneShared, MemoryType
<1>10. Holding'
  <2>1. Live' = Queued \cup AtWorkers /\ Live' \subseteq Live
    BY <1>6 DEF Live
  <2> QED  BY <1>6, <2>1 DEF Holding, Denied, ClassOf, isAllowed, Arrived
<1> QED  BY <1>4, <1>5, <1>6, <1>7, <1>9, <1>10

LEMMA RxNothingIInv ==
  ASSUME IInv, RxNothing
  PROVE  IInv'
<1> USE DEF IInv, Typed, flags, sink
<1>1. /\ rx.pc = "reading" /\ Put(rx.buf)
      /\ rx' \in {[pc |-> "loop", buf |-> None], [pc |-> "returned", buf |-> None]}
      /\ UNCHANGED <<ctxDone, connOpen, chanClosed, start, worker, queue, output, delivered,
                     made, content, class, count, crashed>>
  BY DEF RxNothing
<1>2. /\ MemoryType' /\ Placed' /\ Once' /\ Apart' /\ NoneLost' /\ NoneShared'
      /\ Holding' /\ WorkerType' /\ QueueType' /\ ClassType'
  BY <1>1, RxPuts
<1>3. RxType'
  BY <1>1 DEF RxType
<1>4. ControlType' /\ SinkType' /\ CountType'
  BY <1>1 DEF ControlType, SinkType, CountType
<1>5. PacketsAccounted'
  BY <1>1 DEF PacketsAccounted, InPlace, Cnt
<1>6. EventsAreOwn'
  BY <1>1 DEF EventsAreOwn, isAllowed, Arrived
<1> QED  BY <1>2, <1>3, <1>4, <1>5, <1>6

LEMMA RxDropIInv ==
  ASSUME IInv, RxDrop
  PROVE  IInv'
<1> USE DEF IInv, Typed, flags, sink
<1>1. /\ rx.pc = "read" /\ Put(rx.buf) /\ rx' = [pc |-> "loop", buf |-> None]
      /\ UNCHANGED <<ctxDone, connOpen, chanClosed, start, worker, queue, output, delivered,
                     made, content, class, crashed>>
  BY DEF RxDrop
<1>2. /\ MemoryType' /\ Placed' /\ Once' /\ Apart' /\ NoneLost' /\ NoneShared'
      /\ Holding' /\ WorkerType' /\ QueueType' /\ ClassType'
  BY <1>1, RxPuts
<1>3. /\ CountType' /\ count'.received = count.received
      /\ count'.dropped = count.dropped + 1 /\ count'.errors = count.errors
      /\ count'.limited = count.limited /\ count'.processed = count.processed
      /\ count'.sent = count.sent /\ count'.outputDrops = count.outputDrops
  BY Counting DEF RxDrop, Cnt, CountType
<1>4. RxType' /\ ControlType' /\ SinkType'
  BY <1>1 DEF RxType, ControlType, SinkType
<1>5. PacketsAccounted'
  <2>1. InPlace("decode")' = InPlace("decode") /\ InPlace("send")' = InPlace("send")
    BY <1>1 DEF InPlace
  <2>2. InPlace("decode") \in Nat /\ Len(queue) \in Nat
    BY WorkersCounted DEF QueueType
  <2>3. Cnt(rx.pc = "read") = 1 /\ Cnt(rx'.pc = "read") = 0
    BY <1>1 DEF Cnt
  <2> QED  BY <1>1, <1>3, <2>1, <2>2, <2>3 DEF PacketsAccounted, CountType
<1>6. EventsAreOwn'
  BY <1>1, <1>3 DEF EventsAreOwn, isAllowed, Arrived
<1> QED  BY <1>2, <1>3, <1>4, <1>5, <1>6

(* Only the receiver has the buffer that the new packet is read into. *)
LEMMA RxReadIInv ==
  ASSUME IInv, NEW c \in Classes, RxRead(c)
  PROVE  IInv'
<1> USE DEF IInv, Typed, flags, sink
<1> DEFINE b == rx.buf
           n == Arrived
<1>1. /\ rx.pc = "reading" /\ class' = Append(class, c) /\ n < MaxPackets
      /\ content' = [content EXCEPT ![b] = n + 1]
      /\ rx' = [rx EXCEPT !.pc = "read"]
      /\ UNCHANGED <<ctxDone, connOpen, chanClosed, start, worker, queue, output, delivered,
                     made, pooled, crashed>>
  BY DEF RxRead
<1>2. /\ CountType' /\ count'.received = count.received + 1
      /\ count'.dropped = count.dropped /\ count'.errors = count.errors
      /\ count'.limited = count.limited /\ count'.processed = count.processed
      /\ count'.sent = count.sent /\ count'.outputDrops = count.outputDrops
  BY Counting DEF RxRead, Cnt, CountType
<1>3. /\ rx'.pc = "read" /\ rx'.buf = b /\ RxType'
      /\ b \in Buffers /\ b # None /\ b \notin Queued \cup AtWorkers
  BY <1>1 DEF RxType, Placed, NoneShared
<1>4. /\ n \in Nat /\ Arrived' = n + 1 /\ ClassType'
      /\ \A p \in 1 .. n : class'[p] = class[p]
  BY <1>1 DEF ClassType, Arrived
<1>5. MemoryType'
  <2> HIDE DEF b, n
  <2>1. n + 1 \in 0 .. MaxPackets
    BY <1>1, <1>4
  <2> QED  BY <1>1, <2>1 DEF MemoryType
<1>6. ControlType' /\ WorkerType' /\ QueueType' /\ SinkType'
  BY <1>1 DEF ControlType, WorkerType, QueueType, SinkType
<1>7. Placed'
  BY <1>1, <1>3 DEF Placed
<1>8. Once' /\ Apart' /\ Queued' = Queued /\ AtWorkers' = AtWorkers
  BY <1>1 DEF Once, Apart, Queued, AtWorkers
<1>9. NoneLost' /\ NoneShared'
  BY <1>1, <1>3, <1>8 DEF NoneLost, NoneShared
<1>10. Holding'
  <2>1. Live = Queued \cup AtWorkers /\ Live' = Live \cup {b}
    BY <1>1, <1>3, <1>8 DEF Live
  <2>2. /\ content'[b] = n + 1
        /\ \A d \in Live : d # b /\ content'[d] = content[d] /\ content[d] \in 1 .. n
    <3>1. Live \subseteq Buffers
      BY <2>1 DEF Queued, AtWorkers, QueueType, WorkerType
    <3> QED  BY <1>1, <1>3, <2>1, <3>1 DEF MemoryType, Holding
  <2>3. n + 1 \notin delivered /\ delivered \subseteq 1 .. n
    BY <1>4 DEF EventsAreOwn
  <2>4. \A d \in Live' : content'[d] \in 1 .. Arrived' /\ content'[d] \notin delivered'
    <3> HIDE DEF b, n
    <3> QED  BY <1>1, <1>4, <2>1, <2>2, <2>3 DEF Holding
  <2>5. \A d, e \in Live' : content'[d] = content'[e] => d = e
    <3> HIDE DEF b, n
    <3> QED  BY <1>4, <2>1, <2>2 DEF Holding
  <2>6. \A d \in Live : ClassOf(d)' = ClassOf(d)
    <3> HIDE DEF b, n
    <3> QED  BY <1>4, <2>2 DEF ClassOf
  <2>7. \A d \in Queued' \cup AtWorkers' : ~Denied(d)'
    BY <1>8, <2>1, <2>6 DEF Holding, Denied, isAllowed
  <2>8. ASSUME NEW w \in Workers, worker'[w].pc = "send"
        PROVE  class'[content'[worker'[w].buf]].kind # "malformed"
    <3>1. worker'[w] = worker[w] /\ worker[w].buf \in Live
      BY <1>1, <2>1, <2>8 DEF Placed, AtWorkers
    <3>2. class'[content'[worker[w].buf]] = ClassOf(worker[w].buf)
      BY <2>6, <3>1 DEF ClassOf
    <3> QED  BY <2>8, <3>1, <3>2 DEF Holding
  <2> QED  BY <2>4, <2>5, <2>7, <2>8 DEF Holding, ClassOf
<1>11. PacketsAccounted'
  <2>1. InPlace("decode")' = InPlace("decode") /\ InPlace("send")' = InPlace("send")
    BY <1>1 DEF InPlace
  <2>2. InPlace("decode") \in Nat /\ Len(queue) \in Nat
    BY WorkersCounted DEF QueueType
  <2>3. Cnt(rx.pc = "read") = 0 /\ Cnt(rx'.pc = "read") = 1
    BY <1>1, <1>3 DEF Cnt
  <2>4. queue' = queue
    BY <1>1
  <2>5. /\ count.received \in Nat /\ count.dropped \in Nat /\ count.errors \in Nat
        /\ count.limited \in Nat /\ count.processed \in Nat /\ count.sent \in Nat
        /\ count.outputDrops \in Nat
    BY DEF CountType
  <2>6. PacketsAccounted
    OBVIOUS
  <2> HIDE DEF IInv, Typed, flags, sink, b, n
  <2>7. /\ count.received = count.dropped + 0 + Len(queue) + InPlace("decode")
                              + count.errors + count.limited + count.processed
        /\ count.processed = InPlace("send") + count.sent + count.outputDrops
    BY <2>3, <2>6 DEF PacketsAccounted
  <2>8. /\ count'.received = count'.dropped + 1 + Len(queue) + InPlace("decode")
                               + count'.errors + count'.limited + count'.processed
        /\ count'.processed = InPlace("send") + count'.sent + count'.outputDrops
    <3>1. PICK t \in Nat :
            /\ t = count.dropped + 0 + Len(queue) + InPlace("decode")
            /\ t + 1 = count.dropped + 1 + Len(queue) + InPlace("decode")
      <4>1. PICK x \in Nat : /\ x = count.dropped + 0 + Len(queue)
                             /\ x + 1 = count.dropped + 1 + Len(queue)
        BY <2>2, <2>5
      <4>2. PICK y \in Nat : y = InPlace("decode")
        BY <2>2
      <4>3. x + y \in Nat /\ (x + y) + 1 = (x + 1) + y
        OBVIOUS
      <4> QED  BY <4>1, <4>2, <4>3, Zenon
    <3>2. count.received = t + count.errors + count.limited + count.processed
      BY <2>7, <3>1, Zenon
    <3>3. count.received + 1
            = (t + 1) + count.errors + count.limited + count.processed
      BY <2>5, <3>2
    <3> QED  BY <1>2, <2>7, <3>1, <3>3, Zenon
  <2> QED  BY <2>1, <2>3, <2>4, <2>8 DEF PacketsAccounted
<1>12. EventsAreOwn'
  <2> HIDE DEF b, n
  <2>1. delivered \subseteq 1 .. n /\ delivered' = delivered
    BY <1>1 DEF EventsAreOwn, n
  <2>2. \A p \in delivered : class'[p] = class[p]
    BY <1>4, <2>1
  <2>3. delivered' \subseteq 1 .. Arrived'
    BY <1>4, <2>1
  <2>4. Cardinality(delivered') = count'.sent
    BY <1>2, <2>1 DEF EventsAreOwn
  <2> QED  BY <2>1, <2>2, <2>3, <2>4 DEF EventsAreOwn, isAllowed
<1> QED  BY <1>2, <1>3, <1>4, <1>5, <1>6, <1>7, <1>8, <1>9, <1>10, <1>11, <1>12

LEMMA RxEnqueueIInv ==
  ASSUME IInv, RxEnqueue
  PROVE  IInv'
<1> USE DEF IInv, Typed, flags, sink, memory
<1> DEFINE b == rx.buf
<1>1. /\ rx.pc = "read" /\ ~Denied(b) /\ Len(queue) < QueueCap
      /\ queue' = Append(queue, b) /\ rx' = [pc |-> "loop", buf |-> None]
      /\ UNCHANGED <<ctxDone, connOpen, chanClosed, start, worker, output, delivered,
                     made, pooled, content, class, count, crashed>>
  BY DEF RxEnqueue
<1>2. /\ b \in Buffers /\ b # None /\ b <= made
      /\ b \notin Queued \cup AtWorkers /\ pooled[b] = 0
  BY <1>1 DEF RxType, Placed, NoneShared, MemoryType
<1>3. /\ QueueType' /\ Once' /\ Queued' = Queued \cup {b}
      /\ Len(queue') = Len(queue) + 1 /\ Len(queue) \in Nat
  BY <1>1, <1>2, QueueGrows
<1>4. RxType' /\ ControlType' /\ WorkerType' /\ SinkType' /\ MemoryType' /\ CountType'
  BY <1>1 DEF RxType, ControlType, WorkerType, SinkType, MemoryType, CountType
<1>5. ClassType'
  BY <1>1 DEF ClassType, Arrived
<1>6. Placed'
  BY <1>1 DEF Placed
<1>7. Apart' /\ AtWorkers' = AtWorkers
  BY <1>1 DEF Apart, AtWorkers
<1>8. None \notin Queued \cup AtWorkers
  BY DEF Queued, QueueType, AtWorkers
<1>9. NoneLost' /\ NoneShared'
  BY <1>1, <1>2, <1>3, <1>7, <1>8 DEF NoneLost, NoneShared
<1>10. Holding'
  <2>1. Live' = Live
    BY <1>1, <1>3, <1>7 DEF Live
  <2>2. \A d \in Queued' \cup AtWorkers' : ~Denied(d)
    BY <1>1, <1>3, <1>7 DEF Holding
  <2> QED  BY <1>1, <2>1, <2>2 DEF Holding, Denied, ClassOf, isAllowed, Arrived
<1>11. PacketsAccounted'
  <2>1. InPlace("decode")' = InPlace("decode") /\ InPlace("send")' = InPlace("send")
    BY <1>1 DEF InPlace
  <2>2. InPlace("decode") \in Nat
    BY WorkersCounted
  <2>3. Cnt(rx.pc = "read") = 1 /\ Cnt(rx'.pc = "read") = 0
    BY <1>1 DEF Cnt
  <2>4. count' = count
    BY <1>1
  <2> QED  BY <1>3, <2>1, <2>2, <2>3, <2>4 DEF PacketsAccounted, CountType
<1>12. EventsAreOwn'
  BY <1>1 DEF EventsAreOwn, isAllowed, Arrived
<1> QED  BY <1>3, <1>4, <1>5, <1>6, <1>7, <1>9, <1>10, <1>11, <1>12
-----------------------------------------------------------------------------
LEMMA WorkerTakeIInv ==
  ASSUME IInv, NEW w \in Workers, WorkerTake(w)
  PROVE  IInv'
<1> USE DEF IInv, Typed, flags, sink, memory
<1> DEFINE b == Head(queue)
<1>1. /\ worker[w].pc = "select" /\ queue # <<>> /\ queue' = Tail(queue)
      /\ worker' = [worker EXCEPT ![w] = [pc |-> "decode", buf |-> b]]
      /\ UNCHANGED <<ctxDone, connOpen, chanClosed, start, rx, output, delivered,
                     made, pooled, content, class, count, crashed>>
  BY DEF WorkerTake
<1>2. /\ QueueType' /\ Once' /\ Queued' = Queued \ {b} /\ b \in Queued /\ b \in Buffers
      /\ Len(queue') = Len(queue) - 1 /\ Len(queue) \in Nat
  BY <1>1, QueueShrinks
<1>3. b \notin AtWorkers /\ b # None /\ worker[w].buf = None
  BY <1>1, <1>2 DEF NoneShared, Placed
<1>4. Apart' /\ AtWorkers' = AtWorkers \cup {b}
  <2>1. Apart' /\ AtWorkers' = (AtWorkers \ {worker[w].buf}) \cup ({b} \ {None})
    <3> HIDE DEF b
    <3> QED  BY <1>1, <1>3, WorkerMoves
  <2>2. None \notin AtWorkers
    BY DEF AtWorkers
  <2> HIDE DEF b
  <2> QED  BY <1>3, <2>1, <2>2
<1> HIDE DEF b
<1>5. WorkerType'
  BY <1>1, <1>2 DEF WorkerType
<1>6. RxType' /\ ControlType' /\ SinkType' /\ MemoryType' /\ CountType'
  BY <1>1 DEF RxType, ControlType, SinkType, MemoryType, CountType
<1>7. ClassType'
  BY <1>1 DEF ClassType, Arrived
<1>8. Placed'
  BY <1>1, <1>3 DEF Placed, WorkerType
<1>9. Queued' \cup AtWorkers' = Queued \cup AtWorkers
  BY <1>2, <1>4
<1>10. NoneLost'
  BY <1>1, <1>9 DEF NoneLost
<1>11. NoneShared'
  BY <1>1, <1>2, <1>4, <1>9 DEF NoneShared
<1>12. Holding'
  <2>1. Live' = Live
    BY <1>1, <1>9 DEF Live
  <2>2. \A v \in Workers : worker'[v].pc = "send" => worker'[v] = worker[v]
    BY <1>1 DEF WorkerType
  <2> QED  BY <1>1, <1>9, <2>1, <2>2 DEF Holding, Denied, ClassOf, isAllowed, Arrived
<1>13. PacketsAccounted'
  <2>1. /\ InPlace("decode") \in Nat /\ InPlace("decode")' = InPlace("decode") + 1
        /\ InPlace("send") \in Nat /\ InPlace("send")' = InPlace("send")
    <3>1. /\ InPlace("decode") \in Nat /\ InPlace("decode")' \in Nat
          /\ InPlace("send") \in Nat /\ InPlace("send")' \in Nat
          /\ InPlace("decode")' = InPlace("decode") - Cnt(worker[w].pc = "decode")
                                    + Cnt("decode" = "decode")
          /\ InPlace("send")' = InPlace("send") - Cnt(worker[w].pc = "send")
                                  + Cnt("decode" = "send")
      BY <1>1, PlacesMove, Zenon
    <3> QED  BY <1>1, <3>1 DEF Cnt
  <2>2. rx' = rx /\ count' = count /\ Cnt(rx.pc = "read") \in Nat
    BY <1>1 DEF Cnt
  <2>3. /\ count.received \in Nat /\ count.dropped \in Nat /\ count.errors \in Nat
        /\ count.limited \in Nat /\ count.processed \in Nat /\ count.sent \in Nat
        /\ count.outputDrops \in Nat
    BY DEF CountType
  <2>4. PacketsAccounted
    OBVIOUS
  <2> HIDE DEF IInv, Typed, flags, sink, memory
  <2>5. PICK r \in Nat : r = Cnt(rx.pc = "read")
    BY <2>2
  <2>6. /\ count.received = count.dropped + r + Len(queue) + InPlace("decode")
                              + count.errors + count.limited + count.processed
        /\ count.processed = InPlace("send") + count.sent + count.outputDrops
    BY <2>4, <2>5 DEF PacketsAccounted
  <2>7. count.received = count.dropped + r + Len(queue') + InPlace("decode")'
                          + count.errors + count.limited + count.processed
    <3>1. PICK x \in Nat : x = count.dropped + r
      BY <2>3
    <3>2. PICK l \in Nat : l = Len(queue)
      BY <1>2
    <3>3. PICK y \in Nat : y = InPlace("decode")
      BY <2>1
    <3>4. x + (l - 1) + (y + 1) = x + l + y
      OBVIOUS
    <3> QED  BY <1>2, <2>1, <2>6, <3>1, <3>2, <3>3, <3>4, Zenon
  <2> QED  BY <2>1, <2>2, <2>5, <2>6, <2>7 DEF PacketsAccounted
<1>14. EventsAreOwn'
  BY <1>1 DEF EventsAreOwn, isAllowed, Arrived
<1> QED  BY <1>2, <1>4, <1>5, <1>6, <1>7, <1>8, <1>10, <1>11, <1>12, <1>13, <1>14

LEMMA WorkerReturnIInv ==
  ASSUME IInv, NEW w \in Workers, WorkerReturn(w)
  PROVE  IInv'
<1> USE DEF IInv, Typed, flags, sink, memory
<1>1. /\ worker[w].pc = "select"
      /\ worker' = [worker EXCEPT ![w] = [pc |-> "returned", buf |-> worker[w].buf]]
      /\ UNCHANGED <<ctxDone, connOpen, chanClosed, start, rx, queue, output, delivered,
                     made, pooled, content, class, count, crashed>>
  <2>1. worker[w] = [pc |-> worker[w].pc, buf |-> worker[w].buf]
    BY DEF WorkerType
  <2>2. [worker[w] EXCEPT !.pc = "returned"] = [pc |-> "returned", buf |-> worker[w].buf]
    BY <2>1
  <2>3. worker' = [worker EXCEPT ![w] = [worker[w] EXCEPT !.pc = "returned"]]
    BY DEF WorkerReturn
  <2> QED  BY <2>2, <2>3 DEF WorkerReturn
<1>2. Once' /\ Apart' /\ Queued' = Queued /\ AtWorkers' = AtWorkers
  BY <1>1, WorkerStays DEF Once, Queued
<1>3. WorkerType'
  BY <1>1 DEF WorkerType
<1>4. RxType' /\ ControlType' /\ QueueType' /\ SinkType' /\ MemoryType' /\ CountType'
  <2>1. RxType' /\ ControlType'
    BY <1>1 DEF RxType, ControlType
  <2>2. QueueType' /\ SinkType'
    BY <1>1 DEF QueueType, SinkType
  <2>3. MemoryType' /\ CountType'
    BY <1>1 DEF MemoryType, CountType
  <2> QED  BY <2>1, <2>2, <2>3
<1>5. ClassType'
  BY <1>1 DEF ClassType, Arrived
<1>6. Placed'
  BY <1>1 DEF Placed, WorkerType
<1>7. NoneLost' /\ NoneShared'
  BY <1>1, <1>2 DEF NoneLost, NoneShared
<1>8. Holding'
  <2>1. Live' = Live
    BY <1>1, <1>2 DEF Live
  <2>2. \A v \in Workers : worker'[v].pc = "send" => worker'[v] = worker[v]
    BY <1>1 DEF WorkerType
  <2> QED  BY <1>1, <1>2, <2>1, <2>2 DEF Holding, Denied, ClassOf, isAllowed, Arrived
<1>9. PacketsAccounted'
  <2>1. /\ InPlace("decode")' = InPlace("decode") /\ InPlace("send")' = InPlace("send")
    <3>1. /\ InPlace("decode") \in Nat /\ InPlace("decode")' \in Nat
          /\ InPlace("send") \in Nat /\ InPlace("send")' \in Nat
          /\ InPlace("decode")' = InPlace("decode") - Cnt(worker[w].pc = "decode")
                                    + Cnt("returned" = "decode")
          /\ InPlace("send")' = InPlace("send") - Cnt(worker[w].pc = "send")
                                  + Cnt("returned" = "send")
      BY <1>1, PlacesMove, Zenon
    <3> QED  BY <1>1, <3>1 DEF Cnt
  <2> QED  BY <1>1, <2>1 DEF PacketsAccounted
<1>10. EventsAreOwn'
  BY <1>1 DEF EventsAreOwn, isAllowed, Arrived
<1> QED  BY <1>2, <1>3, <1>4, <1>5, <1>6, <1>7, <1>8, <1>9, <1>10

(* Sums of the counters, when a packet goes from one to another. *)
LEMMA Sums ==
  ASSUME NEW s \in Nat, NEW x \in Nat, NEW e \in Nat, NEW l \in Nat, NEW p \in Nat,
         NEW e1 \in Nat, NEW l1 \in Nat
  PROVE  /\ s + x + e + l + p = s + (x - 1) + e + l + (p + 1)
         /\ e1 + l1 = e + l + 1 => s + x + e + l + p = s + (x - 1) + e1 + l1 + p
         /\ e1 + l1 = e + l + 1 => x + e + l = (x - 1) + e1 + l1
         /\ (x + e + l) + 1 = (x + 1) + e + l
OBVIOUS

LEMMA WorkerAcceptIInv ==
  ASSUME IInv, NEW w \in Workers, WorkerAccept(w)
  PROVE  IInv'
<1> USE DEF IInv, Typed, flags, sink, memory
<1>1. /\ worker[w].pc = "decode" /\ ClassOf(worker[w].buf).kind # "malformed"
      /\ worker' = [worker EXCEPT ![w] = [pc |-> "send", buf |-> worker[w].buf]]
      /\ UNCHANGED <<ctxDone, connOpen, chanClosed, start, rx, queue, output, delivered,
                     made, pooled, content, class, crashed>>
  <2>1. worker[w] = [pc |-> worker[w].pc, buf |-> worker[w].buf]
    BY DEF WorkerType
  <2>2. [worker[w] EXCEPT !.pc = "send"] = [pc |-> "send", buf |-> worker[w].buf]
    BY <2>1
  <2>3. worker' = [worker EXCEPT ![w] = [worker[w] EXCEPT !.pc = "send"]]
    BY DEF WorkerAccept
  <2> QED  BY <2>2, <2>3 DEF WorkerAccept
<1>2. /\ CountType' /\ count'.received = count.received
      /\ count'.dropped = count.dropped /\ count'.errors = count.errors
      /\ count'.limited = count.limited /\ count'.processed = count.processed + 1
      /\ count'.sent = count.sent /\ count'.outputDrops = count.outputDrops
  BY Counting DEF WorkerAccept, Cnt, CountType
<1>3. Once' /\ Apart' /\ Queued' = Queued /\ AtWorkers' = AtWorkers
  BY <1>1, WorkerStays DEF Once, Queued
<1>4. WorkerType'
  BY <1>1 DEF WorkerType
<1>5. RxType' /\ ControlType' /\ QueueType' /\ SinkType' /\ MemoryType'
  BY <1>1 DEF RxType, ControlType, QueueType, SinkType, MemoryType
<1>6. ClassType'
  BY <1>1 DEF ClassType, Arrived
<1>7. Placed'
  BY <1>1 DEF Placed, WorkerType
<1>8. NoneLost' /\ NoneShared'
  BY <1>1, <1>3 DEF NoneLost, NoneShared
<1>9. Holding'
  <2>1. Live' = Live
    BY <1>1, <1>3 DEF Live
  <2>2. /\ worker'[w].buf = worker[w].buf
        /\ \A v \in Workers \ {w} : worker'[v] = worker[v]
    BY <1>1 DEF WorkerType
  <2>3. \A v \in Workers :
          worker'[v].pc = "send" => ClassOf(worker'[v].buf).kind # "malformed"
    BY <1>1, <2>2 DEF Holding
  <2> QED  BY <1>1, <1>3, <2>1, <2>3 DEF Holding, Denied, ClassOf, isAllowed, Arrived
<1>10. PacketsAccounted'
  <2>1. /\ InPlace("decode") \in Nat /\ InPlace("decode")' = InPlace("decode") - 1
        /\ InPlace("decode")' \in Nat
        /\ InPlace("send") \in Nat /\ InPlace("send")' = InPlace("send") + 1
    <3>1. /\ InPlace("decode") \in Nat /\ InPlace("decode")' \in Nat
          /\ InPlace("send") \in Nat /\ InPlace("send")' \in Nat
          /\ InPlace("decode")' = InPlace("decode") - Cnt(worker[w].pc = "decode")
                                    + Cnt("send" = "decode")
          /\ InPlace("send")' = InPlace("send") - Cnt(worker[w].pc = "send")
                                  + Cnt("send" = "send")
      BY <1>1, PlacesMove, Zenon
    <3> QED  BY <1>1, <3>1 DEF Cnt
  <2>2. /\ Cnt(rx'.pc = "read") = Cnt(rx.pc = "read") /\ Cnt(rx.pc = "read") \in Nat
        /\ Len(queue') = Len(queue) /\ Len(queue) \in Nat
    BY <1>1 DEF Cnt, QueueType
  <2>3. /\ count.received \in Nat /\ count.dropped \in Nat /\ count.errors \in Nat
        /\ count.limited \in Nat /\ count.processed \in Nat /\ count.sent \in Nat
        /\ count.outputDrops \in Nat
    BY DEF CountType
  <2>4. /\ count'.received \in Nat /\ count'.dropped \in Nat /\ count'.errors \in Nat
        /\ count'.limited \in Nat /\ count'.processed \in Nat /\ count'.sent \in Nat
        /\ count'.outputDrops \in Nat
    BY <1>2 DEF CountType
  <2>5. /\ count.received = count.dropped + Cnt(rx.pc = "read") + Len(queue)
                             + InPlace("decode")
                             + count.errors + count.limited + count.processed
        /\ count.processed = InPlace("send") + count.sent + count.outputDrops
    BY DEF PacketsAccounted
  <2>6. count'.received = count'.dropped + Cnt(rx'.pc = "read") + Len(queue')
                             + InPlace("decode")'
                             + count'.errors + count'.limited + count'.processed
    <3> DEFINE sum == count.dropped + Cnt(rx.pc = "read") + Len(queue)
    <3>1. sum \in Nat
      BY <2>2, <2>3
    <3> HIDE DEF sum
    <3>2. sum + InPlace("decode") + count.errors + count.limited + count.processed
            = sum + (InPlace("decode") - 1) + count.errors + count.limited
                + (count.processed + 1)
      BY <1>2, <2>1, <2>3, <2>4, <3>1, Sums
    <3> QED  BY <1>2, <2>1, <2>2, <2>5, <3>2, Zenon DEF sum
  <2>7. count'.processed = InPlace("send")' + count'.sent + count'.outputDrops
    <3>1. (InPlace("send") + count.sent + count.outputDrops) + 1
            = (InPlace("send") + 1) + count.sent + count.outputDrops
      BY <2>1, <2>3, Sums
    <3> QED  BY <1>2, <2>1, <2>5, <3>1, Zenon
  <2> QED  BY <2>6, <2>7 DEF PacketsAccounted
<1>11. EventsAreOwn'
  BY <1>1, <1>2 DEF EventsAreOwn, isAllowed, Arrived
<1> QED  BY <1>2, <1>3, <1>4, <1>5, <1>6, <1>7, <1>8, <1>9, <1>10, <1>11

(* A worker gives up its buffer; events may have been sent meanwhile. *)
LEMMA WorkerPuts ==
  ASSUME IInv, NEW w \in Workers, worker[w].pc \in {"decode", "send"},
         Put(worker[w].buf), Finished(w),
         UNCHANGED <<start, rx, queue, made, content, class>>,
         delivered' \subseteq delivered \cup {content[worker[w].buf]}
  PROVE  /\ MemoryType' /\ Placed' /\ Once' /\ Apart' /\ NoneLost' /\ NoneShared'
         /\ Holding' /\ RxType' /\ WorkerType' /\ QueueType' /\ ClassType'
<1> USE DEF IInv, Typed
<1> DEFINE b == worker[w].buf
<1>1. b \in AtWorkers /\ b \in Buffers /\ b # None /\ b <= made
  BY DEF WorkerType, Placed, AtWorkers, NoneShared, MemoryType
<1>2. pooled[b] = 0 /\ b # rx.buf /\ b \notin Queued
  BY <1>1 DEF NoneShared
<1>3. pooled' = [pooled EXCEPT ![b] = 1]
  <2>1. 0 + 1 = 1
    OBVIOUS
  <2> QED  BY <1>2, <2>1 DEF Put
<1>4. Apart' /\ AtWorkers' = AtWorkers \ {b}
  <2>1. Apart' /\ AtWorkers' = (AtWorkers \ {b}) \cup ({None} \ {None})
    BY WorkerMoves DEF Finished
  <2> QED  BY <2>1
<1>5. /\ worker'[w] = [pc |-> "select", buf |-> None]
      /\ \A v \in Workers \ {w} : worker'[v] = worker[v]
  BY DEF Finished, WorkerType
<1>6. WorkerType'
  BY DEF Finished, WorkerType
<1>7. MemoryType' /\ RxType' /\ QueueType' /\ ClassType'
  BY <1>3 DEF MemoryType, RxType, QueueType, ClassType, Arrived
<1>8. Placed'
  BY <1>5 DEF Placed
<1>9. Once' /\ Queued' = Queued
  BY DEF Once, Queued
<1>10. NoneLost'
  <2> HIDE DEF b
  <2> QED  BY <1>1, <1>3, <1>4, <1>9 DEF NoneLost, MemoryType
<1>11. NoneShared'
  <2> HIDE DEF b
  <2> QED  BY <1>1, <1>2, <1>3, <1>4, <1>9 DEF NoneShared, MemoryType
<1>12. Holding'
  <2>1. Live' \subseteq Live \ {b} /\ b \in Live
    <3> HIDE DEF b
    <3> QED  BY <1>1, <1>2, <1>4, <1>9 DEF Live
  <2>2. \A c \in Live' : content[c] # content[b] /\ content[c] \notin delivered'
    BY <2>1 DEF Holding
  <2>3. \A v \in Workers : worker'[v].pc = "send" => worker'[v] = worker[v]
    BY <1>5
  <2>4. Queued' \cup AtWorkers' \subseteq Queued \cup AtWorkers
    BY <1>4, <1>9
  <2> QED  BY <2>1, <2>2, <2>3, <2>4 DEF Holding, Denied, ClassOf, isAllowed, Arrived
<1> QED  BY <1>4, <1>6, <1>7, <1>8, <1>9, <1>10, <1>11, <1>12

LEMMA WorkerRejectIInv ==
  ASSUME IInv, NEW w \in Workers, WorkerReject(w)
  PROVE  IInv'
<1> USE DEF IInv, Typed, flags, sink
<1>1. /\ worker[w].pc = "decode" /\ Put(worker[w].buf) /\ Finished(w)
      /\ Counted("errors") \/ Counted("limited")
      /\ UNCHANGED <<ctxDone, connOpen, chanClosed, start, rx, queue, output, delivered,
                     made, content, class, crashed>>
  BY DEF WorkerReject
<1>2. /\ MemoryType' /\ Placed' /\ Once' /\ Apart' /\ NoneLost' /\ NoneShared'
      /\ Holding' /\ RxType' /\ WorkerType' /\ QueueType' /\ ClassType'
  BY <1>1, WorkerPuts
<1>3. /\ CountType' /\ count'.received = count.received
      /\ count'.dropped = count.dropped
      /\ count'.errors + count'.limited = count.errors + count.limited + 1
      /\ count'.processed = count.processed
      /\ count'.sent = count.sent /\ count'.outputDrops = count.outputDrops
  BY <1>1, Counting DEF Cnt, CountType
<1>4. ControlType' /\ SinkType'
  BY <1>1 DEF ControlType, SinkType
<1>5. PacketsAccounted'
  <2>1. /\ InPlace("decode") \in Nat /\ InPlace("decode")' = InPlace("decode") - 1
        /\ InPlace("decode")' \in Nat
        /\ InPlace("send") \in Nat /\ InPlace("send")' = InPlace("send")
    <3>1. /\ InPlace("decode") \in Nat /\ InPlace("decode")' \in Nat
          /\ InPlace("send") \in Nat /\ InPlace("send")' \in Nat
          /\ InPlace("decode")' = InPlace("decode") - Cnt(worker[w].pc = "decode")
                                    + Cnt("select" = "decode")
          /\ InPlace("send")' = InPlace("send") - Cnt(worker[w].pc = "send")
                                  + Cnt("select" = "send")
      BY <1>1, PlacesMove, Zenon DEF Finished
    <3> QED  BY <1>1, <3>1 DEF Cnt
  <2>2. /\ Cnt(rx'.pc = "read") = Cnt(rx.pc = "read") /\ Cnt(rx.pc = "read") \in Nat
        /\ Len(queue') = Len(queue) /\ Len(queue) \in Nat
    BY <1>1 DEF Cnt, QueueType
  <2>3. /\ count.received \in Nat /\ count.dropped \in Nat /\ count.errors \in Nat
        /\ count.limited \in Nat /\ count.processed \in Nat /\ count.sent \in Nat
        /\ count.outputDrops \in Nat
    BY DEF CountType
  <2>4. /\ count'.received \in Nat /\ count'.dropped \in Nat /\ count'.errors \in Nat
        /\ count'.limited \in Nat /\ count'.processed \in Nat /\ count'.sent \in Nat
        /\ count'.outputDrops \in Nat
    BY <1>3 DEF CountType
  <2>5. /\ count.received = count.dropped + Cnt(rx.pc = "read") + Len(queue)
                             + InPlace("decode")
                             + count.errors + count.limited + count.processed
        /\ count.processed = InPlace("send") + count.sent + count.outputDrops
    BY DEF PacketsAccounted
  <2>6. count'.received = count'.dropped + Cnt(rx'.pc = "read") + Len(queue')
                             + InPlace("decode")'
                             + count'.errors + count'.limited + count'.processed
    <3> DEFINE sum == count.dropped + Cnt(rx.pc = "read") + Len(queue)
    <3>1. sum \in Nat
      BY <2>2, <2>3
    <3> HIDE DEF sum
    <3>2. sum + InPlace("decode") + count.errors + count.limited + count.processed
            = sum + (InPlace("decode") - 1) + count'.errors + count'.limited
                + count.processed
      BY <1>3, <2>1, <2>3, <2>4, <3>1, Sums
    <3> QED  BY <1>3, <2>1, <2>2, <2>5, <3>2, Zenon DEF sum
  <2>7. count'.processed = InPlace("send")' + count'.sent + count'.outputDrops
    BY <1>3, <2>1, <2>3, <2>4, <2>5
  <2> QED  BY <2>6, <2>7 DEF PacketsAccounted
<1>6. EventsAreOwn'
  BY <1>1, <1>3 DEF EventsAreOwn, isAllowed, Arrived
<1> QED  BY <1>2, <1>3, <1>4, <1>5, <1>6

LEMMA WorkerSendIInv ==
  ASSUME IInv, NEW w \in Workers, WorkerSend(w)
  PROVE  IInv'
<1> USE DEF IInv, Typed, flags, sink
<1> DEFINE b == worker[w].buf
           p == content[b]
<1>1. /\ worker[w].pc = "send" /\ Put(b) /\ Finished(w)
      /\ UNCHANGED <<ctxDone, connOpen, chanClosed, start, rx, queue, made, content, class,
                     crashed>>
  BY DEF WorkerSend
<1>2. \/ /\ Len(output) < OutputCap /\ output' = Append(output, p)
         /\ delivered' = delivered \cup {p} /\ Counted("sent")
      \/ UNCHANGED <<output, delivered>> /\ Counted("outputDrops")
  BY DEF WorkerSend
<1>3. /\ MemoryType' /\ Placed' /\ Once' /\ Apart' /\ NoneLost' /\ NoneShared'
      /\ Holding' /\ RxType' /\ WorkerType' /\ QueueType' /\ ClassType'
  BY <1>1, <1>2, WorkerPuts
<1>4. /\ b \in Live /\ p \in 1 .. Arrived /\ p \notin delivered /\ Arrived \in Nat
      /\ p \in 1 .. MaxPackets
  <2>1. b \in AtWorkers
    BY <1>1 DEF Placed, AtWorkers
  <2> QED  BY <2>1 DEF Live, Holding, ClassType, Arrived
<1>5. ControlType'
  BY <1>1 DEF ControlType
<1>6. SinkType'
  <2> HIDE DEF p
  <2>1. CASE /\ Len(output) < OutputCap /\ output' = Append(output, p)
             /\ delivered' = delivered \cup {p}
    <3>1. output' \in Seq(1 .. MaxPackets) /\ Len(output') = Len(output) + 1
      BY <1>4, <2>1 DEF SinkType
    <3>2. Len(output) \in Nat
      BY DEF SinkType
    <3> QED  BY <1>4, <2>1, <3>1, <3>2 DEF SinkType
  <2>2. CASE UNCHANGED <<output, delivered>>
    BY <2>2 DEF SinkType
  <2> QED  BY <1>2, <2>1, <2>2
<1>7. /\ CountType' /\ count'.received = count.received
      /\ count'.dropped = count.dropped /\ count'.errors = count.errors
      /\ count'.limited = count.limited /\ count'.processed = count.processed
      /\ count'.sent + count'.outputDrops = count.sent + count.outputDrops + 1
  BY <1>2, Counting DEF Cnt, CountType
<1>8. PacketsAccounted'
  <2>1. /\ InPlace("decode") \in Nat /\ InPlace("decode")' = InPlace("decode")
        /\ InPlace("send") \in Nat /\ InPlace("send")' = InPlace("send") - 1
        /\ InPlace("send")' \in Nat
    <3>1. /\ InPlace("decode") \in Nat /\ InPlace("decode")' \in Nat
          /\ InPlace("send") \in Nat /\ InPlace("send")' \in Nat
          /\ InPlace("decode")' = InPlace("decode") - Cnt(worker[w].pc = "decode")
                                    + Cnt("select" = "decode")
          /\ InPlace("send")' = InPlace("send") - Cnt(worker[w].pc = "send")
                                  + Cnt("select" = "send")
      BY <1>1, PlacesMove, Zenon DEF Finished
    <3> QED  BY <1>1, <3>1 DEF Cnt
  <2>2. /\ Cnt(rx'.pc = "read") = Cnt(rx.pc = "read") /\ Cnt(rx.pc = "read") \in Nat
        /\ Len(queue') = Len(queue) /\ Len(queue) \in Nat
    BY <1>1 DEF Cnt, QueueType
  <2>3. /\ count.received \in Nat /\ count.dropped \in Nat /\ count.errors \in Nat
        /\ count.limited \in Nat /\ count.processed \in Nat /\ count.sent \in Nat
        /\ count.outputDrops \in Nat
    BY DEF CountType
  <2>4. /\ count'.received \in Nat /\ count'.dropped \in Nat /\ count'.errors \in Nat
        /\ count'.limited \in Nat /\ count'.processed \in Nat /\ count'.sent \in Nat
        /\ count'.outputDrops \in Nat
    BY <1>7 DEF CountType
  <2>5. /\ count.received = count.dropped + Cnt(rx.pc = "read") + Len(queue)
                             + InPlace("decode")
                             + count.errors + count.limited + count.processed
        /\ count.processed = InPlace("send") + count.sent + count.outputDrops
    BY DEF PacketsAccounted
  <2>6. count'.received = count'.dropped + Cnt(rx'.pc = "read") + Len(queue')
                             + InPlace("decode")'
                             + count'.errors + count'.limited + count'.processed
    BY <1>7, <2>1, <2>2, <2>3, <2>4, <2>5
  <2>7. count'.processed = InPlace("send")' + count'.sent + count'.outputDrops
    <3>1. InPlace("send") + count.sent + count.outputDrops
            = (InPlace("send") - 1) + count'.sent + count'.outputDrops
      BY <1>7, <2>1, <2>3, <2>4, Sums
    <3> QED  BY <1>7, <2>1, <2>5, <3>1, Zenon
  <2> QED  BY <2>6, <2>7 DEF PacketsAccounted
<1>9. EventsAreOwn'
  <2>1. CASE delivered' = delivered \cup {p} /\ Counted("sent")
    <3>1. count'.sent = count.sent + 1
      BY <2>1, Counting DEF Cnt, CountType
    <3>2. Cardinality(delivered') = Cardinality(delivered) + 1
      <4>1. IsFiniteSet(delivered)
        <5>1. IsFiniteSet(1 .. MaxPackets) /\ delivered \subseteq 1 .. MaxPackets
          BY FS_Interval DEF SinkType
        <5> QED  BY <5>1, FS_Subset
      <4> HIDE DEF p
      <4> QED  BY <1>4, <2>1, <4>1, FS_AddElement
    <3>3. class[p].kind = "valid"
      <4>1. ClassOf(b).kind # "malformed" /\ ClassOf(b) = class[p]
        BY <1>1 DEF Holding, ClassOf
      <4>2. class[p] \in Classes
        <5> HIDE DEF p
        <5> QED  BY <1>4 DEF ClassType, Arrived
      <4> QED  BY <4>1, <4>2 DEF Classes
    <3>4. allowedNets # {} => isAllowed(class[p].from)
      <4>1. b \in AtWorkers
        BY <1>1 DEF Placed, AtWorkers
      <4> QED  BY <4>1 DEF Holding, Denied, ClassOf
    <3>5. class' = class /\ Arrived' = Arrived
      BY <1>1 DEF Arrived
    <3> HIDE DEF p
    <3> QED  BY <1>4, <2>1, <3>1, <3>2, <3>3, <3>4, <3>5 DEF EventsAreOwn, isAllowed
  <2>2. CASE UNCHANGED delivered /\ Counted("outputDrops")
    <3>1. count'.sent = count.sent
      BY <2>2, Counting DEF Cnt, CountType
    <3> QED  BY <1>1, <2>2, <3>1 DEF EventsAreOwn, isAllowed, Arrived
  <2> QED  BY <1>2, <2>1, <2>2
<1> QED  BY <1>3, <1>5, <1>6, <1>7, <1>8, <1>9
-----------------------------------------------------------------------------
LEMMA NextIInv == IInv /\ [Next]_vars => IInv'
<1> SUFFICES ASSUME IInv, [Next]_vars PROVE IInv'
  OBVIOUS
<1>1. ASSUME RxStep PROVE IInv'
  BY <1>1, RxReturnIInv, RxNothingIInv, RxDropIInv, RxEnqueueIInv, StartIInv, RxGetIInv,
     RxReadIInv DEF RxStep
<1>2. ASSUME NEW w \in Workers, WorkerStep(w) PROVE IInv'
  BY <1>2, WorkerTakeIInv, WorkerReturnIInv, WorkerRejectIInv, WorkerAcceptIInv,
     WorkerSendIInv DEF WorkerStep
<1>3. ASSUME StartStep \/ TakeEvent \/ CancelContext PROVE IInv'
  BY <1>3, StartIInv, StartListensIInv DEF StartStep
<1>4. ASSUME UNCHANGED vars PROVE IInv'
  <2>1. ControlType' /\ SinkType' /\ Placed'
    BY <1>4 DEF vars, flags, sink, memory, IInv, Typed, ControlType, SinkType, Placed
  <2> QED  BY <1>4, <2>1, Quiet DEF vars, flags, sink, memory
<1> QED  BY <1>1, <1>2, <1>3, <1>4 DEF Next

LEMMA Invariance == Spec => []IInv
BY InitIInv, NextIInv, PTL DEF Spec
-----------------------------------------------------------------------------
(* The variables have their types; in particular neither channel holds     *)
(* more than its capacity (udp.go:188-195, 361-370).                       *)
THEOREM TypeCorrect == Spec => []TypeOK
<1>1. IInv => TypeOK
  BY TypedIsTypeOK DEF IInv
<1> QED  BY <1>1, Invariance, PTL

(* The holders of a buffer, one place at a time. *)
LEMMA OneHolder ==
  ASSUME IInv, NEW b \in 1 .. made
  PROVE  Holders(b) = 1
<1> USE DEF IInv, Typed
<1> DEFINE Q == {i \in DOMAIN queue : queue[i] = b}
           W == {w \in Workers : worker[w].buf = b}
<1>1. b \in Buffers /\ b # None
  BY DEF MemoryType
<1>2. b \notin Queued => Cardinality(Q) = 0
  <2>1. b \notin Queued => Q = {}
    BY DEF Queued
  <2> HIDE DEF Q
  <2> QED  BY <2>1, FS_EmptySet
<1>3. b \in Queued => Cardinality(Q) = 1
  <2>1. ASSUME b \in Queued PROVE \E i : Q = {i}
    BY <2>1 DEF Queued, Once
  <2> HIDE DEF Q
  <2> QED  BY <2>1, FS_Singleton
<1>4. b \notin AtWorkers => Cardinality(W) = 0
  <2>1. b \notin AtWorkers => W = {}
    BY <1>1 DEF AtWorkers
  <2> HIDE DEF W
  <2> QED  BY <2>1, FS_EmptySet
<1>5. b \in AtWorkers => Cardinality(W) = 1
  <2>1. ASSUME b \in AtWorkers PROVE \E w : W = {w}
    BY <1>1, <2>1 DEF AtWorkers, Apart
  <2> HIDE DEF W
  <2> QED  BY <2>1, FS_Singleton
<1>6. /\ pooled[b] \in {0, 1}
      /\ pooled[b] = 1 \/ rx.buf = b \/ b \in Queued \/ b \in AtWorkers
      /\ pooled[b] = 1 => rx.buf # b /\ b \notin Queued /\ b \notin AtWorkers
      /\ rx.buf = b => b \notin Queued /\ b \notin AtWorkers
      /\ ~(b \in Queued /\ b \in AtWorkers)
  BY <1>1 DEF NoneLost, NoneShared
<1>7. Holders(b) = pooled[b] + Cnt(rx.buf = b) + Cardinality(Q) + Cardinality(W)
  BY DEF Holders
<1> HIDE DEF Q, W
<1> QED  BY <1>2, <1>3, <1>4, <1>5, <1>6, <1>7 DEF Cnt

(* A buffer is never used twice at a time and never lost, on any path of   *)
(* the receiver and of the workers (udp.go:150-195, 335-336).              *)
THEOREM HeldOnce == Spec => []BuffersHeldOnce
<1>1. IInv => BuffersHeldOnce
  BY OneHolder DEF BuffersHeldOnce
<1> QED  BY <1>1, Invariance, PTL

(* No packet disappears uncounted, and none is counted twice, whatever is  *)
(* full or refused (udp.go:178-195, 339-370).                              *)
THEOREM Accounted == Spec => []PacketsAccounted
<1>1. IInv => PacketsAccounted
  BY DEF IInv
<1> QED  BY <1>1, Invariance, PTL

(* An event is always made from the packet its worker took; no packet      *)
(* yields two events, and one that a check refused yields none, although   *)
(* the buffers are used again (udp.go:150, 181-189, 335-362).              *)
THEOREM Own == Spec => []EventsAreOwn
<1>1. IInv => EventsAreOwn
  BY DEF IInv
<1> QED  BY <1>1, Invariance, PTL
-----------------------------------------------------------------------------
(* How Start shuts down.                                                   *)

(* What the place of Start says of the channel, the receiver and the       *)
(* workers, and where a panic found them.                                  *)
Shutdown ==
  /\ chanClosed <=> start \in {"waitReceiver", "waitWorkers", "stopped"}
  /\ start \in {"closing", "waitReceiver", "waitWorkers", "stopped"} => ctxDone /\ ~connOpen
  /\ start \in {"waitWorkers", "stopped"} => rx.pc = "returned"
  /\ start = "stopped" => \A w \in Workers : worker[w].pc = "returned"
  /\ crashed => start = "waitReceiver" /\ rx.pc = "read" /\ ~Denied(rx.buf)

LEMMA InitShutdown == Init => Shutdown
BY DEF Init, Shutdown

LEMMA NextShutdown == IInv /\ Shutdown /\ [Next]_vars => Shutdown'
<1> SUFFICES ASSUME IInv, Shutdown, [Next]_vars PROVE Shutdown'
  OBVIOUS
<1>0. RxType /\ WorkerType
  BY DEF IInv, Typed
<1>1. ASSUME RxStep PROVE Shutdown'
  <2> USE DEF Shutdown, RxType, flags
  <2>1. CASE RxReturn
    BY <1>0, <2>1 DEF RxReturn
  <2>2. CASE RxNothing
    BY <1>0, <2>2 DEF RxNothing
  <2>3. CASE RxDrop
    BY <1>0, <2>3 DEF RxDrop
  <2>4. CASE RxEnqueue
    BY <1>0, <2>4 DEF RxEnqueue
  <2>5. CASE RxSendOnClosed
    <3>1. start = "waitReceiver"
      BY <2>5 DEF RxSendOnClosed
    <3>2. ~Denied(rx.buf)'
      BY <2>5 DEF RxSendOnClosed, Denied, ClassOf, isAllowed, memory
    <3> QED  BY <2>5, <3>1, <3>2 DEF RxSendOnClosed
  <2>6. ASSUME NEW b \in Buffers, RxGet(b) PROVE Shutdown'
    BY <1>0, <2>6 DEF RxGet
  <2>7. ASSUME NEW c \in Classes, RxRead(c) PROVE Shutdown'
    BY <1>0, <2>7 DEF RxRead
  <2> QED  BY <1>1, <2>1, <2>2, <2>3, <2>4, <2>5, <2>6, <2>7 DEF RxStep
<1>2. ASSUME NEW w \in Workers, WorkerStep(w) PROVE Shutdown'
  <2>1. /\ ~crashed /\ ~crashed' /\ worker[w].pc # "returned"
        /\ UNCHANGED <<flags, start, rx>>
    BY <1>2 DEF WorkerStep, WorkerTake, WorkerReturn, WorkerReject, WorkerAccept, WorkerSend
  <2>2. start # "stopped"
    BY <2>1 DEF Shutdown
  <2> QED  BY <2>1, <2>2 DEF Shutdown, flags
<1>3. ASSUME StartStep PROVE Shutdown'
  <2> USE DEF Shutdown, flags
  <2>1. CASE StartFails
    BY <2>1 DEF StartFails
  <2>2. CASE StartListens
    BY <2>2 DEF StartListens
  <2>3. CASE StartCloseConn
    BY <2>3 DEF StartCloseConn
  <2>4. CASE StartCloseChan
    BY <2>4 DEF StartCloseChan
  <2>5. CASE StartWaitReceiver
    BY <2>5 DEF StartWaitReceiver
  <2>6. CASE StartWaitWorkers
    BY <2>6 DEF StartWaitWorkers
  <2> QED  BY <1>3, <2>1, <2>2, <2>3, <2>4, <2>5, <2>6 DEF StartStep
<1>4. CASE TakeEvent
  BY <1>4 DEF TakeEvent, Shutdown, flags
<1>5. CASE CancelContext
  BY <1>5 DEF CancelContext, Shutdown
<1>6. CASE UNCHANGED vars
  BY <1>6 DEF vars, flags, memory, Shutdown, Denied, ClassOf, isAllowed
<1> QED  BY <1>1, <1>2, <1>3, <1>4, <1>5, <1>6 DEF Next

LEMMA AlwaysShutdown == Spec => []Shutdown
BY InitShutdown, NextShutdown, Invariance, PTL DEF Spec

(* The only panic is the send on the closed packetChan: of the one         *)
(* datagram, of a source the whitelist has, that the receiver had in hand  *)
(* when Start closed the channel and waits for it; never while it serves,  *)
(* nor once the receiver has returned (udp.go:120-128, 180-195).           *)
THEOREM OnlyLateSendsPanic ==
  Spec => [](crashed => start = "waitReceiver" /\ rx.pc = "read" /\ ~Denied(rx.buf))
<1>1. Shutdown => (crashed => start = "waitReceiver" /\ rx.pc = "read" /\ ~Denied(rx.buf))
  BY DEF Shutdown
<1> QED  BY <1>1, AlwaysShutdown, PTL

(* What Start leaves behind. *)
StoppedClean ==
  start = "stopped" =>
    /\ count.received = count.dropped + Len(queue) + count.errors + count.limited
                          + count.sent + count.outputDrops
    /\ \A b \in 1 .. made : pooled[b] = 1 \/ b \in Queued

(* Once Start has returned every packet received is accounted for: it was  *)
(* dropped, failed to decode, was limited, sent, or found the telemetry    *)
(* channel full, or it is one of those left in packetChan, whose buffers   *)
(* are the only ones not in the pool (udp.go:120-135, 319-372).            *)
THEOREM StopsClean == Spec => []StoppedClean
<1>1. ASSUME IInv, Shutdown, start = "stopped"
      PROVE  /\ count.received = count.dropped + Len(queue) + count.errors + count.limited
                                   + count.sent + count.outputDrops
             /\ \A b \in 1 .. made : pooled[b] = 1 \/ b \in Queued
  <2>1. rx.pc = "returned" /\ \A w \in Workers : worker[w].pc = "returned"
    BY <1>1 DEF Shutdown
  <2>2. InPlace("decode") = 0 /\ InPlace("send") = 0
    <3>1. {w \in Workers : worker[w].pc = "decode"} = {}
      BY <2>1
    <3>2. {w \in Workers : worker[w].pc = "send"} = {}
      BY <2>1
    <3> QED  BY <3>1, <3>2, FS_EmptySet, Zenon DEF InPlace
  <2>3. CountType /\ Len(queue) \in Nat
    BY <1>1 DEF IInv, Typed, QueueType
  <2>4. /\ count.received = count.dropped + 0 + Len(queue) + 0
                              + count.errors + count.limited + count.processed
        /\ count.processed = 0 + count.sent + count.outputDrops
    BY <1>1, <2>1, <2>2 DEF IInv, PacketsAccounted, Cnt
  <2>5. rx.buf = None /\ AtWorkers = {}
    BY <1>1, <2>1 DEF IInv, Placed, AtWorkers
  <2>6. \A b \in 1 .. made : b # None /\ (pooled[b] = 1 \/ rx.buf = b \/ b \in Queued \cup AtWorkers)
    BY <1>1 DEF IInv, NoneLost, Typed, MemoryType
  <2> QED  BY <2>3, <2>4, <2>5, <2>6 DEF CountType
<1>2. IInv /\ Shutdown => StoppedClean
  BY <1>1 DEF StoppedClean
<1> QED  BY <1>2, Invariance, AlwaysShutdown, PTL

(* No goroutine of the listener outlives Start: once it has returned, only *)
(* the reader of the telemetry channel takes another step                  *)
(* (udp.go:120-135).                                                       *)
THEOREM NothingOutlives ==
  Spec => [][start = "stopped" => TakeEvent]_vars
<1>1. ASSUME Shutdown, start = "stopped", Next PROVE TakeEvent
  <2>1. rx.pc = "returned" /\ ctxDone /\ \A w \in Workers : worker[w].pc = "returned"
    BY <1>1 DEF Shutdown
  <2>2. ~RxStep
    BY <2>1 DEF RxStep, RxReturn, RxNothing, RxDrop, RxEnqueue, RxSendOnClosed, RxGet, RxRead
  <2>3. ~StartStep
    BY <1>1 DEF StartStep, StartFails, StartListens, StartCloseConn, StartCloseChan,
                StartWaitReceiver, StartWaitWorkers
  <2>4. \A w \in Workers : ~WorkerStep(w)
    BY <2>1 DEF WorkerStep, WorkerTake, WorkerReturn, WorkerReject, WorkerAccept, WorkerSend
  <2>5. ~CancelContext
    BY <2>1 DEF CancelContext
  <2> QED  BY <1>1, <2>2, <2>3, <2>4, <2>5 DEF Next
<1>2. Shutdown /\ [Next]_vars => [start = "stopped" => TakeEvent]_vars
  BY <1>1
<1> QED  BY <1>2, AlwaysShutdown, PTL DEF Spec
=============================================================================
