-------------------------------- MODULE Ingest --------------------------------
(***************************************************************************)
(* UDP ingestion (internal/ingest/udp.go, packet.go): Start binds the      *)
(* socket, a receiver goroutine reads datagrams into pooled buffers and    *)
(* queues those of allowed sources, workers decode and rate-limit them and *)
(* send the events on, and Start shuts both down when the context is       *)
(* cancelled.                                                              *)
(*                                                                         *)
(* A packet is a number, in the order of the socket, with a class: the     *)
(* network it comes from and what the decoder will make of it.  The rate   *)
(* limiter is TokenBucket's: here it may reject any packet.  The consumer  *)
(* of the events is external.                                              *)
(***************************************************************************)
EXTENDS Integers, Sequences, FiniteSets

CONSTANTS
  Workers,     (* the worker goroutines                                   *)
  AllowedCIDRs,  (* the configured whitelist, with the entries that are   *)
                 (* no networks                                           *)
  Sources,     (* the networks that packets come from                     *)
  Kinds,       (* which of "malformed" and "valid" arrive                 *)
  QueueCap,    (* capacity of packetChan                                  *)
  OutputCap,   (* capacity of the telemetry channel                       *)
  MaxBuffers,  (* bound on the buffers the pool makes                     *)
  MaxPackets   (* bound on the packets that arrive                        *)

ASSUME IngestAssumption ==
  /\ IsFiniteSet(Workers)
  /\ Sources \subseteq {"lan", "wan"}
  /\ Kinds \subseteq {"malformed", "valid"}
  /\ QueueCap \in Nat \ {0}
  /\ OutputCap \in Nat
  /\ MaxBuffers \in Nat
  /\ MaxPackets \in Nat

Buffers == 1 .. MaxBuffers
Classes == [from : Sources, kind : Kinds]
None == 0   (* no buffer, no packet *)

VARIABLES
  ctxDone,     (* the context is cancelled                                *)
  connOpen,    (* the socket is open                                      *)
  chanClosed,  (* packetChan is closed                                    *)
  start,       (* the place of Start                                      *)
  rx,          (* the receiver: its place and the buffer it holds         *)
  worker,      (* each worker: its place and the buffer it holds          *)
  queue,       (* packetChan: the buffers in it                           *)
  output,      (* the telemetry channel                                   *)
  made,        (* buffers made by the pool so far                         *)
  pooled,      (* how often each buffer lies in the pool                  *)
  content,     (* the packet each buffer holds                            *)
  class,       (* the class of each packet that arrived                   *)
  delivered,   (* history: the packets the events that were sent came     *)
               (* from                                                    *)
  count,       (* the counters of the listener and of the pool            *)
  crashed      (* a panic nobody recovers has ended the process           *)

memory == <<made, pooled, content, class>>
flags == <<ctxDone, connOpen, chanClosed>>
sink == <<output, delivered>>
vars == <<flags, start, rx, worker, queue, sink, memory, count, crashed>>

Arrived == Len(class)

Init ==
  /\ ctxDone = FALSE /\ connOpen = FALSE /\ chanClosed = FALSE
  /\ start = "binding"
  /\ rx = [pc |-> "none", buf |-> None]
  /\ worker = [w \in Workers |-> [pc |-> "none", buf |-> None]]
  /\ queue = <<>>
  /\ output = <<>>
  /\ made = 0
  /\ pooled = [b \in Buffers |-> 0]
  /\ content = [b \in Buffers |-> None]
  /\ class = <<>>
  /\ delivered = {}
  /\ count = [received |-> 0, dropped |-> 0, errors |-> 0, limited |-> 0,
              processed |-> 0, sent |-> 0, outputDrops |-> 0]
  /\ crashed = FALSE

Counted(field) == count' = [count EXCEPT ![field] = @ + 1]
ClassOf(b) == class[content[b]]

(* The whitelist: entries that are no networks are skipped, and a list     *)
(* without any network allows every source.                                *)
allowedNets == AllowedCIDRs \cap {"lan", "wan"}
isAllowed(from) == from \in allowedNets
Denied(b) == allowedNets # {} /\ ~isAllowed(ClassOf(b).from)

(* PacketPool.Put (packet.go:56-64); every buffer has the pool's size. *)
Put(b) == pooled' = [pooled EXCEPT ![b] = @ + 1]
-----------------------------------------------------------------------------
(* The receiver (udp.go:142-202).                                          *)

RxReturn ==
  /\ ~crashed
  /\ rx.pc = "loop"
  /\ ctxDone
  /\ rx' = [rx EXCEPT !.pc = "returned"]
  /\ UNCHANGED <<flags, start, worker, queue, sink, memory, count, crashed>>

(* sync.Pool hands out a buffer that lies in it, or makes one. *)
RxGet(b) ==
  /\ ~crashed
  /\ rx.pc = "loop"
  /\ ~ctxDone
  /\ \/ pooled[b] > 0 /\ pooled' = [pooled EXCEPT ![b] = @ - 1] /\ UNCHANGED made
     \/ b = made + 1 /\ made' = b /\ UNCHANGED pooled
  /\ rx' = [pc |-> "reading", buf |-> b]
  /\ content' = [content EXCEPT ![b] = None]
  /\ UNCHANGED <<flags, start, worker, queue, sink, class, count, crashed>>

(* The read times out or fails (udp.go:156-174): the buffer goes back, and *)
(* the loop ends if the failure is no timeout and the context is done.     *)
RxNothing ==
  /\ ~crashed
  /\ rx.pc = "reading"
  /\ \/ connOpen /\ rx' = [pc |-> "loop", buf |-> None]
     \/ ctxDone /\ rx' = [pc |-> "returned", buf |-> None]
  /\ Put(rx.buf)
  /\ UNCHANGED <<flags, start, worker, queue, sink, made, content, class, count,
                 crashed>>

RxRead(c) ==
  /\ ~crashed
  /\ rx.pc = "reading"
  /\ connOpen
  /\ Arrived < MaxPackets
  /\ class' = Append(class, c)
  /\ content' = [content EXCEPT ![rx.buf] = Arrived + 1]
  /\ Counted("received")
  /\ rx' = [rx EXCEPT !.pc = "read"]
  /\ UNCHANGED <<flags, start, worker, queue, sink, made, pooled, crashed>>

(* Mutant: the dropped packet keeps its buffer. *)
MutRxDropLeaks ==
  /\ ~crashed
  /\ rx.pc = "read"
  /\ \/ Denied(rx.buf)
     \/ ~Denied(rx.buf) /\ ~chanClosed /\ Len(queue) >= QueueCap
  /\ Counted("dropped")
  /\ rx' = [pc |-> "loop", buf |-> None]
  /\ UNCHANGED <<flags, start, worker, queue, sink, memory, crashed>>

(* The source is not on the whitelist, or the queue is full. *)
RxDrop ==
  /\ ~crashed
  /\ rx.pc = "read"
  /\ \/ Denied(rx.buf)
     \/ ~Denied(rx.buf) /\ ~chanClosed /\ Len(queue) >= QueueCap
  /\ Counted("dropped")
  /\ Put(rx.buf)
  /\ rx' = [pc |-> "loop", buf |-> None]
  /\ UNCHANGED <<flags, start, worker, queue, sink, made, content, class, crashed>>

RxEnqueue ==
  /\ ~crashed
  /\ rx.pc = "read" /\ ~Denied(rx.buf)
  /\ ~chanClosed
  /\ Len(queue) < QueueCap
  /\ queue' = Append(queue, rx.buf)
  /\ rx' = [pc |-> "loop", buf |-> None]
  /\ UNCHANGED <<flags, start, worker, sink, memory, count, crashed>>

(* A send on the closed channel panics, and receiveLoop does not recover. *)
RxSendOnClosed ==
  /\ ~crashed
  /\ rx.pc = "read" /\ ~Denied(rx.buf)
  /\ chanClosed
  /\ crashed' = TRUE
  /\ UNCHANGED <<flags, start, rx, worker, queue, sink, memory, count>>
-----------------------------------------------------------------------------
(* The workers (udp.go:319-372).                                           *)

(* The select takes a packet, whether or not the context is done. *)
WorkerTake(w) ==
  /\ ~crashed
  /\ worker[w].pc = "select"
  /\ queue # <<>>
  /\ worker' = [worker EXCEPT ![w] = [pc |-> "decode", buf |-> Head(queue)]]
  /\ queue' = Tail(queue)
  /\ UNCHANGED <<flags, start, rx, sink, memory, count, crashed>>

(* The select takes ctx.Done, or the closed and empty channel. *)
WorkerReturn(w) ==
  /\ ~crashed
  /\ worker[w].pc = "select"
  /\ ctxDone \/ (chanClosed /\ queue = <<>>)
  /\ worker' = [worker EXCEPT ![w].pc = "returned"]
  /\ UNCHANGED <<flags, start, rx, queue, sink, memory, count, crashed>>

Finished(w) == worker' = [worker EXCEPT ![w] = [pc |-> "select", buf |-> None]]

(* The decoder fails, or the rate limiter rejects the packet. *)
WorkerReject(w) ==
  LET b == worker[w].buf
  IN  /\ ~crashed
      /\ worker[w].pc = "decode"
      /\ Counted(IF ClassOf(b).kind = "malformed" THEN "errors" ELSE "limited")
      /\ Put(b)
      /\ Finished(w)
      /\ UNCHANGED <<flags, start, rx, queue, sink, made, content, class, crashed>>

(* Mutant: the packet is counted as processed once it was sent. *)
MutWorkerAcceptUncounted(w) ==
  /\ ~crashed
  /\ worker[w].pc = "decode"
  /\ ClassOf(worker[w].buf).kind # "malformed"
  /\ worker' = [worker EXCEPT ![w].pc = "send"]
  /\ UNCHANGED <<flags, start, rx, queue, sink, memory, count, crashed>>

(* Mutant: the buffer goes back to the pool before the event is sent. *)
MutWorkerAcceptPutsEarly(w) ==
  /\ ~crashed
  /\ worker[w].pc = "decode"
  /\ ClassOf(worker[w].buf).kind # "malformed"
  /\ Counted("processed")
  /\ Put(worker[w].buf)
  /\ worker' = [worker EXCEPT ![w].pc = "send"]
  /\ UNCHANGED <<flags, start, rx, queue, sink, made, content, class, crashed>>

WorkerAccept(w) ==
  /\ ~crashed
  /\ worker[w].pc = "decode"
  /\ ClassOf(worker[w].buf).kind # "malformed"
  /\ Counted("processed")
  /\ worker' = [worker EXCEPT ![w].pc = "send"]
  /\ UNCHANGED <<flags, start, rx, queue, sink, memory, crashed>>

(* The non-blocking send, then the deferred Put. *)
WorkerSend(w) ==
  LET b == worker[w].buf
  IN  /\ ~crashed
      /\ worker[w].pc = "send"
      /\ IF Len(output) < OutputCap
         THEN /\ output' = Append(output, content[b])
              /\ delivered' = delivered \cup {content[b]}
              /\ Counted("sent")
         ELSE /\ UNCHANGED sink
              /\ Counted("outputDrops")
      /\ Put(b)
      /\ Finished(w)
      /\ UNCHANGED <<flags, start, rx, queue, made, content, class, crashed>>

(* External: whoever reads the telemetry channel. *)
TakeEvent ==
  /\ ~crashed
  /\ output # <<>>
  /\ output' = Tail(output)
  /\ UNCHANGED <<flags, start, rx, worker, queue, delivered, memory, count, crashed>>
-----------------------------------------------------------------------------
(* Start (udp.go:77-128).                                                  *)

(* The address does not resolve, or the socket cannot be bound. *)
StartFails ==
  /\ start = "binding"
  /\ start' = "failed"
  /\ UNCHANGED <<flags, rx, worker, queue, sink, memory, count, crashed>>

StartListens ==
  /\ start = "binding"
  /\ connOpen' = TRUE
  /\ start' = "running"
  /\ worker' = [w \in Workers |-> [pc |-> "select", buf |-> None]]
  /\ rx' = [pc |-> "loop", buf |-> None]
  /\ UNCHANGED <<ctxDone, chanClosed, queue, sink, memory, count, crashed>>

CancelContext ==
  /\ ~crashed
  /\ ~ctxDone
  /\ ctxDone' = TRUE
  /\ UNCHANGED <<connOpen, chanClosed, start, rx, worker, queue, sink, memory,
                 count, crashed>>

StartCloseConn ==
  /\ ~crashed
  /\ start = "running" /\ ctxDone
  /\ connOpen' = FALSE
  /\ start' = "closing"
  /\ UNCHANGED <<ctxDone, chanClosed, rx, worker, queue, sink, memory, count, crashed>>

StartCloseChan ==
  /\ ~crashed
  /\ start = "closing"
  /\ chanClosed' = TRUE
  /\ start' = "waitReceiver"
  /\ UNCHANGED <<ctxDone, connOpen, rx, worker, queue, sink, memory, count, crashed>>

StartWaitReceiver ==
  /\ ~crashed
  /\ start = "waitReceiver"
  /\ rx.pc = "returned"
  /\ start' = "waitWorkers"
  /\ UNCHANGED <<flags, rx, worker, queue, sink, memory, count, crashed>>

(* Mutant: Start waits for the queue to be empty. *)
MutStartWaitWorkersDrains ==
  /\ ~crashed
  /\ start = "waitWorkers"
  /\ queue = <<>>
  /\ \A w \in Workers : worker[w].pc = "returned"
  /\ start' = "stopped"
  /\ UNCHANGED <<flags, rx, worker, queue, sink, memory, count, crashed>>

StartWaitWorkers ==
  /\ ~crashed
  /\ start = "waitWorkers"
  /\ \A w \in Workers : worker[w].pc = "returned"
  /\ start' = "stopped"
  /\ UNCHANGED <<flags, rx, worker, queue, sink, memory, count, crashed>>
-----------------------------------------------------------------------------
RxStep ==
  \/ RxReturn \/ RxNothing \/ RxDrop \/ RxEnqueue \/ RxSendOnClosed
  \/ \E b \in Buffers : RxGet(b)
  \/ \E c \in Classes : RxRead(c)

WorkerStep(w) ==
  \/ WorkerTake(w) \/ WorkerReturn(w)
  \/ WorkerReject(w) \/ WorkerAccept(w) \/ WorkerSend(w)

StartStep ==
  \/ StartFails \/ StartListens \/ StartCloseConn \/ StartCloseChan
  \/ StartWaitReceiver \/ StartWaitWorkers

Next ==
  \/ RxStep
  \/ \E w \in Workers : WorkerStep(w)
  \/ StartStep
  \/ TakeEvent
  \/ CancelContext

Spec == Init /\ [][Next]_vars

(* Every goroutine that can take a step takes one: the read deadline keeps *)
(* the receiver going when nothing arrives.                                *)
FairSpec ==
  /\ Spec
  /\ WF_vars(RxStep)
  /\ \A w \in Workers : WF_vars(WorkerStep(w))
  /\ WF_vars(StartStep)
-----------------------------------------------------------------------------
Cnt(b) == IF b THEN 1 ELSE 0

(* Types of the variables. *)
TypeOK ==
  /\ ctxDone \in BOOLEAN /\ connOpen \in BOOLEAN /\ chanClosed \in BOOLEAN
  /\ start \in {"binding", "failed", "running", "closing", "waitReceiver", "waitWorkers",
                "stopped"}
  /\ rx \in [pc : {"none", "loop", "reading", "read", "returned"}, buf : Buffers \cup {None}]
  /\ worker \in [Workers -> [pc : {"none", "select", "decode", "send", "returned"},
                             buf : Buffers \cup {None}]]
  /\ queue \in Seq(Buffers) /\ Len(queue) <= QueueCap
  /\ output \in Seq(1 .. MaxPackets) /\ Len(output) <= OutputCap
  /\ made \in 0 .. MaxBuffers
  /\ pooled \in [Buffers -> Nat]
  /\ content \in [Buffers -> 0 .. MaxPackets]
  /\ class \in Seq(Classes)
  /\ delivered \subseteq 1 .. MaxPackets
  /\ crashed \in BOOLEAN

(* How many holders a buffer has. *)
Holders(b) ==
  pooled[b] + Cnt(rx.buf = b) + Cardinality({i \in DOMAIN queue : queue[i] = b})
    + Cardinality({w \in Workers : worker[w].buf = b})

(* A buffer is never used twice at a time and never lost: on every path,   *)
(* the drops, the errors and the shutdown included, each buffer the pool   *)
(* made has exactly one holder (udp.go:150-194, 336; packet.go:49-64).     *)
BuffersHeldOnce == \A b \in 1 .. made : Holders(b) = 1

InPlace(pc) == Cardinality({w \in Workers : worker[w].pc = pc})

(* No packet disappears uncounted: each one received is dropped, waiting,  *)
(* or accounted for by a worker as an error, limited or processed, and     *)
(* each one processed was sent or counted as an output drop                *)
(* (udp.go:178-194, 341-371).                                              *)
PacketsAccounted ==
  /\ count.received = count.dropped + Cnt(rx.pc = "read") + Len(queue)
                        + InPlace("decode")
                        + count.errors + count.limited + count.processed
  /\ count.processed = InPlace("send") + count.sent + count.outputDrops

(* An event is always made from the packet its worker took, whatever the   *)
(* receiver does with the pooled buffers meanwhile: no packet yields two   *)
(* events, and none that is malformed, or of a source the whitelist does   *)
(* not have, yields any (udp.go:150-202, 336-372, packet.go:34-64).        *)
EventsAreOwn ==
  /\ delivered \subseteq 1 .. Arrived
  /\ Cardinality(delivered) = count.sent
  /\ \A p \in delivered :
       /\ class[p].kind = "valid"
       /\ allowedNets # {} => isAllowed(class[p].from)

(* Once the context is cancelled Start returns, with or without an error,  *)
(* unless the process ended (udp.go:77-135).                               *)
ShutdownReturns == ctxDone ~> (start \in {"stopped", "failed"} \/ crashed)

(* Shutting down never ends the process: the receiver has stopped before   *)
(* packetChan is closed (udp.go:123 "Graceful shutdown").                  *)
ShutdownIsGraceful == ~crashed
=============================================================================
