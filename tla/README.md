# Verification of udp-relay

TLA+ models of the drone telemetry server: what its components do, step by step,
what TLC checks about them on small instances, and what TLAPS proves for every
instance. File names below are relative to the repository.

## 1. The system

Datagrams arrive on a UDP socket; a receiver queues them, a pool of workers
decodes and rate-limits them and sends telemetry events to one channel. Two
goroutines receive from that channel: the event processor, which updates the
registry of drones, and the pub/sub hub, which fans events out to subscribers. The
WebSocket server is a subscriber; it sends snapshots of the registry to its clients
and answers REST requests from it.

| Component | Source | State | Operations | What is hard | What makes it correct |
|---|---|---|---|---|---|
| MAVLink decoder | `internal/mavlink`, `pkg/protocol` | none | `ParseFrame`, `DecodePacket`, validation, checksum | lengths and signs at the edge of a frame, cut payloads, damage | a frame yields what was encoded, and damage never yields other values |
| UDP ingestion | `internal/ingest/udp.go`, `packet.go` | packet pool, `packetChan`, whitelist, counters | bind, receive, queue, decode, send on, shut down | drops at full channels, buffers that travel, order of the shutdown | each buffer has one holder, each packet is counted, an event is of the packet its worker took, `Start` returns |
| Rate limiter | `internal/ingest/udp.go:374-448` | a bucket per drone | `checkRateLimit` | workers read the clock before the mutex; the wall clock may be set back | burst and rate hold whatever the order, and a debt does not outlast its cause |
| Drone registry | `internal/drone/manager.go`, `state.go` | map of states, updates channel | `ProcessEvent`, stale check, accessors | late events, nil payloads, dropped updates, the stale checker | alerts and snapshots match what is held, silent drones are noticed |
| History | `internal/drone/history.go` | ring buffer per drone | `Push`, `Last` | index arithmetic at the wrap | the most recent entries, oldest first |
| Pub/sub hub | `internal/pubsub/hub.go` | map of subscribers, their channels | `Subscribe`, `Unsubscribe`, `Close`, broadcast, `Stop` | close against send, panic and restart, full channels | bounded in-order feeds, counted drops, everything returns |
| WebSocket server | `internal/broadcast/websocket.go` | clients, filters, message channels | upgrade, read, write, broadcast, `Stop` | check then register, filter changes during a broadcast, late clients | messages follow filters, departed clients go, `Stop` returns |
| Server process | `cmd/server/main.go` | channels, context, goroutines | start, signal, shutdown | two consumers of one channel, two callers of `Stop` | every event is handled, a signal ends the process |
| REST API and export | `internal/broadcast/export.go` | none | history, track, stats, export of all drones | map order, a reply read in two steps | replies agree with the registry and with each other |
| Configuration | `internal/config`, flags in `cmd/server/main.go` | settings | defaults, file over them, flags over both | settings that are not positive or negative, which nothing rejects | no setting but a negative size panics, and a signal ends the server with any file |
| Metrics | `internal/metrics` | Prometheus collectors | none that other code calls | - | - |
| Simulator | `cmd/simulator` | flight state per drone | build frames, send | frames must agree with the decoder | round trip with the decoder |
| Replay tool | `cmd/replay` | offset in a capture file | generate, read records, send, again with `-loop` | a file cut off or damaged, an interrupt between records | the order of the file, no fragments after a cut, an end |
| Terminal dashboard | `cmd/tui` | connection, last snapshot | connect, read, retry, render | a server that starts, refuses, ends or is shut down meanwhile | its retries get it through |

Interactions: the receiver and the workers share `packetChan` and the packet pool;
workers, hub and event processor share `telemetryChan`; the registry emits on an
updates channel that `main` never reads; the hub calls no one, its subscribers read
channels; the WebSocket server calls `GetAllSummaries` of the registry; `main`'s
context ends them all.

## 2. Modules

| Module | Models | Role |
|---|---|---|
| `RingBufferOps` | `history.go` | pure operators `Push`, `LastN` over a buffer record |
| `HistoryWindow` | - | abstract: the last entries as one bounded sequence |
| `RingBuffer` | `history.go` | a buffer that is pushed to; implements `HistoryWindow` |
| `RingBufferProofs` | - | lemmas about `Push` and `LastN`, which `DroneRegistryProofs` uses too, and theorems about `RingBuffer` |
| `TokenBucket` | `checkRateLimit` | workers, stale clock readings, one bucket |
| `TokenBucketProofs` | - | theorems about `TokenBucket` |
| `Hub` | `hub.go` | broadcast loop, clients, shutdown |
| `LossyFeed` | - | abstract: each subscriber's bounded, lossy, in-order feed |
| `DroneRegistry` | `manager.go`, `state.go` | events, alerts, stale checker, accessors; uses `RingBufferOps` by INSTANCE |
| `RestAPI` | `export.go` | the handlers over `DroneRegistry`, which it extends |
| `Ingest` | `udp.go`, `packet.go` | binding, whitelist, receiver, pool, queue, workers, shutdown |
| `Crc` | `crc.go` | the checksum of the frames, and the published one it should be |
| `Mavlink` | `internal/mavlink`, flight modes, the simulator's builders | encode, damage, decode |
| `Replay` | `cmd/replay` | generator, capture file, reader; extends `Mavlink`, so that what it sends is decoded |
| `WebSocketServer` | `websocket.go` | handlers, client loops, broadcast loop, `Stop` |
| `Server` | `cmd/server/main.go`, `internal/config` | configuration, wiring, the two consumers, statistics, lifecycle |
| `HubProofs`, `IngestProofs`, `WebSocketProofs`, `ServerProofs` | - | theorems about `Hub`, `Ingest`, `WebSocketServer`, and `Server`, alone and under `Dashboard` |
| `DroneRegistryProofs` | - | theorems about `DroneRegistry` and `RestAPI` |
| `ReplayProofs` | - | theorems about `Mavlink` and `Replay`, with the line and both senders |
| `Dashboard` | `cmd/tui/main.go` | a dashboard that connects to `Server`, which it extends |
| `MC...` | - | constants for TLC where a `.cfg` cannot write them |

State and actions follow the code: an action is the code between two points where
another goroutine can come in (a lock taken or released, a channel operation, a
`select`), and carries the name of the function or of the goroutine and what it
does there. What stands between a `Lock` and its `Unlock` is one step unless the
code blocks or may panic inside; then the lock is a part of the state (the hub's
read lock during a broadcast, `outbox` while `ProcessEvent` emits, the WebSocket
server's read lock while it visits clients). A deferred `Put`, `Unlock` or `cancel`
is part of the step that returns. Definitions that begin with `Mut` are mutated
forms of the definition after them, used to show that a property notices the bug.

- **`TokenBucket`**: `BuildBucket`, `LoadOrStore`, `ReadClock` and `CheckRateLimit`
  are the four points of `checkRateLimit` between which workers interleave. Tokens
  are exact numbers: `float64` rounding is not modelled. The clock is the wall clock, as
  `time.Now().UnixNano()` is: it moves on (`Tick`) and may be set back to any time
  (`SetBack`). `top` is the latest time it has shown, a history variable, and so are
  `born`, `admitted` and `mark`.
- **`Hub`**: `hub` is the place of the loop and the subscribers still to be served in
  the current broadcast; `client` is what each subscriber's owner does. Keys are built
  as `Subscribe` builds them, with `string(rune(id))` as an operator whose values may
  coincide (`RuneErrors`). A client may leave (`Leave`, `Unsubscribe`) or close its channel
  (`Closers`), which only tests of the repository do, or read until its context is done and
  then stop without a word (`Servants`, `Quit`), as the one subscriber of the server does,
  the WebSocket broadcast loop (`websocket.go:204-207`). `DropModes` says which values of `drop_on_slow_subscriber`
  a behaviour may begin with; `HubBlock` is the send that waits (`hub.at`).
- **`DroneRegistry`**: payloads are `heartbeat`, `gps`, `battery`, `attitude` or `raw`,
  and short or not; a short one is a typed nil pointer. `newest`, `overtaken`,
  `emitted` and `mirror` are history variables. Event times lie at most `MaxDelay`
  behind the clock and may arrive in any order. A position is known by the time it was
  decoded (`NoFix`: none), and a history entry by the time of its event.
- **`RestAPI`**: a handler that answers from one accessor is an operator over the state,
  whose value is the set of replies a map range may lead to. `handleDroneStats` is an
  actor with two steps, `StatsFind` under the lock and `StatsReply` without it, because
  the clone it works on shares the history (`request`).
- **`Ingest`**: a packet is a number with a class, the network it comes from and what
  the decoder makes of it; `content` says which packet a
  buffer holds, `pooled` how often it lies in the pool. `crashed` is a panic that
  nothing recovers. The rate limiter may reject any packet.
- **`Mavlink`**: `Send` builds the real bytes with the simulator's builders,
  `FlipBit` and `Truncate` are the line, `Receive` is `DecodePacket`. Senders may also
  cut trailing zeros, as MAVLink 2 allows. The checksum is the constant `Checksum`, so that
  the module can be reasoned about; TLC is given `crcCalculate` of `Crc`.
- **`Replay`**: `Flight` is the generator's loop over its ticks, `Capture` the bytes it
  writes, `Offset` where each record begins. `file` holds its bytes as the tool finds
  them: cut to any size (`CutTo`), or with one length field replaced (`Misreads`);
  `recorded` and `damage` are history variables. `tool` is the place of the one
  goroutine; `Open`, `Interrupted`, `ReadRecord`, `ReadFails` (an error other than the end of the
  file, which ends the tool even with `-loop`), `Write` and `NextPass` are the points between
  which a signal may arrive. Altitudes of the generator are in decimetres.
- **`WebSocketServer`**: `handler`, `reader` and `writer` are the three goroutines of
  a connection, `loop` is the broadcast loop and the client it is at. `raced` and
  `late` are history variables.
- **`Server`**: a component is its goroutine, `"running"` until the context or its done
  channel ends it. The packets between the socket and the telemetry channel, and the
  panics inside components, are those of the other modules. `cfg` holds the settings that
  decide whether a goroutine can work, as 0 (it cannot be used: an interval or a number of
  workers that is not positive, a size that is negative) or 1; `Load` merges the file
  over the defaults and the flag over both, and nothing validates them. A negative
  `subscriber_buffer_size` panics in `main` (`SubscribeFails`), a negative
  `packet_queue_size` or `read_buffer_size` in the listener's goroutines (`UDPPanics`). A ticker
  of a non-positive interval panics and its loop is begun again for ever (`Ticks`). `ReadStats`
  reads one component's counters at a time, for the health handler and for `printStats`.
- **`Dashboard`**: `dash` is the place of its commands. A dial returns when the handshake is
  answered (`Connect`), which is before the server has put the client on its map
  (`Register`): a batch in between is not for it. At `max_clients` the answer is 503
  (`ErrorShown`); whether the other clients, among them the connections the dashboard lost
  and never closed, are that many is a nondeterministic choice while there are any
  (`served`). A connection may break at any time (`ConnectionBreaks`). As in the code the
  model that `Update` returns has no connection, so the dashboard comes to rest once it has
  shown one message.

## 3. What the runs check

All pass runs set `CHECK_DEADLOCK FALSE` where the system comes to rest: the bounds
run out, or the components have shut down.

| Run | Bounds | Shows |
|---|---|---|
| `ring_buffer` | capacity 3, enough pushes to wrap more than twice | `LastIsSuffix`: `Last(n)` is the tail of all pushes; `ImplementsWindow`: refinement of `HistoryWindow` |
| `token_bucket` | two workers, a second of two ticks, a clock that shows 0 to 3 and is set back any number of times | `AdmissionBound` and `WindowBound`: burst plus rate, over the life of a bucket and over any window; `DebtIsPaid`: what a stale reading or a clock set back took away is there again once the clock shows its latest time again; `NoisyAtMostOncePerSecond` |
| `hub` | both drop modes, two subscribers of one name, three events, buffers of one, one client that may unsubscribe and call `Close`, one that quits with its context | `NoSilentLoss`: each event not delivered is counted, or hit by a panic; `PanicsNeedClose`; `EverySubscriberReachable`: in the map, or its channel is closed, also after `Stop`; `ImplementsFeed`: refinement of `LossyFeed`; `UnsubscribeReturns`, `StopEndsReaders`: unless a blocking send waits for a client that has stopped reading (`Stuck`) |
| `registry` | two components of one system id, three events, a channel of one, a stats request at a time | `AlertsMatchState`: alerts alternate and add up to the state and to `Stats`; `MirrorIsCurrent`: a reader of all updates holds the registry's state; `HistoryInOrder` and `OnlyOvertakenMisjudged`: only an event applied after a newer one can disorder the history or make the checker disconnect a drone heard of recently; `TrackEndsAtPosition`: export and track agree, up to the choice of a component; `StatsHangTogether`: more history than messages only if an event came between the reads; `SilentIsNoticed` |
| `ingest` | two workers, two packets of all classes, a whitelist with an entry that is no network, queues of one | `BuffersHeldOnce`, `PacketsAccounted`, `EventsAreOwn`: one event at most of each packet, and none of a malformed or a foreign one, however buffers are reused; `ShutdownReturns`, also when the socket cannot be bound |
| `mavlink` | five messages, eight drones at the limits, one damage per frame; a capture of five records around the third second of the flight, of any size, or with one length of seven damaged values | `FramesRoundTrip`: values, flight mode included; `DamageIsDetected` (every single bit, every cut, every fragment of the capture), `CrcIsStandard` (against division by the polynomial), `ReplaysInOrder`, `ReplayEnds` |
| `websocket` | two connections, a limit of one, two broadcasts, any number of subscriptions | `LimitUnlessRaced`, `MessagesFollowFilters`, `OnlyClientsGetMessages`, `DepartedAreRemoved`, `StopReturnsUnlessLate` |
| `server` | two packets, a channel of one, a file that may give a broadcast interval of zero and any of three negative sizes, a number of workers on the command line or not, a dashboard | `EventsHandledOnce`: every event is waiting, dropped, or taken by exactly one consumer; `PanicsHaveACause`: signalled and shutting down, or a negative size where it is used; `HealthAddsUp`: never more handled than received; `ShutdownEnds`; `DashboardGetsThrough`: while the server listens and serves nobody, a failed attempt is followed by one that connects, and a registered dashboard gets the next batch |

A stats request in `registry` may begin at any time, with updates waiting or dropped, as
there always are in the server once the first drone was heard of, since nobody reads its updates; that `dropped` is a
Boolean and no count only makes the run smaller. The `server` run leaves the stale check
interval at its default: that it may be zero too is covered by the theorems about
`Server`. The violation runs of `Server` leave out what they are not about: the file, and for
`server_shutdown` the packets, which makes them smaller.

Why the bounds are enough to be of interest: every channel can be full and empty, two
workers or clients can be at every pair of places, the ring wraps, the history
evicts, and each retry, panic and shutdown happens with something in flight. Where a
run has two of something, the code treats them alike and no step involves three.
The two workers of `token_bucket` are symmetric for TLC (`MCTokenBucket.cfg`); no other run uses
symmetry. `DamageIsDetected` is the one property that depends on the values
chosen: a bit that shortens the length byte makes the decoder compare the checksum with two
bytes of the payload, which for some other drone may agree (section 5).

Four runs show a disagreement between the code and what it says of itself.

- `server_startup` (`HealthReplaced`). `main` registers `/api/health` a second time
  (`cmd/server/main.go:146,177`; first in `internal/broadcast/websocket.go:104`). The
  comment at `main.go:169` says this replaces the handler; `http.ServeMux` panics. With
  `MuxReplaces = FALSE`, the real mux, `main` ends there. The runs about the rest of
  `main` assume `MuxReplaces = TRUE`: what happens once this is corrected.
- `server_shutdown` (`ShutdownIsGraceful`). `wsServer.Start` and `main` both call
  `wsServer.Stop`; the second `close(ws.done)` panics. By default `Start` is first, at
  once, and `main` second, after the shutdown timeout, so that the hub and the registry
  are not stopped and no statistics are printed.
- `server_consumers` (`EachEventReachesBoth`). The event processor and the hub compete
  for the same channel, so that the registry and the subscribers each see a part of the
  traffic. It is a liveness property under `FairSpec`; the counterexample ends with
  every goroutine waiting.
- `ingest_shutdown` (`ShutdownIsGraceful`). `packetChan` is closed before the receiver
  has ended; a datagram just read is then sent on a closed channel.

Further disagreements came up while modelling. Each is within what the modules
describe, and none has a run of its own:

- A payload shorter than its message, which MAVLink 2 produces by cutting trailing
  zeros (a position with a heading below 2.56 degrees), is decoded to a typed nil
  pointer, and `ProcessEvent` reads through it for a heartbeat or a position: a panic,
  recovered by its caller, after half the state was written. `Mavlink` (`Trimmed`,
  `NilPayload`) and `DroneRegistry` (`Panics`) both model it; `FramesRoundTrip` states
  the nil payload and the `registry` run includes the panics.
- Without `drop_on_slow_subscriber`, a client that has stopped reading and calls
  `Unsubscribe` deadlocks with the broadcast that waits for it, and with it `Stop`. In the
  server, whose one subscriber never unsubscribes, the same befalls `hub.Stop`: that
  subscriber stops reading as soon as the context is done (`websocket.go:204-207`), and a hub that
  is sending to its full channel by then waits for ever (`Stuck` in `Hub`, the
  exception of the two liveness properties, is both).
- The rate limiter's clock is the wall clock (`udp.go:391,408`): when it is set back, the
  next message takes the tokens of all that time away, and even a drone that had a full bucket may get
  nothing through for almost as long (`DebtIsPaid` says that it lasts no longer).
- `LoadFile` validates nothing (`config.go:134-148`). A negative `packet_queue_size`,
  `read_buffer_size` or `subscriber_buffer_size` ends the server in a panic before anybody
  signalled it (`PanicsHaveACause` names the cause).
- A dashboard is connected before the server has registered it (`websocket.go:285,303`) and misses
  what is broadcast in between; the connections it lost but never closed count
  against `max_clients` until a ping fails, so that it may be refused meanwhile.
- A name that equals another name, an underscore and a rune takes that subscriber's
  key (`hub.go:102`); the run uses one name.
- `GetHistory` takes the first component of a system id in map order, which may have an
  empty history although another has one (`manager.go:247`).
- A worker's `select` may take the cancelled context although packets wait, so the queue
  is not drained at shutdown (`udp.go:321`).
- The payload of an unknown message is a slice of a pooled buffer that is put back
  while the event waits (`parser.go:225`, `udp.go:336`). Nothing reads it afterwards.
- A client that registers after `Stop` has cancelled the others keeps `Stop` waiting
  (`StopReturnsUnlessLate` names the exception), and overlapping handshakes exceed
  `max_clients` (`LimitUnlessRaced`).
- `main` goes on waiting for a signal when the UDP socket cannot be bound
  (`main.go:105-110`).
- A whitelist whose entries are all invalid admits every source (`udp.go:65-71,181`).
- An interval of zero or less makes `time.NewTicker` panic; the panic is recovered and
  the loop begun again without a look at the context (`manager.go:284-305`,
  `websocket.go:176-197`). `manager.Stop` or `wsServer.Stop` then waits for ever;
  `ShutdownEnds` holds all the same, because the second `close(ws.done)` ends the
  process. Once that is corrected it will not.
- Only an event the hub takes makes the broadcast loop send; one the event processor takes
  changes the registry and no client hears of it until the next (`websocket.go:209-219`).
- The dashboard shows one message and no more: `connectCmd` stores the connection in a copy
  of the model, so that `readCmd` finds none (`tui/main.go:137-163`), although
  `tui/main.go:2` promises "a live table". `Dashboard` models it so.
- A drone that disconnected is exported with the others, although `export.go:20` says
  "all active drones".
- A drone that is known but has no history is answered "drone not found"
  (`history.go:59-61`, `export.go:104-107`); `manager.go:242` says that `GetHistory`
  returns nil if the drone is not found.
- Not in any model: the listener's `parse_errors` are never counted (`udp.go:38,210`); a
  replay pause of ten seconds or more is not taken, so that a very slow replay is faster
  than the recording (`replay/main.go:153`); the generated flight climbs to 45 m, not the
  50 m of its comment, and a capture of the default 60 seconds never lands
  (`generate.go:49-69`, `replay/main.go:27`); the ground speed of a global position lacks its square root
  (`parser.go:266`), the event types of a subscription are stored and never read
  (`websocket.go:47`), the updates channel of the registry has no reader in `main`
  (`main.go:85`), and no code updates the Prometheus collectors.

## 4. Fairness

Safety is checked without fairness. Liveness assumes weak fairness of goroutines: a
goroutine that can go on eventually does, which Go's scheduler gives. In particular:

- `Hub`, `Ingest`: weak fairness of each goroutine's steps together, so a `select` with
  two ready cases is not assumed to take either one.
- `Hub`: a subscriber that reads goes on reading until its channel is closed
  (`Consume`, `SeeClosed`), or it leaves or quits, which it may do at any time at which the code
  lets it: `StopEndsReaders` promises the end only to those that go on. A call
  of `Unsubscribe` gets the write lock in the end (strong fairness): Go's `RWMutex` lets
  no new reader pass a waiting writer, so that the lock is free between two broadcasts.
- `Ingest`: the receiver's read has a deadline of its own (`udp.go:152`), hence a
  step is always possible while it reads.
- `DroneRegistry`: strong fairness of the stale check, whose ticker fires for ever and
  whose turn at the mutex does come (Go's mutex hands over to a waiter that starves),
  although it is only enabled between events.
- `WebSocketServer`: weak fairness of all goroutine steps taken together, which is less
  than of each. Within the bounds no goroutine can go on for ever, so that together is
  enough.
- `Replay`: weak fairness of the tool's goroutine, and the line, which holds one datagram,
  is free again and again (`[]<>(wire = <<>>)`). This is weak fairness of the receiver,
  said without `ENABLED`, which TLC cannot evaluate cheaply over frames.
- `Server`: weak fairness of each goroutine. The goroutines the WebSocket server waits
  for are not assumed to end, because a late client may keep one alive, and the listener
  returns for certain only once it is shut down. The hub's goroutine is taken to end with
  the context, as it does unless it is `Stuck`; `ShutdownEnds` does not depend on this (TLC finds it
  true without fairness of the hub as well), since the second `close(ws.done)` comes first.
- `Dashboard`: its commands return (a dial, a read, a wait of two seconds).

Apart from those readers, clients, peers, senders, signals and the context's
cancellation are never assumed to act.

## 5. What is proved

Every safety invariant and every action property that the passing runs check is also
proved, for all values of the constants, but for `CrcIsStandard`, and for `DamageIsDetected`,
which is proved in part (below, and under "Only model-checked"). Each proof follows the same plan: an inductive invariant `IInv`, a conjunction of named parts,
holds at first (`InitIInv`), is kept by each action (one lemma per action, one step per
part), and implies the property.

| Module | Theorem | States |
|---|---|---|
| `RingBufferProofs` | `TypeCorrect`, `LastCorrect`, `Implements` | `TypeOK`, `LastIsSuffix`, `ImplementsWindow` |
| `TokenBucketProofs` | `TypeCorrect`, `AdmissionBounded`, `WindowBounded`, `DebtPaid`, `NoisySpacing` | `TypeOK`, `AdmissionBound`, `WindowBound`, `DebtIsPaid`, `NoisyAtMostOncePerSecond` |
| `HubProofs` | `TypeCorrect`, `LossCounted`, `PanicsExplained`, `Implements`, `Reachable` | `TypeOK`, `NoSilentLoss`, `PanicsNeedClose`, `ImplementsFeed`, `EverySubscriberReachable` |
| `IngestProofs` | `TypeCorrect`, `HeldOnce`, `Accounted`, `Own`, `OnlyLateSendsPanic`, `StopsClean`, `NothingOutlives` | `TypeOK`, `BuffersHeldOnce`, `PacketsAccounted`, `EventsAreOwn`; how `Start` shuts down: where it may panic, what it leaves, that nothing goes on |
| `WebSocketProofs` | `TypeCorrect`, `LimitKept`, `ClientsOnly`, `FiltersFollowed` | `TypeOK`, `LimitUnlessRaced`, `OnlyClientsGetMessages`, `MessagesFollowFilters` |
| `ServerProofs` | `TypeCorrect`, `HandledOnce`, `ReportsAddUp`, `PanicsPlaced`, `PanicsWait`, `PanicsAwaitSignal`, `NeverServes`, `ExitsInTurn` | `TypeOK`, `EventsHandledOnce`, `HealthAddsUp`, `PanicsHaveACause` but for the registration, `PanicsHaveACause`, no panic before a signal, `main` never waits; what has ended when `main` exits. Each with and without a dashboard |
| `DroneRegistryProofs` | `TypeCorrect`, `AlertsAddUp`, `MirrorCurrent`, `JudgedRightly`, `HistoriesInOrder`, `TracksEnd`, `RepliesHangTogether` | `TypeOK`, `AlertsMatchState`, `MirrorIsCurrent`, `OnlyOvertakenMisjudged`, `HistoryInOrder`, `TrackEndsAtPosition`, `StatsHangTogether` |
| `ReplayProofs` | `Typing`, `RoundTrip`, `InOrder`, `DamageDetected` | `TypeOK` of `Mavlink`, `FramesRoundTrip`, `ReplaysInOrder`, `DamageIsDetected` for a datagram of the simulator whose length byte did not shrink |

The proofs assume what the modules assume of their constants. That the workers, the
connections and the drones are finitely many is among it, and true of any process;
capacities, limits, thresholds and the bounds on events are any natural numbers (a
positive one where the code needs it), so that what holds for every bound holds for
behaviours of any length. Some theorems have a hypothesis of their own:

- `Reachable` assumes `KeysDistinct`: the keys that `Subscribe` would build from different
  ids differ from each other and from the names. Without it the property is false, as
  section 3 says. `OneNameDistinct` shows that one name, which is all the server uses,
  satisfies it as long as `rune` tells the ids apart.
- `PanicsWait` assumes `MuxReplaces` and `NeverServes` its negation: the first is about
  what happens once the second registration of the health handler is corrected, the
  second says that until then the server never waits for a signal, with any
  configuration. `PanicsPlaced` holds for both. `PanicsAwaitSignal` assumes, besides `MuxReplaces`,
  that the file gives none of the three sizes: then a panic waits for a signal, whatever the
  intervals and the number of workers are.
- The theorems of `ReplayProofs` assume `SixteenBits`: the checksum of bytes is a number of
  16 bits, as `uint16` is (`crc.go:35`). `DamageDetected` also assumes `FindsOneByte`: bytes
  that differ in one place have different checksums. TLC checks what makes `crcCalculate`
  satisfy it: `RegistersStayApart` (in `MCMavlink`) says that the entries of the published
  table differ in their high bytes, so that a byte that differs leaves the register
  different and no later byte makes registers alike again; `CrcIsStandard` connects the
  table with the code.

### Why the invariants are as they are

**History.** The invariant relates the buffer to the sequence of all pushes: the count is
the smaller of the capacity and the number of pushes, the head is that number modulo
the capacity, and slot `i` holds the latest push whose number is `i` modulo the
capacity. `LastIsSuffix` alone is not inductive, since it says nothing about the slots
outside the answer. `RingBufferProofs` reads the buffer backwards from its head instead
(`Recent(b, i)`, the `i`-th most recent entry): a push makes the new entry the first and
moves the others one place back (`PushIs`), and `LastN` is a list of them (`LastNIs`).
All arithmetic with `%` is there. The registry's proofs use these lemmas with its
`HistorySize` by INSTANCE and never look at an index.

**Rate limiter.** The workers' clock readings are no later than the latest time the
clock has shown (`WorkerTimes`), so do the times in the bucket (`BucketTimes`), nothing is charged before
there is a bucket (`Unused`), tokens never exceed the burst (`Capped`), and the tokens
left plus those spent never exceed the burst plus what the time since the first reading
refilled (`Balance`). `Balance` is the heart: a stale reading, or one of a clock set back, moves `lastTime` back and
takes tokens away in the same amount, so that the sum telescopes. `Covered`,
`NoisySpaced` and `MarkBalance` do the same for debt, for the noisy-drone window and for a
window that begins at any moment.

**Hub.** The argument is the read lock: from `HubRLock` to the end of a broadcast the map
cannot change (`WhileSending`), so that whoever is still to be visited is registered. An
event is newer than all that a subscriber not yet visited was given (`Newer`), which gives
the order of the feeds; each subscriber is behind by the events since it joined, less the
one in flight and the panics (`Balanced`); an id that was not issued has left no trace
(`Unissued`). `Implements` maps every step of the hub to a step of `LossyFeed` or a
stutter: `StopClose` closes feeds as `Unsubscribe` does; locks, drops and panics are
stutters.

**Ingestion.** A buffer that was made is somewhere (`NoneLost`) and nowhere else
(`NoneShared`, with `Once` and `Apart` for the queue and the workers): this is what makes
it sound that the receiver writes into a buffer it took. The packets in buffers that
somebody still needs are distinct, not delivered, and passed the checks before the place
they are at (`Holding`). `PacketsAccounted` is inductive together with these. `Shutdown` says what each
place of `Start` implies about the channel, the receiver and the workers. From it follows
that the panic of `ingest_shutdown` is the only one: it takes a datagram that was read
before the socket was closed and is queued after the channel was. If it does not happen,
nothing is left unaccounted when `Start` returns.

**WebSocket server.** While a broadcast visits the clients its list is within the map
(`Visiting`). The message that is put together lies between what all and what any of the
filters seen so far ask for, and the filter in force is among them (`Picking`): a new
subscription adds a filter to those seen. As long as no handshakes overlapped, the one in
flight still has the room it found (`Room`).

**Server.** Every event produced is in one place (`Placed`). A report reads the counters
in the opposite order to the events' way through the pipeline: what it has added up after
two of them was handled by then, and so was received before it reads the third
(`Reports`). `Ordered` says what the context and the done channel imply about the place of
`main` and of `Start`. `Exiting` follows `main` through its shutdown: what it waited for has
ended, and from its `Stop` on the goroutine of `wsServer.Start` cannot move without the
second `close(ws.done)`. So `ExitsInTurn`: a process that exits in order is one in which that
goroutine got no turn during the whole shutdown timeout, which makes `server_shutdown` the
rule and not the exception. A dashboard is, to the server, a client that comes at any time
(`DashboardSteps`), so that all theorems also hold of `DashSpec`, which the `server` run
checks.

**Registry.** `ProcessEvent` collects its updates and emits them afterwards, so that
between its steps the alerts lag behind the state. `Balanced` counts those that wait
(`OutboxDistinct`: at most one of a kind and drone). `Current` says where the reader's copy
catches up: from some update on, in the channel or the outbox, all that comes about a drone
is its state. `LastHeard` and `Ordered` hold of drones no event of which was overtaken;
`Tracked` connects the state with the newest entry of the history and with its length.
`Summed` says that the messages of the known drones add up to the events applied. `Stats`
computes this and the alerts' total with folds, whose value the community modules define
recursively through `CHOOSE`. The module proves about them what it needs: that such a sum
exists, may be taken in any order, and grows by the element that is added (`SumExists`,
`SumAnyOrder`, `SumAdd`). Induction is stated for a set of naturals (`NatSetInduction`, from
the well-foundedness of `<`), because the library's theorem takes an operator, which the
provers cannot instantiate. The REST handlers change nothing of the registry
(`RegistryUnderAPI`: `APISpec => Spec`), so that its invariant serves them too.

**Frames.** A byte sequence is put together with `Cat` and read with `Holds(s, k, t)`, "s has
t behind its first k bytes", both kept folded: the lemmas about them are the only ones that
index. `FrameLayout` says what the decoder finds in a frame built from any payload, one
lemma per message that its payload `Describes` the drone, for either builder, and
`Answer` what follows for a full and for a cut one. `RoundTrip` then needs only `InFlight`: an
undamaged datagram on the line is decoded to what its sender meant.

**Replay.** The capture is its records one behind the other, `Offset(k)` bytes before the
k-th; cutting it leaves a number of records in full (`Intact`) and then too little to go on
(`EndsAt`), and a replaced length leaves the records before it (`FileInv`). The tool stands at
the record behind the last one it wrote (`AtRecord`) as long as the records are intact or
the file was only cut. Behind a damaged length field nothing is said: it may read a
fragment as a record, and the line's checks have to reject it.

**Damage.** What the line made of a frame (`Exposed`) does not parse, or is a message without
a payload that is decoded, or has a smaller length byte. A bit turned over in the start
byte, in a longer length, in the checksum or in what it covers is told apart by
`FindsOneByte`; in the message id it leads to none of the messages with a decoded payload
(`IDsFarApart`), so that the payload stays raw, whether the decoder has a seed for that id or
does not look at the checksum.

### Only model-checked

- All liveness properties (`SilentIsNoticed`, `ShutdownReturns`, `UnsubscribeReturns`,
  `StopEndsReaders`, `DepartedAreRemoved`, `StopReturnsUnlessLate`, `ShutdownEnds`,
  `DashboardGetsThrough`, `ReplayEnds`), which are beyond the prover.
- `CrcIsStandard`: what `crcCalculate` computes is bit arithmetic over data, with `Bitwise`,
  which the prover cannot load.
- `DamageIsDetected` beyond `DamageDetected`: a length byte that shrank, and the fragments that
  the tool sends of a capture with a damaged length. Both compare the checksum with two
  bytes that belong to something else, so that the property is no theorem for every drone
  and every flight; 16 bits agree by chance. The run shows it for its drones and its flight.
- The four disagreements of section 3, each shown by its counterexample.
  `NeverServes` is the proved side of `server_startup`.

## 6. Not modelled

- Formatting and logging: JSON, GeoJSON and KML bodies, the dashboard's rendering and its
  quit key, YAML syntax, log levels, the dispatch of REST paths.
- Metrics: no code updates the collectors, and nothing waits for the metrics server.
- The simulator's flight: floating-point movement and phases that only choose which values
  are sent. `Mavlink` sends the limits of each field instead. Floating-point rounding is
  nowhere modelled.
- Time where only its order matters: pauses of the replay, deadlines and timeouts are the
  nondeterministic choice of what happens first.
- Of the registry: source addresses and heartbeat times, which nothing reads back, and
  accessors without a caller (`GetState`, `GetAllStates`, `GetConnectedCount`).
- Of the WebSocket server: a panic in the broadcast loop that is no ticker's, which would
  need a nil client, and event type filters, which are never read.
- Address arithmetic of CIDR ranges, which is `net`'s: a packet is of a network.

## 7. Plan

The state machines and the safety properties are complete as far as this code goes; what
would be worth adding follows from changes of it:

1. Once `main` and `wsServer.Start` no longer both call `Stop`, and the second registration of
   the health handler is gone: `ShutdownIsGraceful` as a property that holds, and a look at
   a ticker that spins (section 3), which then keeps the process from ending.
2. Once `packetChan` is closed after the receiver has returned: `~crashed` in place of
   `OnlyLateSendsPanic`.
3. Once the hub or the event processor feeds the other: `EachEventReachesBoth`, and with it the
   composition of `Hub` and `DroneRegistry` over one stream of events.
