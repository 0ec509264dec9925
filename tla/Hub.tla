--------------------------------- MODULE Hub ---------------------------------
(***************************************************************************)
(* The fan-out hub (internal/pubsub/hub.go): one goroutine receives events *)
(* from the input channel and sends each to every registered subscriber,   *)
(* while clients subscribe, read, unsubscribe, and Stop shuts it down.     *)
(*                                                                         *)
(* The hub holds the read lock of mu from the first to the last send of a  *)
(* broadcast (hub.pc = "sending"); Subscribe, Unsubscribe and the last     *)
(* part of Stop hold the write lock throughout, so each is one step that   *)
(* waits for the broadcast to end.  Events are numbered in the order the   *)
(* input channel yields them.                                              *)
(***************************************************************************)
EXTENDS Integers, Sequences, FiniteSets

CONSTANTS
  Names,         (* the names clients subscribe under, as sequences       *)
  RuneErrors,    (* the ids that are no valid rune                          *)
  BufferSize,    (* SubscriberBufferSize                                  *)
  DropModes,     (* the values DropOnSlowSubscriber may be configured to  *)
  Closers,       (* the ids whose clients may call Close themselves         *)
  Servants,      (* the ids whose clients read until the context is done    *)
  MaxSubs,       (* bound on the calls of Subscribe                       *)
  MaxEvents      (* bound on the events of the input channel              *)

ASSUME HubAssumption ==
  /\ BufferSize \in Nat \ {0}
  /\ DropModes \subseteq BOOLEAN
  /\ MaxSubs \in Nat
  /\ MaxEvents \in Nat

Ids == 1 .. MaxSubs
Events == 1 .. MaxEvents

VARIABLES
  hub,          (* the run goroutine: its place, the subscribers still to
                   visit, the one a blocking send waits for (0: none), and
                   the DropOnSlowSubscriber it was built with             *)
  subscribers,  (* map[string]*Subscriber: from keys to ids               *)
  nextID,       (* ids issued so far                                      *)
  queue,        (* what the channel of each subscriber holds              *)
  closed,       (* the subscribers whose channel is closed                *)
  client,       (* what the goroutine behind each subscriber does         *)
  inputClosed, ctxDone, done,  (* the channels that end the run loop      *)
  stop,         (* the place of Stop                                      *)
  received,     (* eventsReceived: also the number of the latest event    *)
  dropped,      (* the dropped counter of each subscriber                 *)
  panics,       (* panics recovered by runLoop                            *)
  direct,       (* history: the subscribers whose clients called Close    *)
  begun,        (* history: broadcasts that took the lock                 *)
  joinedAt,     (* history: begun when the subscriber joined              *)
  given,        (* history: how many events each channel was sent         *)
  newest        (* history: the newest of them                            *)

channels == <<queue, closed>>
signals == <<inputClosed, ctxDone, done>>
history == <<direct, begun, joinedAt, given, newest>>
vars == <<hub, subscribers, nextID, channels, client, signals, stop, received,
          dropped, panics, history>>

Registered == {subscribers[k] : k \in DOMAIN subscribers}

(* The write lock of mu is free. *)
Unlocked == hub.pc # "sending"

Init ==
  /\ hub \in [pc : {"select"}, todo : {{}}, at : {0}, drop : DropModes]
  /\ subscribers = <<>>
  /\ nextID = 0
  /\ queue = [i \in Ids |-> <<>>]
  /\ closed = {}
  /\ client = [i \in Ids |-> "none"]
  /\ inputClosed = FALSE /\ ctxDone = FALSE /\ done = FALSE
  /\ stop = "idle"
  /\ received = 0
  /\ dropped = [i \in Ids |-> 0]
  /\ panics = 0
  /\ direct = {}
  /\ begun = 0
  /\ joinedAt = [i \in Ids |-> 0]
  /\ given = [i \in Ids |-> 0]
  /\ newest = [i \in Ids |-> 0]
-----------------------------------------------------------------------------
(* The run goroutine.                                                      *)

(* The select takes an event; eventsReceived is counted before the lock.   *)
HubReceive ==
  /\ hub.pc = "select"
  /\ ~inputClosed
  /\ received < MaxEvents
  /\ received' = received + 1
  /\ hub' = [hub EXCEPT !.pc = "rlock"]
  /\ UNCHANGED <<subscribers, nextID, channels, client, signals, stop, dropped,
                 panics, history>>

HubRLock ==
  /\ hub.pc = "rlock"
  /\ hub' = [hub EXCEPT !.pc = "sending", !.todo = Registered]
  /\ begun' = begun + 1
  /\ UNCHANGED <<subscribers, nextID, channels, client, signals, stop, received,
                 dropped, panics, direct, joinedAt, given, newest>>

(* The loop over the map is at i: at a subscriber not yet visited, or at   *)
(* the one a blocking send is waiting for.                                 *)
Visits(i) == hub.pc = "sending" /\ i \in hub.todo /\ hub.at \in {0, i}

Sent(i) ==
  /\ queue' = [queue EXCEPT ![i] = Append(@, received)]
  /\ given' = [given EXCEPT ![i] = @ + 1]
  /\ newest' = [newest EXCEPT ![i] = received]
  /\ hub' = [hub EXCEPT !.todo = @ \ {i}, !.at = 0]
  /\ UNCHANGED <<dropped, panics>>

(* Mutant: the send does not look whether the channel is full. *)
MutHubSendOverfills(i) ==
  /\ Visits(i)
  /\ i \notin closed
  /\ Sent(i)
  /\ UNCHANGED <<subscribers, nextID, closed, client, signals, stop, received,
                 direct, begun, joinedAt>>

(* A send that finds room (hub.go:188-189, 196-197). *)
HubSend(i) ==
  /\ Visits(i)
  /\ i \notin closed
  /\ Len(queue[i]) < BufferSize
  /\ Sent(i)
  /\ UNCHANGED <<subscribers, nextID, closed, client, signals, stop, received,
                 direct, begun, joinedAt>>

(* Mutant: the option is read the wrong way round. *)
MutHubDropInverted(i) ==
  /\ ~hub.drop
  /\ Visits(i)
  /\ i \notin closed
  /\ Len(queue[i]) >= BufferSize
  /\ dropped' = [dropped EXCEPT ![i] = @ + 1]
  /\ hub' = [hub EXCEPT !.todo = @ \ {i}]
  /\ UNCHANGED <<subscribers, nextID, channels, client, signals, stop, received,
                 panics, history>>

(* Mutant: the drop is not counted. *)
MutHubDropUncounted(i) ==
  /\ hub.drop
  /\ Visits(i)
  /\ i \notin closed
  /\ Len(queue[i]) >= BufferSize
  /\ hub' = [hub EXCEPT !.todo = @ \ {i}]
  /\ UNCHANGED <<subscribers, nextID, channels, client, signals, stop, received,
                 dropped, panics, history>>

(* The channel is full: in drop mode the event is lost for this subscriber *)
(* and counted.                                                            *)
HubDrop(i) ==
  /\ hub.drop
  /\ Visits(i)
  /\ i \notin closed
  /\ Len(queue[i]) >= BufferSize
  /\ dropped' = [dropped EXCEPT ![i] = @ + 1]
  /\ hub' = [hub EXCEPT !.todo = @ \ {i}]
  /\ UNCHANGED <<subscribers, nextID, channels, client, signals, stop, received,
                 panics, history>>

(* The channel is full and drop mode is off: the send waits for this       *)
(* subscriber, with the read lock held and the later ones unserved.        *)
HubBlock(i) ==
  /\ ~hub.drop
  /\ Visits(i) /\ hub.at = 0
  /\ i \notin closed
  /\ Len(queue[i]) >= BufferSize
  /\ hub' = [hub EXCEPT !.at = i]
  /\ UNCHANGED <<subscribers, nextID, channels, client, signals, stop, received,
                 dropped, panics, history>>

(* Sending on a closed channel panics: the deferred RUnlock frees the      *)
(* lock, runLoop recovers and run starts it again; the subscribers not yet *)
(* visited never get the event (hub.go:140-159, 182).                      *)
HubPanic(i) ==
  /\ Visits(i)
  /\ i \in closed
  /\ panics' = panics + 1
  /\ hub' = [hub EXCEPT !.pc = "select", !.todo = {}, !.at = 0]
  /\ UNCHANGED <<subscribers, nextID, channels, client, signals, stop, received,
                 dropped, history>>

HubRUnlock ==
  /\ hub.pc = "sending" /\ hub.todo = {}
  /\ hub' = [hub EXCEPT !.pc = "select"]
  /\ UNCHANGED <<subscribers, nextID, channels, client, signals, stop, received,
                 dropped, panics, history>>

(* The select takes ctx.Done, done or the closed input. *)
HubReturn ==
  /\ hub.pc = "select"
  /\ ctxDone \/ done \/ inputClosed
  /\ hub' = [hub EXCEPT !.pc = "returned"]
  /\ UNCHANGED <<subscribers, nextID, channels, client, signals, stop, received,
                 dropped, panics, history>>
-----------------------------------------------------------------------------
(* Clients.                                                                *)

(* string(rune(id)): an id that is no valid rune gives U+FFFD, or 65533. *)
Rune(id) == IF id \in RuneErrors THEN 65533 ELSE id

(* Mutant: two subscribers of one name share its key. *)
MutKeyForName(name, id) == name

(* The key a new subscriber is stored under (hub.go:99-103). *)
KeyFor(name, id) ==
  IF name \in DOMAIN subscribers THEN name \o <<"_", Rune(id)>> ELSE name

Subscribe(name) ==
  /\ Unlocked
  /\ nextID < MaxSubs
  /\ nextID' = nextID + 1
  /\ LET key == KeyFor(name, nextID')
     IN  subscribers' = [k \in DOMAIN subscribers \cup {key} |->
                           IF k = key THEN nextID' ELSE subscribers[k]]
  /\ client' = [client EXCEPT ![nextID'] = "reading"]
  /\ joinedAt' = [joinedAt EXCEPT ![nextID'] = begun]
  /\ UNCHANGED <<hub, channels, signals, stop, received, dropped, panics, direct,
                 begun, given, newest>>

(* A client takes the next event of its channel. *)
Consume(i) ==
  /\ client[i] = "reading"
  /\ queue[i] # <<>>
  /\ queue' = [queue EXCEPT ![i] = Tail(@)]
  /\ UNCHANGED <<hub, subscribers, nextID, closed, client, signals, stop,
                 received, dropped, panics, history>>

(* A client finds its channel closed and drained: its loop ends. *)
SeeClosed(i) ==
  /\ client[i] = "reading"
  /\ queue[i] = <<>> /\ i \in closed
  /\ client' = [client EXCEPT ![i] = "gone"]
  /\ UNCHANGED <<hub, subscribers, nextID, channels, signals, stop, received,
                 dropped, panics, history>>

(* Any other client may stop reading and call Unsubscribe. *)
Leave(i) ==
  /\ i \notin Servants
  /\ client[i] = "reading"
  /\ client' = [client EXCEPT ![i] = "leaving"]
  /\ UNCHANGED <<hub, subscribers, nextID, channels, signals, stop, received,
                 dropped, panics, history>>

(* A client that serves a context stops reading when the context is done,  *)
(* and never unsubscribes: so the one subscriber of this code, the         *)
(* broadcast loop of the WebSocket server.  (It also stops on ws.done,     *)
(* which is closed only after the context is done.)                        *)
Quit(i) ==
  /\ i \in Servants
  /\ ctxDone
  /\ client[i] = "reading"
  /\ client' = [client EXCEPT ![i] = "quit"]
  /\ UNCHANGED <<hub, subscribers, nextID, channels, signals, stop, received,
                 dropped, panics, history>>

(* Mutant: the channel is closed but the map entry stays. *)
MutUnsubscribeKeepsEntry(i) ==
  /\ client[i] = "leaving"
  /\ Unlocked
  /\ closed' = IF i \in Registered THEN closed \cup {i} ELSE closed
  /\ client' = [client EXCEPT ![i] = "gone"]
  /\ UNCHANGED <<hub, subscribers, nextID, queue, signals, stop, received,
                 dropped, panics, history>>

(* Unsubscribe deletes the entry that holds the id and closes its channel; *)
(* when no entry does, it does nothing.                                    *)
Unsubscribe(i) ==
  /\ client[i] = "leaving"
  /\ Unlocked
  /\ subscribers' = [k \in {l \in DOMAIN subscribers : subscribers[l] # i} |->
                       subscribers[k]]
  /\ closed' = IF i \in Registered THEN closed \cup {i} ELSE closed
  /\ client' = [client EXCEPT ![i] = "gone"]
  /\ UNCHANGED <<hub, nextID, queue, signals, stop, received, dropped, panics,
                 history>>

(* Subscriber.Close, which a client may call on its own (hub.go:257-263). *)
CloseSubscriber(i) ==
  /\ i \in Closers
  /\ client[i] = "reading" /\ i \notin closed
  /\ closed' = closed \cup {i}
  /\ direct' = direct \cup {i}
  /\ UNCHANGED <<hub, subscribers, nextID, queue, client, signals, stop,
                 received, dropped, panics, begun, joinedAt, given, newest>>
-----------------------------------------------------------------------------
(* Shutdown.                                                               *)

CancelContext ==
  /\ ~ctxDone
  /\ ctxDone' = TRUE
  /\ UNCHANGED <<hub, subscribers, nextID, channels, client, inputClosed, done,
                 stop, received, dropped, panics, history>>

CloseInput ==
  /\ ~inputClosed
  /\ inputClosed' = TRUE
  /\ UNCHANGED <<hub, subscribers, nextID, channels, client, ctxDone, done,
                 stop, received, dropped, panics, history>>

StopSignal ==
  /\ stop = "idle"
  /\ done' = TRUE
  /\ stop' = "waiting"
  /\ UNCHANGED <<hub, subscribers, nextID, channels, client, inputClosed,
                 ctxDone, received, dropped, panics, history>>

(* wg.Wait returns once the run goroutine has. *)
StopWaited ==
  /\ stop = "waiting"
  /\ hub.pc = "returned"
  /\ stop' = "closing"
  /\ UNCHANGED <<hub, subscribers, nextID, channels, client, signals, received,
                 dropped, panics, history>>

(* Mutant: the map is emptied without closing the channels. *)
MutStopCloseForgets ==
  /\ stop = "closing"
  /\ subscribers' = <<>>
  /\ stop' = "stopped"
  /\ UNCHANGED <<hub, nextID, channels, client, signals, received, dropped,
                 panics, history>>

StopClose ==
  /\ stop = "closing"
  /\ closed' = closed \cup Registered
  /\ subscribers' = <<>>
  /\ stop' = "stopped"
  /\ UNCHANGED <<hub, nextID, queue, client, signals, received, dropped, panics,
                 history>>
-----------------------------------------------------------------------------
HubStep ==
  \/ HubReceive \/ HubRLock \/ HubRUnlock \/ HubReturn
  \/ \E i \in Ids : HubSend(i) \/ HubDrop(i) \/ HubBlock(i) \/ HubPanic(i)

StopStep == StopWaited \/ StopClose

Next ==
  \/ HubStep
  \/ \E name \in Names : Subscribe(name)
  \/ \E i \in Ids : \/ Consume(i) \/ SeeClosed(i)
                    \/ Leave(i) \/ Unsubscribe(i) \/ CloseSubscriber(i)
                    \/ Quit(i)
  \/ CancelContext \/ CloseInput
  \/ StopSignal \/ StopStep

Spec == Init /\ [][Next]_vars

(* The goroutines that are running keep running; a client that reads keeps *)
(* reading until it leaves or quits.  Nobody has to subscribe, leave, quit *)
(* or stop.                                                                *)
FairSpec ==
  /\ Spec
  /\ WF_vars(HubStep)
  /\ WF_vars(StopStep)
  /\ \A i \in Ids :
       WF_vars(Consume(i) \/ SeeClosed(i)) /\ SF_vars(Unsubscribe(i))
-----------------------------------------------------------------------------
Feed == INSTANCE LossyFeed WITH
          Feeds <- Ids, Capacity <- BufferSize, opened <- 1 .. nextID

(* Types of the variables. *)
TypeOK ==
  /\ hub \in [pc : {"select", "rlock", "sending", "returned"},
              todo : SUBSET Ids, at : {0} \cup Ids, drop : DropModes]
  /\ \A k \in DOMAIN subscribers : subscribers[k] \in 1 .. nextID
  /\ nextID \in 0 .. MaxSubs
  /\ queue \in [Ids -> Seq(Events)]
  /\ \A i \in Ids : Len(queue[i]) <= BufferSize
  /\ closed \subseteq Ids
  /\ client \in [Ids -> {"none", "reading", "leaving", "quit", "gone"}]
  /\ inputClosed \in BOOLEAN /\ ctxDone \in BOOLEAN /\ done \in BOOLEAN
  /\ stop \in {"idle", "waiting", "closing", "stopped"}
  /\ received \in 0 .. MaxEvents
  /\ dropped \in [Ids -> Nat]
  /\ panics \in Nat
  /\ direct \subseteq closed
  /\ begun \in 0 .. MaxEvents
  /\ joinedAt \in [Ids -> Nat]
  /\ given \in [Ids -> Nat]
  /\ newest \in [Ids -> Nat]

(* Every broadcast reaches every registered subscriber as a send or as a   *)
(* counted drop, also when it is subscribed between the receipt of the     *)
(* event and the lock (hub.go:179-181); a panic loses at most the event it *)
(* interrupted (hub.go:150-159).                                           *)
NoSilentLoss ==
  \A i \in Registered :
    LET due == begun - joinedAt[i] - (IF i \in hub.todo THEN 1 ELSE 0)
    IN  given[i] + dropped[i] \in due - panics .. due

(* Only a client that closes its subscriber itself, while it is in the     *)
(* map, makes a broadcast send on a closed channel: what Unsubscribe and   *)
(* Stop close has left the map under the same lock (hub.go:114-130, 73-78).*)
PanicsNeedClose ==
  /\ panics > 0 => direct # {}
  /\ Registered \cap closed \subseteq direct

(* A client that has not left can always be reached: it is in the map (no  *)
(* later Subscribe takes its place, hub.go:99 "Use ID as map key to allow  *)
(* multiple subscribers with same name"), or its channel was closed; also  *)
(* when it has stopped reading without a word.  A Subscribe after Stop is  *)
(* in the fresh map, where only its own Unsubscribe finds it.              *)
EverySubscriberReachable ==
  \A i \in Ids :
    client[i] \in {"reading", "leaving", "quit"} => i \in Registered \cup closed

(* The hub gives each subscriber a bounded in-order lossy feed that closes *)
(* once, in either mode (hub.go:16-24).                                    *)
ImplementsFeed == Feed!Spec

(* A blocking send holds the read lock for a subscriber that has stopped   *)
(* reading: one that itself waits for the write lock, or one that has quit *)
(* at the end of its context.                                              *)
Stuck == hub.at # 0 /\ client[hub.at] \in {"leaving", "quit"}

(* Unsubscribe (hub.go:114 "removes a subscriber") returns, for every      *)
(* client, unless drop mode is off and a client stopped reading while the  *)
(* hub was sending to it (hub.go:194-197 "Blocking send - can cause        *)
(* backpressure").                                                         *)
UnsubscribeReturns ==
  \A i \in Ids : client[i] = "leaving" ~> client[i] = "gone" \/ Stuck

(* Stop (hub.go:67 "gracefully shuts down the hub") returns with the same  *)
(* exception, and every client that subscribed before it returned sees the *)
(* end of its channel, unless it has left or quit on its own: no reader    *)
(* that goes on reading waits for ever.                                    *)
StopEndsReaders ==
  \A i \in Ids :
    stop = "waiting" ~>
      Stuck \/ (stop = "stopped" /\ client[i] \in {"none", "quit", "gone"})
=============================================================================
