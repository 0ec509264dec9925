------------------------------ MODULE HubProofs ------------------------------
(***************************************************************************)
(* Theorems about the fan-out hub, for every set of names, buffer size,    *)
(* number of subscribers and number of events, in both drop modes.         *)
(*                                                                         *)
(* The argument rests on the read lock: from HubRLock to the end of a      *)
(* broadcast the map cannot change (WhileSending), so whatever is still to *)
(* be visited is registered, and an event is newer than all that a         *)
(* subscriber not yet visited was given (Newer).  An id that was not       *)
(* issued has no trace anywhere (Unissued), which is what a subscriber     *)
(* starts from.                                                            *)
(***************************************************************************)
EXTENDS Hub, SequenceTheorems, TLAPS

(* The map and the list of those to visit, while a broadcast runs. *)
WhileSending ==
  /\ hub.todo \subseteq Registered
  /\ hub.pc # "sending" => hub.todo = {} /\ hub.at = 0
  /\ hub.at # 0 => hub.at \in hub.todo /\ ~hub.drop
  /\ stop \in {"closing", "stopped"} => hub.pc = "returned"

(* Every event received is broadcast but the one that waits for the lock. *)
Broadcasts ==
  /\ hub.pc = "rlock" => received = begun + 1
  /\ hub.pc # "rlock" => received = begun
  /\ \A i \in Ids : joinedAt[i] <= begun

Unissued ==
  \A i \in Ids :
    i > nextID =>
      /\ client[i] = "none"
      /\ i \notin closed
      /\ given[i] = 0 /\ dropped[i] = 0 /\ newest[i] = 0

(* The event being broadcast is newer than what a subscriber was given. *)
Newer ==
  \A i \in Ids :
    /\ newest[i] <= received
    /\ hub.pc = "rlock" \/ i \in hub.todo => newest[i] < received

(* NoSilentLoss, as two inequations over integers. *)
Due(i) == begun - joinedAt[i] - (IF i \in hub.todo THEN 1 ELSE 0)

Balanced ==
  \A i \in Registered :
    /\ given[i] + dropped[i] <= Due(i)
    /\ Due(i) <= given[i] + dropped[i] + panics

(* The parts of TypeOK. *)
HubType ==
  hub \in [pc : {"select", "rlock", "sending", "returned"},
           todo : SUBSET Ids, at : {0} \cup Ids, drop : DropModes]

MapType ==
  /\ \A k \in DOMAIN subscribers : subscribers[k] \in 1 .. nextID
  /\ nextID \in 0 .. MaxSubs

QueueType ==
  /\ queue \in [Ids -> Seq(Events)]
  /\ \A i \in Ids : Len(queue[i]) <= BufferSize

ClientType ==
  /\ closed \subseteq Ids /\ direct \subseteq closed
  /\ client \in [Ids -> {"none", "reading", "leaving", "quit", "gone"}]

SignalType ==
  /\ inputClosed \in BOOLEAN /\ ctxDone \in BOOLEAN /\ done \in BOOLEAN
  /\ stop \in {"idle", "waiting", "closing", "stopped"}

CountType ==
  /\ received \in 0 .. MaxEvents /\ begun \in 0 .. MaxEvents /\ panics \in Nat
  /\ dropped \in [Ids -> Nat] /\ given \in [Ids -> Nat]
  /\ joinedAt \in [Ids -> Nat] /\ newest \in [Ids -> Nat]

Typed ==
  HubType /\ MapType /\ QueueType /\ ClientType /\ SignalType /\ CountType

IInv ==
  /\ Typed
  /\ WhileSending
  /\ Broadcasts
  /\ Unissued
  /\ Newer
  /\ Balanced
  /\ PanicsNeedClose
-----------------------------------------------------------------------------
USE HubAssumption DEF Ids, Events

LEMMA TypedIsTypeOK == Typed <=> TypeOK
BY DEF Typed, HubType, MapType, QueueType, ClientType, SignalType, CountType, TypeOK

LEMMA InitIInv == Init => IInv
<1> SUFFICES ASSUME Init PROVE IInv
  OBVIOUS
<1> USE DEF Init
<1>1. Registered = {}
  BY DEF Registered
<1>2. HubType /\ MapType
  BY DEF HubType, MapType
<1>3. QueueType /\ ClientType
  BY DEF QueueType, ClientType
<1>4. SignalType
  BY DEF SignalType
<1>5. CountType
  BY DEF CountType
<1>6. WhileSending /\ Broadcasts /\ Unissued /\ Newer
  BY <1>1 DEF WhileSending, Broadcasts, Unissued, Newer
<1>7. Balanced /\ PanicsNeedClose
  BY <1>1 DEF Balanced, PanicsNeedClose
<1> HIDE DEF Init
<1> QED  BY <1>2, <1>3, <1>4, <1>5, <1>6, <1>7 DEF IInv, Typed

(* The subscribers in the map were issued their ids. *)
LEMMA RegisteredIssued == MapType => Registered \subseteq 1 .. nextID
BY DEF MapType, Registered

LEMMA HubReceiveIInv == ASSUME IInv, HubReceive PROVE IInv'
<1> USE DEF IInv, Typed, HubReceive, channels, signals, history
<1>1. Registered' = Registered
  BY DEF Registered
<1>2. HubType' /\ MapType' /\ QueueType'
  BY DEF HubType, MapType, QueueType
<1>3. ClientType' /\ SignalType' /\ CountType'
  BY DEF ClientType, SignalType, CountType
<1>4. WhileSending' /\ Broadcasts' /\ Unissued' /\ Newer'
  BY <1>1 DEF HubType, CountType, WhileSending, Broadcasts, Unissued, Newer
<1>5. Balanced' /\ PanicsNeedClose'
  BY <1>1 DEF HubType, Balanced, Due, PanicsNeedClose
<1> QED  BY <1>2, <1>3, <1>4, <1>5

(* From here on every registered subscriber is due one more event. *)
LEMMA HubRLockIInv == ASSUME IInv, HubRLock PROVE IInv'
<1> USE DEF IInv, Typed, HubRLock, channels, signals
<1>1. Registered' = Registered /\ Registered \subseteq Ids
  BY RegisteredIssued DEF Registered, MapType
<1>2. HubType' /\ MapType' /\ QueueType'
  BY <1>1 DEF HubType, MapType, QueueType
<1>3. ClientType' /\ SignalType' /\ CountType'
  BY DEF ClientType, SignalType, CountType, Broadcasts
<1>4. WhileSending' /\ Broadcasts' /\ Unissued' /\ Newer'
  BY <1>1 DEF HubType, CountType, WhileSending, Broadcasts, Unissued, Newer
<1>5. Balanced'
  <2> SUFFICES ASSUME NEW j \in Registered
               PROVE  /\ given[j] + dropped[j] <= Due(j)'
                      /\ Due(j)' <= given[j] + dropped[j] + panics
    BY <1>1 DEF Balanced
  <2>1. begun \in Nat /\ joinedAt[j] \in Nat
    BY <1>1 DEF CountType
  <2>2. begun' = begun + 1 /\ joinedAt' = joinedAt /\ j \in hub'.todo /\ j \notin hub.todo
    BY <1>1 DEF HubType, WhileSending
  <2>3. Due(j)' = Due(j)
    BY <2>1, <2>2 DEF Due
  <2> QED  BY <2>3 DEF Balanced
<1>6. PanicsNeedClose'
  BY <1>1 DEF PanicsNeedClose
<1> QED  BY <1>2, <1>3, <1>4, <1>5, <1>6

(* The subscriber gets the event it was due. *)
LEMMA HubSendIInv ==
  ASSUME IInv, NEW i \in Ids, HubSend(i)
  PROVE  IInv'
<1> USE DEF IInv, Typed, HubSend, Visits, Sent, signals
<1>1. /\ Registered' = Registered
      /\ Registered \subseteq 1 .. nextID
      /\ i \in Registered /\ nextID \in 0 .. MaxSubs
      /\ hub'.todo = hub.todo \ {i} /\ hub'.at = 0 /\ hub'.pc = "sending"
  BY RegisteredIssued DEF Registered, MapType, HubType, WhileSending
<1>2. HubType' /\ MapType'
  BY <1>1 DEF HubType, MapType
<1>3. QueueType'
  <2>1. queue[i] \in Seq(Events) /\ received \in Events
    BY DEF QueueType, CountType, Newer
  <2>2. Append(queue[i], received) \in Seq(Events)
        /\ Len(Append(queue[i], received)) = Len(queue[i]) + 1
    BY <2>1
  <2>3. Len(queue[i]) \in Nat
    BY <2>1
  <2> QED  BY <2>2, <2>3 DEF QueueType
<1>4. ClientType' /\ SignalType' /\ CountType'
  <2>1. ClientType' /\ SignalType'
    BY DEF ClientType, SignalType
  <2>2. given' \in [Ids -> Nat] /\ newest' \in [Ids -> Nat]
    BY DEF CountType
  <2> QED  BY <2>1, <2>2 DEF CountType
<1>5. WhileSending' /\ Broadcasts'
  BY <1>1 DEF WhileSending, Broadcasts
<1>6. Unissued'
  BY <1>1 DEF CountType, Unissued
<1>7. Newer'
  <2>1. \A j \in Ids : newest'[j] = IF j = i THEN received ELSE newest[j]
    BY DEF CountType
  <2>2. received' = received /\ received \in Nat
    BY DEF CountType
  <2> QED  BY <1>1, <2>1, <2>2 DEF Newer
<1>8. Balanced'
  <2> SUFFICES ASSUME NEW j \in Registered
               PROVE  /\ given'[j] + dropped[j] <= Due(j)'
                      /\ Due(j)' <= given'[j] + dropped[j] + panics
    BY <1>1 DEF Balanced
  <2>1. /\ given[j] \in Nat /\ dropped[j] \in Nat /\ joinedAt[j] \in Nat
        /\ begun \in Nat /\ panics \in Nat
        /\ given'[j] = IF j = i THEN given[j] + 1 ELSE given[j]
    BY <1>1 DEF CountType
  <2>2. /\ given[j] + dropped[j] <= Due(j)
        /\ Due(j) <= given[j] + dropped[j] + panics
    BY DEF Balanced
  <2>3. /\ joinedAt' = joinedAt /\ begun' = begun
        /\ j \in hub'.todo <=> j \in hub.todo /\ j # i
    BY <1>1
  <2>4. i \in hub.todo
    OBVIOUS
  <2> HIDE DEF IInv, HubSend, HubDrop
  <2>5. CASE j = i
    BY <2>1, <2>2, <2>3, <2>4, <2>5 DEF Due
  <2>6. CASE j # i
    BY <2>1, <2>2, <2>3, <2>6 DEF Due
  <2> QED  BY <2>5, <2>6
<1>9. PanicsNeedClose'
  BY <1>1 DEF HubType, MapType, ClientType, WhileSending, Unissued, PanicsNeedClose
<1> QED  BY <1>2, <1>3, <1>4, <1>5, <1>6, <1>7, <1>8, <1>9

(* The drop is counted in place of the event. *)
LEMMA HubDropIInv ==
  ASSUME IInv, NEW i \in Ids, HubDrop(i)
  PROVE  IInv'
<1> USE DEF IInv, Typed, HubDrop, Visits, channels, signals, history
<1>1. /\ Registered' = Registered
      /\ Registered \subseteq 1 .. nextID
      /\ i \in Registered /\ nextID \in 0 .. MaxSubs
      /\ hub'.todo = hub.todo \ {i} /\ hub'.pc = "sending" /\ hub'.at \in {0, i}
      /\ hub'.at = hub.at
  BY RegisteredIssued DEF Registered, MapType, HubType, WhileSending
<1>2. HubType' /\ MapType' /\ QueueType'
  BY <1>1 DEF HubType, MapType, QueueType
<1>3. ClientType' /\ SignalType' /\ CountType'
  <2>1. ClientType' /\ SignalType'
    BY DEF ClientType, SignalType
  <2>2. dropped' \in [Ids -> Nat]
    BY DEF CountType
  <2> QED  BY <2>1, <2>2 DEF CountType
<1>4. WhileSending' /\ Broadcasts'
  BY <1>1 DEF WhileSending, Broadcasts
<1>5. Unissued'
  BY <1>1 DEF CountType, Unissued
<1>6. Newer'
  BY <1>1 DEF CountType, Newer
<1>7. Balanced'
  <2> SUFFICES ASSUME NEW j \in Registered
               PROVE  /\ given[j] + dropped'[j] <= Due(j)'
                      /\ Due(j)' <= given[j] + dropped'[j] + panics
    BY <1>1 DEF Balanced
  <2>1. /\ given[j] \in Nat /\ dropped[j] \in Nat /\ joinedAt[j] \in Nat
        /\ begun \in Nat /\ panics \in Nat
        /\ dropped'[j] = IF j = i THEN dropped[j] + 1 ELSE dropped[j]
    BY <1>1 DEF CountType
  <2>2. /\ given[j] + dropped[j] <= Due(j)
        /\ Due(j) <= given[j] + dropped[j] + panics
    BY DEF Balanced
  <2>3. /\ joinedAt' = joinedAt /\ begun' = begun
        /\ j \in hub'.todo <=> j \in hub.todo /\ j # i
    BY <1>1
  <2>4. i \in hub.todo
    OBVIOUS
  <2> HIDE DEF IInv, HubSend, HubDrop
  <2>5. CASE j = i
    BY <2>1, <2>2, <2>3, <2>4, <2>5 DEF Due
  <2>6. CASE j # i
    BY <2>1, <2>2, <2>3, <2>6 DEF Due
  <2> QED  BY <2>5, <2>6
<1>8. PanicsNeedClose'
  BY <1>1 DEF HubType, MapType, ClientType, WhileSending, Unissued, PanicsNeedClose
<1> QED  BY <1>2, <1>3, <1>4, <1>5, <1>6, <1>7, <1>8

LEMMA HubBlockIInv ==
  ASSUME IInv, NEW i \in Ids, HubBlock(i)
  PROVE  IInv'
<1> USE DEF IInv, Typed, HubBlock, Visits, channels, signals, history
<1>1. Registered' = Registered /\ Registered \subseteq Ids
  BY RegisteredIssued DEF Registered, MapType
<1>2. HubType' /\ MapType' /\ QueueType'
  BY <1>1 DEF HubType, MapType, QueueType
<1>3. ClientType' /\ SignalType' /\ CountType'
  BY DEF ClientType, SignalType, CountType
<1>4. WhileSending' /\ Broadcasts' /\ Unissued' /\ Newer'
  BY <1>1
     DEF HubType, MapType, ClientType, CountType, WhileSending, Broadcasts, Unissued, Newer
<1>5. Balanced'
  BY <1>1 DEF HubType, MapType, CountType, WhileSending, Unissued, Balanced, Due
<1>6. PanicsNeedClose'
  BY <1>1 DEF HubType, MapType, ClientType, WhileSending, Unissued, PanicsNeedClose
<1> QED  BY <1>2, <1>3, <1>4, <1>5, <1>6

(* Those not yet visited lose the event, and the panic accounts for it. *)
LEMMA HubPanicIInv ==
  ASSUME IInv, NEW i \in Ids, HubPanic(i)
  PROVE  IInv'
<1> USE DEF IInv, Typed, HubPanic, Visits, channels, signals, history
<1>1. Registered' = Registered /\ Registered \subseteq Ids
  BY RegisteredIssued DEF Registered, MapType
<1>2. HubType' /\ MapType' /\ QueueType'
  BY <1>1 DEF HubType, MapType, QueueType
<1>3. ClientType' /\ SignalType' /\ CountType'
  BY DEF ClientType, SignalType, CountType
<1>4. WhileSending' /\ Broadcasts' /\ Unissued' /\ Newer'
  BY <1>1
     DEF HubType, MapType, ClientType, CountType, WhileSending, Broadcasts, Unissued, Newer
<1>5. Balanced'
  <2> SUFFICES ASSUME NEW j \in Registered
               PROVE  /\ given[j] + dropped[j] <= Due(j)'
                      /\ Due(j)' <= given[j] + dropped[j] + panics'
    BY <1>1 DEF Balanced
  <2>1. /\ given[j] \in Nat /\ dropped[j] \in Nat /\ joinedAt[j] \in Nat
        /\ begun \in Nat /\ panics \in Nat
    BY <1>1 DEF CountType
  <2>2. /\ given[j] + dropped[j] <= Due(j)
        /\ Due(j) <= given[j] + dropped[j] + panics
    BY DEF Balanced
  <2>3. /\ joinedAt' = joinedAt /\ begun' = begun /\ panics' = panics + 1
        /\ hub'.todo = {}
    BY DEF HubType
  <2>4. (j \in hub.todo \/ i \in hub.todo) => given[j] + dropped[j] <= Due(j)
    BY <2>2
  <2> HIDE DEF IInv, HubPanic
  <2> QED  BY <2>1, <2>2, <2>3 DEF Due
<1>6. PanicsNeedClose'
  BY <1>1 DEF HubType, MapType, ClientType, WhileSending, Unissued, PanicsNeedClose
<1> QED  BY <1>2, <1>3, <1>4, <1>5, <1>6

LEMMA HubRUnlockIInv == ASSUME IInv, HubRUnlock PROVE IInv'
<1> USE DEF IInv, Typed, HubRUnlock, channels, signals, history
<1>1. Registered' = Registered /\ Registered \subseteq Ids
  BY RegisteredIssued DEF Registered, MapType
<1>2. HubType' /\ MapType' /\ QueueType'
  BY <1>1 DEF HubType, MapType, QueueType
<1>3. ClientType' /\ SignalType' /\ CountType'
  BY DEF ClientType, SignalType, CountType
<1>4. WhileSending' /\ Broadcasts' /\ Unissued' /\ Newer'
  BY <1>1
     DEF HubType, MapType, ClientType, CountType, WhileSending, Broadcasts, Unissued, Newer
<1>5. Balanced'
  BY <1>1 DEF HubType, MapType, CountType, WhileSending, Unissued, Balanced, Due
<1>6. PanicsNeedClose'
  BY <1>1 DEF HubType, MapType, ClientType, WhileSending, Unissued, PanicsNeedClose
<1> QED  BY <1>2, <1>3, <1>4, <1>5, <1>6

LEMMA HubReturnIInv == ASSUME IInv, HubReturn PROVE IInv'
<1> USE DEF IInv, Typed, HubReturn, channels, signals, history
<1>1. Registered' = Registered /\ Registered \subseteq Ids
  BY RegisteredIssued DEF Registered, MapType
<1>2. HubType' /\ MapType' /\ QueueType'
  BY <1>1 DEF HubType, MapType, QueueType
<1>3. ClientType' /\ SignalType' /\ CountType'
  BY DEF ClientType, SignalType, CountType
<1>4. WhileSending' /\ Broadcasts' /\ Unissued' /\ Newer'
  BY <1>1
     DEF HubType, MapType, ClientType, CountType, WhileSending, Broadcasts, Unissued, Newer
<1>5. Balanced'
  BY <1>1 DEF HubType, MapType, CountType, WhileSending, Unissued, Balanced, Due
<1>6. PanicsNeedClose'
  BY <1>1 DEF HubType, MapType, ClientType, WhileSending, Unissued, PanicsNeedClose
<1> QED  BY <1>2, <1>3, <1>4, <1>5, <1>6
-----------------------------------------------------------------------------

LEMMA SubscribeIInv ==
  ASSUME IInv, NEW name, Subscribe(name)
  PROVE  IInv'
<1> USE DEF IInv, Typed, Subscribe, channels, signals
<1> DEFINE id == nextID + 1
<1>1. /\ Registered \subseteq 1 .. nextID
      /\ Registered' \subseteq Registered \cup {id}
      /\ nextID' = id /\ id \in Ids /\ nextID \in Nat
      /\ hub.todo = {} /\ hub.pc # "sending"
  <2>1. Registered \subseteq 1 .. nextID
    BY RegisteredIssued
  <2>2. nextID' = id /\ id \in Ids /\ nextID \in Nat
    BY DEF MapType
  <2>3. hub.todo = {} /\ hub.pc # "sending"
    BY DEF Unlocked, WhileSending
  <2>4. Registered' \subseteq Registered \cup {id}
    BY Zenon DEF Registered
  <2> QED  BY <2>1, <2>2, <2>3, <2>4
<1>2. HubType' /\ QueueType'
  BY DEF HubType, QueueType
<1>3. MapType'
  <2>1. \A k \in DOMAIN subscribers' : subscribers'[k] = id \/ subscribers'[k] \in 1 .. nextID
    BY DEF MapType
  <2> QED  BY <1>1, <2>1 DEF MapType
<1>4. ClientType'
  BY <1>1 DEF ClientType
<1>5. CountType'
  <2>1. joinedAt' = [joinedAt EXCEPT ![id] = begun] /\ begun \in Nat
    BY <1>1 DEF CountType
  <2>2. joinedAt' \in [Ids -> Nat]
    BY <2>1 DEF CountType
  <2> QED  BY <2>2 DEF CountType
<1>6. SignalType'
  BY DEF SignalType
<1>7. WhileSending' /\ Broadcasts'
  BY <1>1 DEF CountType, WhileSending, Broadcasts
<1>8. Unissued' /\ Newer'
  BY <1>1 DEF ClientType, CountType, Unissued, Newer
<1>9. Balanced'
  <2> SUFFICES ASSUME NEW j \in Registered'
               PROVE  /\ given[j] + dropped[j] <= Due(j)'
                      /\ Due(j)' <= given[j] + dropped[j] + panics
    BY DEF Balanced
  <2>1. /\ given[j] \in Nat /\ dropped[j] \in Nat /\ joinedAt[j] \in Nat
        /\ begun \in Nat /\ panics \in Nat
    <3>1. j \in Ids
      BY <1>1
    <3>2. CountType
      OBVIOUS
    <3> HIDE DEF IInv, Typed, Subscribe, id
    <3> QED  BY <3>1, <3>2 DEF CountType
  <2>2. j # id => joinedAt'[j] = joinedAt[j] /\ j \in Registered
    <3>1. j # id => j \in Registered
      BY <1>1
    <3>2. j # id => joinedAt'[j] = joinedAt[j]
      BY <1>1, <3>1 DEF CountType
    <3> QED  BY <3>1, <3>2
  <2>3. j = id => joinedAt'[j] = begun /\ given[j] = 0 /\ dropped[j] = 0
    BY <1>1 DEF CountType, Unissued
  <2>4. hub'.todo = {} /\ hub.todo = {} /\ begun' = begun
    BY <1>1
  <2>5. j # id => /\ given[j] + dropped[j] <= Due(j)
                  /\ Due(j) <= given[j] + dropped[j] + panics
    BY <2>2 DEF Balanced
  <2> HIDE DEF IInv, Subscribe, id
  <2>6. CASE j = id
    BY <2>1, <2>3, <2>4, <2>6 DEF Due
  <2>7. CASE j # id
    BY <2>1, <2>2, <2>4, <2>5, <2>7 DEF Due
  <2> QED  BY <2>6, <2>7
<1>10. PanicsNeedClose'
  <2>1. id \notin closed
    BY <1>1 DEF Unissued
  <2>2. closed' = closed /\ direct' = direct /\ panics' = panics
    OBVIOUS
  <2> HIDE DEF Subscribe, id
  <2> QED  BY <1>1, <2>1, <2>2 DEF PanicsNeedClose
<1> QED  BY <1>2, <1>3, <1>4, <1>5, <1>6, <1>7, <1>8, <1>9, <1>10

LEMMA ConsumeIInv ==
  ASSUME IInv, NEW i \in Ids, Consume(i)
  PROVE  IInv'
<1> USE DEF IInv, Typed, Consume, channels, signals, history
<1>1. Registered' = Registered /\ Registered \subseteq Ids
  BY RegisteredIssued DEF Registered, MapType
<1>2. HubType' /\ MapType' /\ QueueType'
  BY <1>1 DEF HubType, MapType, QueueType
<1>3. ClientType' /\ SignalType' /\ CountType'
  BY DEF ClientType, SignalType, CountType
<1>4. WhileSending' /\ Broadcasts' /\ Unissued' /\ Newer'
  BY <1>1
     DEF HubType, MapType, ClientType, CountType, WhileSending, Broadcasts, Unissued, Newer
<1>5. Balanced'
  BY <1>1 DEF HubType, MapType, CountType, WhileSending, Unissued, Balanced, Due
<1>6. PanicsNeedClose'
  BY <1>1 DEF HubType, MapType, ClientType, WhileSending, Unissued, PanicsNeedClose
<1> QED  BY <1>2, <1>3, <1>4, <1>5, <1>6

LEMMA SeeClosedIInv ==
  ASSUME IInv, NEW i \in Ids, SeeClosed(i)
  PROVE  IInv'
<1> USE DEF IInv, Typed, SeeClosed, channels, signals, history
<1>1. Registered' = Registered /\ Registered \subseteq Ids
  BY RegisteredIssued DEF Registered, MapType
<1>2. HubType' /\ MapType' /\ QueueType'
  BY <1>1 DEF HubType, MapType, QueueType
<1>3. ClientType' /\ SignalType' /\ CountType'
  BY DEF ClientType, SignalType, CountType
<1>4. WhileSending' /\ Broadcasts' /\ Unissued' /\ Newer'
  BY <1>1
     DEF HubType, MapType, ClientType, CountType, WhileSending, Broadcasts, Unissued, Newer
<1>5. Balanced'
  BY <1>1 DEF HubType, MapType, CountType, WhileSending, Unissued, Balanced, Due
<1>6. PanicsNeedClose'
  BY <1>1 DEF HubType, MapType, ClientType, WhileSending, Unissued, PanicsNeedClose
<1> QED  BY <1>2, <1>3, <1>4, <1>5, <1>6

LEMMA LeaveIInv ==
  ASSUME IInv, NEW i \in Ids, Leave(i)
  PROVE  IInv'
<1> USE DEF IInv, Typed, Leave, channels, signals, history
<1>1. Registered' = Registered /\ Registered \subseteq Ids
  BY RegisteredIssued DEF Registered, MapType
<1>2. HubType' /\ MapType' /\ QueueType'
  BY <1>1 DEF HubType, MapType, QueueType
<1>3. ClientType' /\ SignalType' /\ CountType'
  BY DEF ClientType, SignalType, CountType
<1>4. WhileSending' /\ Broadcasts' /\ Unissued' /\ Newer'
  BY <1>1
     DEF HubType, MapType, ClientType, CountType, WhileSending, Broadcasts, Unissued, Newer
<1>5. Balanced'
  BY <1>1 DEF HubType, MapType, CountType, WhileSending, Unissued, Balanced, Due
<1>6. PanicsNeedClose'
  BY <1>1 DEF HubType, MapType, ClientType, WhileSending, Unissued, PanicsNeedClose
<1> QED  BY <1>2, <1>3, <1>4, <1>5, <1>6

LEMMA QuitIInv ==
  ASSUME IInv, NEW i \in Ids, Quit(i)
  PROVE  IInv'
<1> USE DEF IInv, Typed, Quit, channels, signals, history
<1>1. Registered' = Registered /\ Registered \subseteq Ids
  BY RegisteredIssued DEF Registered, MapType
<1>2. HubType' /\ MapType' /\ QueueType'
  BY <1>1 DEF HubType, MapType, QueueType
<1>3. ClientType' /\ SignalType' /\ CountType'
  BY DEF ClientType, SignalType, CountType
<1>4. WhileSending' /\ Broadcasts' /\ Unissued' /\ Newer'
  BY <1>1
     DEF HubType, MapType, ClientType, CountType, WhileSending, Broadcasts, Unissued, Newer
<1>5. Balanced'
  BY <1>1 DEF HubType, MapType, CountType, WhileSending, Unissued, Balanced, Due
<1>6. PanicsNeedClose'
  BY <1>1 DEF HubType, MapType, ClientType, WhileSending, Unissued, PanicsNeedClose
<1> QED  BY <1>2, <1>3, <1>4, <1>5, <1>6

LEMMA UnsubscribeIInv ==
  ASSUME IInv, NEW i \in Ids, Unsubscribe(i)
  PROVE  IInv'
<1> USE DEF IInv, Typed, Unsubscribe, channels, signals, history
<1>1. Registered' = Registered \ {i} /\ Registered' \subseteq Ids
      /\ hub.todo = {} /\ hub.pc # "sending"
  <2>1. Registered' = Registered \ {i}
    BY Zenon DEF Registered
  <2>2. Registered \subseteq Ids
    BY RegisteredIssued DEF MapType
  <2> QED  BY <2>1, <2>2 DEF Unlocked, WhileSending
<1>2. HubType' /\ MapType' /\ QueueType'
  BY <1>1 DEF HubType, MapType, QueueType
<1>3. ClientType' /\ SignalType' /\ CountType'
  BY DEF ClientType, SignalType, CountType
<1>4. WhileSending' /\ Broadcasts' /\ Unissued' /\ Newer'
  BY <1>1
     DEF HubType, MapType, ClientType, CountType, WhileSending, Broadcasts, Unissued, Newer
<1>5. Balanced'
  BY <1>1 DEF HubType, MapType, CountType, WhileSending, Unissued, Balanced, Due
<1>6. PanicsNeedClose'
  BY <1>1 DEF HubType, MapType, ClientType, WhileSending, Unissued, PanicsNeedClose
<1> QED  BY <1>2, <1>3, <1>4, <1>5, <1>6

LEMMA CloseSubscriberIInv ==
  ASSUME IInv, NEW i \in Ids, CloseSubscriber(i)
  PROVE  IInv'
<1> USE DEF IInv, Typed, CloseSubscriber, channels, signals, history
<1>1. Registered' = Registered /\ Registered \subseteq Ids
  BY RegisteredIssued DEF Registered, MapType
<1>2. HubType' /\ MapType' /\ QueueType'
  BY <1>1 DEF HubType, MapType, QueueType
<1>3. ClientType' /\ SignalType' /\ CountType'
  BY DEF ClientType, SignalType, CountType
<1>4. WhileSending' /\ Broadcasts' /\ Unissued' /\ Newer'
  BY <1>1
     DEF HubType, MapType, ClientType, CountType, WhileSending, Broadcasts, Unissued, Newer
<1>5. Balanced'
  BY <1>1 DEF HubType, MapType, CountType, WhileSending, Unissued, Balanced, Due
<1>6. PanicsNeedClose'
  BY <1>1 DEF HubType, MapType, ClientType, WhileSending, Unissued, PanicsNeedClose
<1> QED  BY <1>2, <1>3, <1>4, <1>5, <1>6

LEMMA CancelContextIInv == ASSUME IInv, CancelContext PROVE IInv'
<1> USE DEF IInv, Typed, CancelContext, channels, signals, history
<1>1. Registered' = Registered /\ Registered \subseteq Ids
  BY RegisteredIssued DEF Registered, MapType
<1>2. HubType' /\ MapType' /\ QueueType'
  BY <1>1 DEF HubType, MapType, QueueType
<1>3. ClientType' /\ SignalType' /\ CountType'
  BY DEF ClientType, SignalType, CountType
<1>4. WhileSending' /\ Broadcasts' /\ Unissued' /\ Newer'
  BY <1>1
     DEF HubType, MapType, ClientType, CountType, WhileSending, Broadcasts, Unissued, Newer
<1>5. Balanced'
  BY <1>1 DEF HubType, MapType, CountType, WhileSending, Unissued, Balanced, Due
<1>6. PanicsNeedClose'
  BY <1>1 DEF HubType, MapType, ClientType, WhileSending, Unissued, PanicsNeedClose
<1> QED  BY <1>2, <1>3, <1>4, <1>5, <1>6

LEMMA CloseInputIInv == ASSUME IInv, CloseInput PROVE IInv'
<1> USE DEF IInv, Typed, CloseInput, channels, signals, history
<1>1. Registered' = Registered /\ Registered \subseteq Ids
  BY RegisteredIssued DEF Registered, MapType
<1>2. HubType' /\ MapType' /\ QueueType'
  BY <1>1 DEF HubType, MapType, QueueType
<1>3. ClientType' /\ SignalType' /\ CountType'
  BY DEF ClientType, SignalType, CountType
<1>4. WhileSending' /\ Broadcasts' /\ Unissued' /\ Newer'
  BY <1>1
     DEF HubType, MapType, ClientType, CountType, WhileSending, Broadcasts, Unissued, Newer
<1>5. Balanced'
  BY <1>1 DEF HubType, MapType, CountType, WhileSending, Unissued, Balanced, Due
<1>6. PanicsNeedClose'
  BY <1>1 DEF HubType, MapType, ClientType, WhileSending, Unissued, PanicsNeedClose
<1> QED  BY <1>2, <1>3, <1>4, <1>5, <1>6

LEMMA StopSignalIInv == ASSUME IInv, StopSignal PROVE IInv'
<1> USE DEF IInv, Typed, StopSignal, channels, signals, history
<1>1. Registered' = Registered /\ Registered \subseteq Ids
  BY RegisteredIssued DEF Registered, MapType
<1>2. HubType' /\ MapType' /\ QueueType'
  BY <1>1 DEF HubType, MapType, QueueType
<1>3. ClientType' /\ SignalType' /\ CountType'
  BY DEF ClientType, SignalType, CountType
<1>4. WhileSending' /\ Broadcasts' /\ Unissued' /\ Newer'
  BY <1>1
     DEF HubType, MapType, ClientType, CountType, WhileSending, Broadcasts, Unissued, Newer
<1>5. Balanced'
  BY <1>1 DEF HubType, MapType, CountType, WhileSending, Unissued, Balanced, Due
<1>6. PanicsNeedClose'
  BY <1>1 DEF HubType, MapType, ClientType, WhileSending, Unissued, PanicsNeedClose
<1> QED  BY <1>2, <1>3, <1>4, <1>5, <1>6

LEMMA StopWaitedIInv == ASSUME IInv, StopWaited PROVE IInv'
<1> USE DEF IInv, Typed, StopWaited, channels, signals, history
<1>1. Registered' = Registered /\ Registered \subseteq Ids
  BY RegisteredIssued DEF Registered, MapType
<1>2. HubType' /\ MapType' /\ QueueType'
  BY <1>1 DEF HubType, MapType, QueueType
<1>3. ClientType' /\ SignalType' /\ CountType'
  BY DEF ClientType, SignalType, CountType
<1>4. WhileSending' /\ Broadcasts' /\ Unissued' /\ Newer'
  BY <1>1
     DEF HubType, MapType, ClientType, CountType, WhileSending, Broadcasts, Unissued, Newer
<1>5. Balanced'
  BY <1>1 DEF HubType, MapType, CountType, WhileSending, Unissued, Balanced, Due
<1>6. PanicsNeedClose'
  BY <1>1 DEF HubType, MapType, ClientType, WhileSending, Unissued, PanicsNeedClose
<1> QED  BY <1>2, <1>3, <1>4, <1>5, <1>6

LEMMA StopCloseIInv == ASSUME IInv, StopClose PROVE IInv'
<1> USE DEF IInv, Typed, StopClose, channels, signals, history
<1>1. Registered \subseteq 1 .. nextID /\ Registered' = {}
      /\ nextID \in 0 .. MaxSubs /\ hub.todo = {}
  <2>1. DOMAIN subscribers' = {}
    OBVIOUS
  <2> QED  BY <2>1, RegisteredIssued DEF Registered, MapType, WhileSending
<1>2. HubType' /\ MapType' /\ QueueType'
  BY <1>1 DEF HubType, MapType, QueueType
<1>3. ClientType' /\ CountType'
  <2>1. Registered \subseteq Ids
    BY <1>1
  <2>2. ClientType'
    BY <2>1 DEF ClientType
  <2>3. CountType'
    BY DEF CountType
  <2> QED  BY <2>2, <2>3
<1>4. SignalType'
  BY DEF SignalType
<1>5. WhileSending' /\ Broadcasts'
  BY <1>1 DEF WhileSending, Broadcasts
<1>6. Unissued' /\ Newer'
  BY <1>1 DEF Unissued, Newer
<1>7. Balanced'
  BY <1>1 DEF HubType, MapType, CountType, WhileSending, Unissued, Balanced, Due
<1>8. PanicsNeedClose'
  BY <1>1 DEF PanicsNeedClose
<1> QED  BY <1>2, <1>3, <1>4, <1>5, <1>6, <1>7, <1>8
-----------------------------------------------------------------------------
LEMMA NextIInv == IInv /\ [Next]_vars => IInv'
<1> SUFFICES ASSUME IInv, [Next]_vars PROVE IInv'
  OBVIOUS
<1>1. CASE HubReceive \/ HubRLock \/ HubRUnlock \/ HubReturn
  BY <1>1, HubReceiveIInv, HubRLockIInv, HubRUnlockIInv, HubReturnIInv
<1>2. ASSUME NEW i \in Ids, HubSend(i) \/ HubDrop(i) \/ HubBlock(i) \/ HubPanic(i)
      PROVE  IInv'
  BY <1>2, HubSendIInv, HubDropIInv, HubBlockIInv, HubPanicIInv
<1>3. ASSUME NEW name \in Names, Subscribe(name)
      PROVE  IInv'
  BY <1>3, SubscribeIInv
<1>4. ASSUME NEW i \in Ids, \/ Consume(i) \/ SeeClosed(i)
                             \/ Leave(i) \/ Unsubscribe(i) \/ CloseSubscriber(i)
                             \/ Quit(i)
      PROVE  IInv'
  BY <1>4, ConsumeIInv, SeeClosedIInv, LeaveIInv, UnsubscribeIInv, CloseSubscriberIInv,
     QuitIInv
<1>5. CASE CancelContext \/ CloseInput \/ StopSignal \/ StopStep
  BY <1>5, CancelContextIInv, CloseInputIInv, StopSignalIInv, StopWaitedIInv,
     StopCloseIInv DEF StopStep
<1>6. CASE UNCHANGED vars
  <2> USE <1>6 DEF IInv, vars, channels, signals, history
  <2>1. Registered' = Registered
    BY DEF Registered
  <2>2. Typed'
    <3>1. HubType' /\ MapType' /\ QueueType' /\ ClientType'
      BY DEF Typed, HubType, MapType, QueueType, ClientType
    <3>2. SignalType' /\ CountType'
      BY DEF Typed, SignalType, CountType
    <3> QED  BY <3>1, <3>2 DEF Typed
  <2>3. WhileSending' /\ Broadcasts' /\ Unissued' /\ Newer'
    BY <2>1 DEF WhileSending, Broadcasts, Unissued, Newer
  <2>4. Balanced' /\ PanicsNeedClose'
    BY <2>1 DEF Balanced, Due, PanicsNeedClose
  <2> QED  BY <2>2, <2>3, <2>4
<1> QED  BY <1>1, <1>2, <1>3, <1>4, <1>5, <1>6 DEF Next, HubStep, StopStep

LEMMA Invariance == Spec => []IInv
BY InitIInv, NextIInv, PTL DEF Spec

(* Hub.TypeOK: the hub keeps its types, and no channel holds more than its *)
(* buffer (hub.go:92-96, 186-198).                                         *)
THEOREM TypeCorrect == Spec => []TypeOK
<1>1. IInv => TypeOK
  BY TypedIsTypeOK DEF IInv
<1> QED  BY <1>1, Invariance, PTL

(* Hub.NoSilentLoss: a broadcast reaches every registered subscriber as a  *)
(* send or a counted drop, up to the panics (hub.go:140-201).              *)
THEOREM LossCounted == Spec => []NoSilentLoss
<1>1. ASSUME IInv PROVE NoSilentLoss
  <2> SUFFICES ASSUME NEW i \in Registered
               PROVE  given[i] + dropped[i] \in Due(i) - panics .. Due(i)
    BY DEF NoSilentLoss, Due
  <2>1. i \in Ids
    BY <1>1, RegisteredIssued DEF IInv, Typed, MapType
  <2>2. /\ given[i] \in Nat /\ dropped[i] \in Nat /\ joinedAt[i] \in Nat
        /\ begun \in Nat /\ panics \in Nat
    BY <1>1, <2>1 DEF IInv, Typed, CountType
  <2>3. Due(i) \in Int
    BY <2>2 DEF Due
  <2>4. /\ given[i] + dropped[i] <= Due(i)
        /\ Due(i) <= given[i] + dropped[i] + panics
    BY <1>1 DEF IInv, Balanced
  <2> QED  BY <2>2, <2>3, <2>4
<1> QED  BY <1>1, Invariance, PTL

(* Hub.PanicsNeedClose: only a client that closes its own subscriber makes *)
(* a broadcast panic (hub.go:73-78, 114-130, 257-263).                     *)
THEOREM PanicsExplained == Spec => []PanicsNeedClose
<1>1. IInv => PanicsNeedClose
  BY DEF IInv
<1> QED  BY <1>1, Invariance, PTL
-----------------------------------------------------------------------------
(* The refinement.                                                         *)

LEMMA GiveImplements ==
  ASSUME IInv, NEW i \in Ids, HubSend(i)
  PROVE  Feed!Give(i, received) /\ received \in Events
<1> USE DEF IInv, Typed, HubSend, Visits, Sent
<1>1. i \in 1 .. nextID /\ nextID' = nextID /\ closed' = closed
  BY RegisteredIssued DEF WhileSending
<1>2. received \in Events /\ received > newest[i]
  BY DEF Newer, CountType
<1> QED  BY <1>1, <1>2 DEF Feed!Give

LEMMA OpenImplements ==
  ASSUME IInv, NEW name, Subscribe(name)
  PROVE  Feed!Open(nextID + 1) /\ nextID + 1 \in Ids
<1>1. nextID \in Nat /\ nextID + 1 \in Ids /\ nextID' = nextID + 1
  BY DEF IInv, Typed, MapType, Subscribe
<1>2. 1 .. nextID' = (1 .. nextID) \cup {nextID + 1} /\ nextID + 1 \notin 1 .. nextID
  BY <1>1
<1> QED  BY <1>1, <1>2 DEF Subscribe, channels, Feed!Open

(* Whatever closes channels closes open ones. *)
LEMMA CloseImplements ==
  ASSUME IInv, nextID' = nextID, queue' = queue, newest' = newest,
         closed \subseteq closed', closed' \subseteq closed \cup 1 .. nextID
  PROVE  \E fs \in SUBSET ((1 .. nextID) \ closed) : Feed!Close(fs)
<1>1. closed' \ closed \in SUBSET ((1 .. nextID) \ closed)
  OBVIOUS
<1>2. Feed!Close(closed' \ closed)
  BY DEF Feed!Close
<1> QED  BY <1>1, <1>2

LEMMA StepImplements == IInv /\ [Next]_vars => [Feed!Next]_(Feed!vars)
<1> SUFFICES ASSUME IInv, [Next]_vars PROVE [Feed!Next]_(Feed!vars)
  OBVIOUS
<1>1. ASSUME nextID' = nextID, closed' = closed, queue' = queue, newest' = newest
      PROVE  UNCHANGED Feed!vars
  BY <1>1 DEF Feed!vars
<1> USE DEF channels, signals, history
<1>2. CASE HubReceive \/ HubRLock \/ HubRUnlock \/ HubReturn
  BY <1>1, <1>2 DEF HubReceive, HubRLock, HubRUnlock, HubReturn
<1>3. ASSUME NEW i \in Ids, HubSend(i)
      PROVE  Feed!Next
  BY <1>3, GiveImplements DEF Feed!Next
<1>4. ASSUME NEW i \in Ids, HubDrop(i) \/ HubBlock(i) \/ HubPanic(i)
      PROVE  UNCHANGED Feed!vars
  BY <1>1, <1>4 DEF HubDrop, HubBlock, HubPanic
<1>5. ASSUME NEW name \in Names, Subscribe(name)
      PROVE  Feed!Next
  BY <1>5, OpenImplements DEF Feed!Next
<1>6. ASSUME NEW i \in Ids, Consume(i)
      PROVE  Feed!Next
  BY <1>6 DEF Consume, Feed!Next, Feed!Take
<1>7. ASSUME NEW i \in Ids, SeeClosed(i) \/ Leave(i) \/ Quit(i)
      PROVE  UNCHANGED Feed!vars
  BY <1>1, <1>7 DEF SeeClosed, Leave, Quit
<1>8. ASSUME NEW i \in Ids, Unsubscribe(i)
      PROVE  Feed!Next
  <2>1. i \in Registered => i \in 1 .. nextID
    BY RegisteredIssued DEF IInv, Typed
  <2> QED  BY <1>8, <2>1, CloseImplements DEF Unsubscribe, Feed!Next
<1>9. ASSUME NEW i \in Ids, CloseSubscriber(i)
      PROVE  Feed!Next
  <2>1. i \in 1 .. nextID
    BY <1>9 DEF CloseSubscriber, IInv, Unissued, Typed, MapType
  <2> QED  BY <1>9, <2>1, CloseImplements DEF CloseSubscriber, Feed!Next
<1>10. CASE CancelContext \/ CloseInput \/ StopSignal \/ StopWaited
  BY <1>1, <1>10 DEF CancelContext, CloseInput, StopSignal, StopWaited
<1>11. CASE StopClose
  <2>1. Registered \subseteq 1 .. nextID
    BY RegisteredIssued DEF IInv, Typed
  <2> QED  BY <1>11, <2>1, CloseImplements DEF StopClose, Feed!Next
<1>12. CASE UNCHANGED vars
  BY <1>1, <1>12 DEF vars
<1> QED
  BY <1>2, <1>3, <1>4, <1>5, <1>6, <1>7, <1>8, <1>9, <1>10, <1>11, <1>12
  DEF Next, HubStep, StopStep

(* Hub.ImplementsFeed: what each subscriber sees is a bounded in-order     *)
(* feed of the events after it joined, which closes once (hub.go:16-24).   *)
THEOREM Implements == Spec => ImplementsFeed
<1>1. Init => Feed!Init
  BY DEF Init, Feed!Init
<1> QED  BY <1>1, StepImplements, Invariance, PTL DEF Spec, ImplementsFeed, Feed!Spec
-----------------------------------------------------------------------------
(* The map.  A subscriber whose key is taken by a later one could no       *)
(* longer be reached, so that keys built from different ids must differ.   *)

KeysDistinct ==
  \A m, n \in Names : \A i, j \in Ids :
    /\ m # n \o <<"_", Rune(i)>>
    /\ i # j => m \o <<"_", Rune(i)>> # n \o <<"_", Rune(j)>>

LEMMA Pair ==
  ASSUME NEW S, NEW u \in S, NEW r \in S
  PROVE  \E t \in Seq(S) : t = <<u, r>> /\ Len(t) = 2 /\ t[2] = r
<1>1. <<u, r>> \in Seq(S) /\ Len(<<u, r>>) = 2 /\ <<u, r>>[2] = r
  OBVIOUS
<1> QED  BY <1>1

LEMMA TwoMore ==
  ASSUME NEW l \in Nat
  PROVE  /\ \E m \in 1 .. l + 2 : m = l + 2 /\ ~(m <= l) /\ m - l = 2
         /\ l + 2 # l
OBVIOUS

LEMMA RuneInt == \A i \in Ids : Rune(i) \in Int
BY DEF Rune

(* They do if all subscribe under one name, as the server's only caller    *)
(* does (websocket.go:99), and no two ids give the same rune, as those     *)
(* below 55297 do not.                                                     *)
LEMMA OneNameDistinct ==
  ASSUME NEW S, Int \subseteq S, "_" \in S, NEW n \in Seq(S), Names = {n},
         \A i, j \in Ids : Rune(i) = Rune(j) => i = j
  PROVE  KeysDistinct
<1>1. \A i \in Ids : Rune(i) \in S
  BY RuneInt, Zenon
<1>2. ASSUME NEW i \in Ids
      PROVE  /\ Len(n \o <<"_", Rune(i)>>) # Len(n)
             /\ (n \o <<"_", Rune(i)>>)[Len(n) + 2] = Rune(i)
  <2>1. PICK u \in S : u = "_"
    OBVIOUS
  <2>2. PICK r \in S : r = Rune(i)
    BY <1>1, Zenon
  <2>3. PICK t \in Seq(S) : t = <<u, r>> /\ Len(t) = 2 /\ t[2] = r
    BY Pair, Zenon
  <2>4. /\ Len(n \o t) = Len(n) + Len(t)
        /\ \A k \in 1 .. Len(n) + Len(t) :
             (n \o t)[k] = IF k <= Len(n) THEN n[k] ELSE t[k - Len(n)]
    BY ConcatProperties
  <2>5. Len(n) \in Nat
    BY LenProperties
  <2>6. PICK l \in Nat : l = Len(n)
    BY <2>5, Zenon
  <2>7. /\ Len(n \o t) = l + 2
        /\ \A k \in 1 .. l + 2 :
             (n \o t)[k] = IF k <= l THEN n[k] ELSE t[k - l]
    BY <2>3, <2>4, <2>6, Zenon
  <2>8. PICK m \in 1 .. l + 2 : m = l + 2 /\ ~(m <= l) /\ m - l = 2
    BY TwoMore, Zenon
  <2>9. l + 2 # l
    BY TwoMore, Zenon
  <2>10. (n \o t)[Len(n) + 2] = r
    BY <2>3, <2>6, <2>7, <2>8, Zenon
  <2>11. Len(n \o t) # Len(n)
    BY <2>6, <2>7, <2>9, Zenon
  <2> QED  BY <2>1, <2>2, <2>3, <2>10, <2>11, Zenon
<1>3. ASSUME NEW i \in Ids PROVE n # n \o <<"_", Rune(i)>>
  BY <1>2, Zenon
<1>4. ASSUME NEW i \in Ids, NEW j \in Ids, i # j
      PROVE  n \o <<"_", Rune(i)>> # n \o <<"_", Rune(j)>>
  BY <1>2, <1>4, Zenon
<1> QED  BY <1>3, <1>4, Zenon DEF KeysDistinct

(* A key says which id it was made for, unless it is a plain name. *)
EntriesOwn ==
  \A k \in DOMAIN subscribers :
    k \in Names \/ \E n \in Names : k = n \o <<"_", Rune(subscribers[k])>>

RInv == IInv /\ EntriesOwn /\ EverySubscriberReachable

(* No entry is overwritten. *)
LEMMA KeyIsNew ==
  ASSUME KeysDistinct, IInv, EntriesOwn, NEW name \in Names, Subscribe(name)
  PROVE  KeyFor(name, nextID + 1) \notin DOMAIN subscribers
<1> DEFINE id == nextID + 1
           key == KeyFor(name, id)
<1>1. nextID \in 0 .. MaxSubs /\ id \in Ids
  BY DEF IInv, Typed, MapType, Subscribe
<1>2. CASE name \notin DOMAIN subscribers
  BY <1>2 DEF KeyFor
<1>3. CASE name \in DOMAIN subscribers
  <2> SUFFICES ASSUME key \in DOMAIN subscribers PROVE FALSE
    OBVIOUS
  <2>1. key = name \o <<"_", Rune(id)>>
    BY <1>3 DEF KeyFor
  <2>2. subscribers[key] \in 1 .. nextID
    BY DEF IInv, Typed, MapType
  <2>3. subscribers[key] \in Ids /\ subscribers[key] # id
    BY <1>1, <2>2
  <2> HIDE DEF id, key
  <2>4. key \notin Names
    BY <1>1, <2>1 DEF KeysDistinct
  <2>5. PICK n \in Names : key = n \o <<"_", Rune(subscribers[key])>>
    BY <2>4 DEF EntriesOwn
  <2> QED  BY <1>1, <2>1, <2>3, <2>5 DEF KeysDistinct
<1> QED  BY <1>2, <1>3

LEMMA SubscribeReachable ==
  ASSUME KeysDistinct, RInv, NEW name \in Names, Subscribe(name)
  PROVE  EntriesOwn' /\ EverySubscriberReachable'
<1> DEFINE id == nextID + 1
           key == KeyFor(name, id)
<1>1. key \notin DOMAIN subscribers
  BY KeyIsNew DEF RInv
<1>2. /\ DOMAIN subscribers' = DOMAIN subscribers \cup {key}
      /\ subscribers'[key] = id
      /\ \A k \in DOMAIN subscribers : subscribers'[k] = subscribers[k]
  BY <1>1 DEF Subscribe
<1>3. key = name \/ key = name \o <<"_", Rune(id)>>
  BY DEF KeyFor
<1> HIDE DEF key
<1>4. EntriesOwn'
  BY <1>2, <1>3 DEF RInv, EntriesOwn
<1>5. Registered' = Registered \cup {id}
  BY <1>2 DEF Registered
<1>6. ASSUME NEW i \in Ids, client'[i] \in {"reading", "leaving", "quit"}
      PROVE  i \in Registered' \cup closed'
  <2>1. CASE i = id
    BY <1>5, <2>1
  <2>2. CASE i # id
    <3>1. client'[i] = client[i] /\ closed' = closed
      BY <2>2 DEF RInv, IInv, Typed, ClientType, Subscribe, channels
    <3> QED  BY <1>5, <1>6, <3>1 DEF RInv, EverySubscriberReachable
  <2> QED  BY <2>1, <2>2
<1> QED  BY <1>4, <1>6 DEF EverySubscriberReachable

(* A step that keeps the map, opens no channel and lets no client start to *)
(* read keeps every client within reach.                                   *)
LEMMA OthersReachable ==
  ASSUME RInv, subscribers' = subscribers, closed \subseteq closed',
         \A i \in Ids : client'[i] \in {"reading", "leaving", "quit"} =>
                          client[i] \in {"reading", "leaving", "quit"}
  PROVE  EntriesOwn' /\ EverySubscriberReachable'
<1>1. Registered' = Registered
  BY DEF Registered
<1>2. EntriesOwn'
  BY DEF RInv, EntriesOwn
<1>3. EverySubscriberReachable'
  BY <1>1 DEF RInv, EverySubscriberReachable
<1> QED  BY <1>2, <1>3

LEMMA NextReachable ==
  ASSUME KeysDistinct, RInv, [Next]_vars
  PROVE  EntriesOwn' /\ EverySubscriberReachable'
<1> USE DEF channels, signals, history
<1>1. CASE HubReceive \/ HubRLock \/ HubRUnlock \/ HubReturn
  BY <1>1, OthersReachable DEF HubReceive, HubRLock, HubRUnlock, HubReturn
<1>2. ASSUME NEW i \in Ids, HubSend(i) \/ HubDrop(i) \/ HubBlock(i) \/ HubPanic(i)
      PROVE  EntriesOwn' /\ EverySubscriberReachable'
  BY <1>2, OthersReachable DEF HubSend, HubDrop, HubBlock, HubPanic
<1>3. ASSUME NEW name \in Names, Subscribe(name)
      PROVE  EntriesOwn' /\ EverySubscriberReachable'
  BY <1>3, SubscribeReachable
<1>4. ASSUME NEW i \in Ids, Consume(i) \/ CloseSubscriber(i)
      PROVE  EntriesOwn' /\ EverySubscriberReachable'
  BY <1>4, OthersReachable DEF Consume, CloseSubscriber
<1>5. ASSUME NEW i \in Ids, SeeClosed(i) \/ Leave(i) \/ Quit(i)
      PROVE  EntriesOwn' /\ EverySubscriberReachable'
  <2>1. \A j \in Ids : client'[j] \in {"reading", "leaving", "quit"} =>
                          client[j] \in {"reading", "leaving", "quit"}
    BY <1>5 DEF SeeClosed, Leave, Quit, RInv, IInv, Typed, ClientType
  <2> QED  BY <1>5, <2>1, OthersReachable DEF SeeClosed, Leave, Quit
<1>6. ASSUME NEW i \in Ids, Unsubscribe(i)
      PROVE  EntriesOwn' /\ EverySubscriberReachable'
  <2> USE <1>6 DEF Unsubscribe
  <2>1. EntriesOwn'
    BY DEF RInv, EntriesOwn
  <2>2. Registered' = Registered \ {i}
    BY Zenon DEF Registered
  <2>3. \A j \in Ids : j # i => client'[j] = client[j]
    BY DEF RInv, IInv, Typed, ClientType
  <2>4. client'[i] = "gone"
    BY DEF RInv, IInv, Typed, ClientType
  <2>5. closed \subseteq closed'
    OBVIOUS
  <2> HIDE DEF Unsubscribe
  <2>6. EverySubscriberReachable'
    BY <2>2, <2>3, <2>4, <2>5 DEF RInv, EverySubscriberReachable
  <2> QED  BY <2>1, <2>6
<1>7. CASE CancelContext \/ CloseInput \/ StopSignal \/ StopWaited
  BY <1>7, OthersReachable DEF CancelContext, CloseInput, StopSignal, StopWaited
<1>8. CASE StopClose
  <2>1. EntriesOwn'
    <3>1. DOMAIN subscribers' = {}
      BY <1>8 DEF StopClose
    <3> QED  BY <3>1 DEF EntriesOwn
  <2>2. EverySubscriberReachable'
    BY <1>8 DEF StopClose, RInv, EverySubscriberReachable
  <2> QED  BY <2>1, <2>2
<1>9. CASE UNCHANGED vars
  BY <1>9, OthersReachable DEF vars
<1> QED
  BY <1>1, <1>2, <1>3, <1>4, <1>5, <1>6, <1>7, <1>8, <1>9 DEF Next, HubStep, StopStep

(* Hub.EverySubscriberReachable: as long as the keys differ, a client that *)
(* has not left is in the map or its channel was closed (hub.go:99-104,    *)
(* 114-130).                                                               *)
THEOREM Reachable ==
  ASSUME KeysDistinct
  PROVE  Spec => []EverySubscriberReachable
<1>1. Init => RInv
  BY InitIInv DEF Init, RInv, EntriesOwn, EverySubscriberReachable
<1>2. RInv /\ [Next]_vars => RInv'
  BY NextIInv, NextReachable DEF RInv
<1>3. RInv => EverySubscriberReachable
  BY DEF RInv
<1> QED  BY <1>1, <1>2, <1>3, PTL DEF Spec
=============================================================================
