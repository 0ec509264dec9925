----------------------------- MODULE ServerProofs -----------------------------
(***************************************************************************)
(* Theorems about the server process, for every capacity of the telemetry  *)
(* channel, every configuration file and any number of packets, and for    *)
(* both ways a pattern registered twice may end; alone, and with a         *)
(* dashboard that connects to it.                                          *)
(*                                                                         *)
(* An event is in one place at any time (Placed).  A report asks for the   *)
(* counters in the opposite order to the events' way through the pipeline, *)
(* so that what it has added up so far was handled by then (Reports).  The *)
(* context is cancelled only by main's shutdown or by a listener that      *)
(* failed, and done is closed by whoever is the first to call Stop         *)
(* (Ordered).                                                              *)
(***************************************************************************)
EXTENDS Dashboard, FunctionTheorems, FiniteSetTheorems, TLAPS

MainType ==
  /\ main \in {"loading", "starting", "registering", "waiting", "timeout", "waitWS",
               "stopHub", "stopManager", "printing", "done"}
  /\ cfg \in [Settings -> {0, 1}]
  /\ ended \in {"no", "exit", "panic"}

FlagType ==
  /\ signalled \in BOOLEAN /\ ctxDone \in BOOLEAN /\ served \in BOOLEAN
  /\ wsDone \in BOOLEAN /\ pending \in BOOLEAN

RoutineType ==
  routine \in [Routines -> {"none", "running", "failed", "stopping", "returned"}]

EventType ==
  /\ received \in Counts /\ produced \in Counts
  /\ telemetry \in Seq(1 .. MaxEvents) /\ Len(telemetry) <= TelemetryCap
  /\ dropped \subseteq 1 .. MaxEvents
  /\ applied \subseteq 1 .. MaxEvents /\ fanned \subseteq 1 .. MaxEvents

ReportType ==
  report \in [Readers -> [read : 0 .. 3, handled : Counts, packets : Counts]]

Typed == MainType /\ FlagType /\ RoutineType /\ EventType /\ ReportType

(* The events produced so far, each in one place and once in the channel. *)
Placed ==
  /\ produced <= received
  /\ Waiting \cup dropped \cup applied \cup fanned = 1 .. produced
  /\ Waiting \cap (dropped \cup applied \cup fanned) = {}
  /\ dropped \cap (applied \cup fanned) = {} /\ applied \cap fanned = {}
  /\ \A i, j \in DOMAIN telemetry : telemetry[i] = telemetry[j] => i = j

(* What a reader has added up so far has been handled by then. *)
Read(r) ==
  LET rep == report[r]
  IN  /\ rep.read = 0 => rep.handled = 0
      /\ rep.read = 1 => rep.handled <= Cardinality(applied)
      /\ rep.read = 2 => rep.handled <= Cardinality(applied) + Cardinality(fanned)
      /\ rep.read = 3 => rep.handled <= rep.packets

Reports == \A r \in Readers : Read(r)

(* How far main is, and what the goroutines may have done by then. *)
Ordered ==
  /\ main \in {"loading", "starting"} =>
       ~ctxDone /\ ~wsDone /\ \A r \in Routines : routine[r] = "none"
  /\ Running => main # "done"
  /\ ShuttingDown => signalled /\ ctxDone
  /\ ctxDone => routine["udp"] = "failed" \/ ShuttingDown \/ main = "done"
  /\ wsDone => \/ routine["ws"] \in {"stopping", "returned"}
               \/ main \in {"waitWS", "stopHub", "stopManager", "printing", "done"}
  /\ ended = "panic" => main = "registering" \/ PanicsHaveACause

IInv == Typed /\ Placed /\ Reports /\ Ordered
-----------------------------------------------------------------------------
USE ServerAssumption

LEMMA TypedIsTypeOK == Typed <=> TypeOK
BY DEF Typed, MainType, FlagType, RoutineType, EventType, ReportType, TypeOK

LEMMA InitIInv == Init => IInv
<1> SUFFICES ASSUME Init PROVE IInv
  OBVIOUS
<1> USE DEF Init
<1>1. MainType
  BY DEF MainType, Default, Settings
<1>2. FlagType /\ RoutineType
  BY DEF FlagType, RoutineType
<1>3. EventType
  BY DEF EventType, Counts
<1>4. ReportType
  BY DEF ReportType, Counts
<1>5. Placed
  <2>1. DOMAIN telemetry = {} /\ 1 .. produced = {}
    OBVIOUS
  <2> QED  BY <2>1 DEF Placed, Waiting
<1>6. Reports
  BY DEF Reports, Read
<1>7. Ordered
  BY DEF Ordered, ShuttingDown, Running, PanicsHaveACause
<1> QED  BY <1>1, <1>2, <1>3, <1>4, <1>5, <1>6, <1>7 DEF IInv, Typed
-----------------------------------------------------------------------------
(* The steps that change the events and those that change the reports. *)
LEMMA EventSteps ==
  Next => \/ Receive \/ Produce \/ ProcessorTakes \/ HubTakes
          \/ UNCHANGED <<received, produced, telemetry, dropped, applied, fanned>>
BY Zenon DEF Next, MainStep, HealthStep, UDPStep, ProcessorStep, HubStep, WSStep,
   BroadcasterStep, LoadFails, Load, SubscribeFails, StartComponents, RegisterHealth, ReceiveSignal,
   MainStopsWS, MainWaitedWS, MainStopsHub, MainStopsManager, ReadStats,
   MainExits, HealthAnswered, UDPPanics, UDPReturns, UDPCrashes, EndsWithContext, BroadcasterTicks,
   BroadcasterReturns, WSStops, WSReturns, ListenerReturns, Signal, UDPFails, ClientsCome, ClientsEnd,
   events

LEMMA ReportSteps ==
  Next => (\E r \in Readers : ReadStats(r)) \/ HealthAnswered \/ UNCHANGED report
BY DEF Next, MainStep, HealthStep, UDPStep, ProcessorStep, HubStep, WSStep,
   BroadcasterStep, LoadFails, Load, SubscribeFails, StartComponents, RegisterHealth, ReceiveSignal,
   MainStopsWS, MainWaitedWS, MainStopsHub, MainStopsManager,
   MainExits, UDPPanics, UDPReturns, UDPCrashes, EndsWithContext, BroadcasterTicks,
   BroadcasterReturns, WSStops, WSReturns, ListenerReturns, Signal, UDPFails, ClientsCome, ClientsEnd,
   Receive, Produce, ProcessorTakes, HubTakes, Readers

(* Sets of events without an event in common are no larger than the whole. *)
LEMMA DisjointCounts ==
  ASSUME NEW n \in Nat, NEW A, NEW B, A \cup B \subseteq 1 .. n, A \cap B = {}
  PROVE  /\ IsFiniteSet(A) /\ IsFiniteSet(B)
         /\ Cardinality(A) \in Nat /\ Cardinality(B) \in Nat
         /\ Cardinality(A) + Cardinality(B) <= n
<1>1. IsFiniteSet(1 .. n) /\ Cardinality(1 .. n) = n
  BY FS_Interval
<1>2. IsFiniteSet(A) /\ IsFiniteSet(B)
  BY <1>1, FS_Subset
<1>3. Cardinality(A \cup B) <= n
  BY <1>1, FS_Subset
<1>4. Cardinality(A \cap B) = 0
  BY FS_EmptySet
<1>5. Cardinality(A) \in Nat /\ Cardinality(B) \in Nat
  BY <1>2, FS_CardinalityType
<1>6. Cardinality(A \cup B)
        = Cardinality(A) + Cardinality(B) - Cardinality(A \cap B)
  BY <1>2, FS_Union
<1> QED  BY <1>2, <1>3, <1>4, <1>5, <1>6
-----------------------------------------------------------------------------
LEMMA TakeFirst ==
  ASSUME EventType, Placed, telemetry # <<>>, telemetry' = Tail(telemetry)
  PROVE  /\ telemetry' \in Seq(1 .. MaxEvents) /\ Len(telemetry') <= TelemetryCap
         /\ Head(telemetry) \in Waiting /\ Waiting' = Waiting \ {Head(telemetry)}
         /\ \A i, j \in DOMAIN telemetry' : telemetry'[i] = telemetry'[j] => i = j
<1> DEFINE n == Len(telemetry)
<1>1. /\ n \in Nat \ {0} /\ DOMAIN telemetry = 1 .. n
      /\ Head(telemetry) = telemetry[1]
  BY DEF EventType
<1>2. /\ telemetry' \in Seq(1 .. MaxEvents) /\ Len(telemetry') = n - 1
      /\ DOMAIN telemetry' = 1 .. (n - 1)
      /\ \A i \in 1 .. (n - 1) : telemetry'[i] = telemetry[i + 1]
  BY <1>1 DEF EventType
<1>3. Len(telemetry') <= TelemetryCap
  BY <1>1, <1>2 DEF EventType
<1>4. Head(telemetry) \in Waiting
  BY <1>1 DEF Waiting
<1>5. \A i, j \in 1 .. n : telemetry[i] = telemetry[j] => i = j
  BY <1>1 DEF Placed
<1>6. \A i, j \in DOMAIN telemetry' : telemetry'[i] = telemetry'[j] => i = j
  <2> SUFFICES ASSUME NEW i \in 1 .. (n - 1), NEW j \in 1 .. (n - 1),
                      telemetry'[i] = telemetry'[j]
               PROVE  i = j
    BY <1>2
  <2>1. i + 1 \in 1 .. n /\ j + 1 \in 1 .. n
    BY <1>1
  <2>2. telemetry[i + 1] = telemetry[j + 1]
    BY <1>2
  <2>3. i + 1 = j + 1
    BY <1>5, <2>1, <2>2
  <2> QED  BY <2>3
<1>7. ASSUME NEW e \in Waiting' PROVE e \in Waiting /\ e # Head(telemetry)
  <2>1. PICK i \in 1 .. (n - 1) : e = telemetry'[i]
    BY <1>2 DEF Waiting
  <2>2. e = telemetry[i + 1] /\ i + 1 \in 1 .. n /\ i + 1 # 1 /\ 1 \in 1 .. n
    BY <1>1, <1>2, <2>1
  <2> QED  BY <1>1, <1>5, <2>2 DEF Waiting
<1>8. ASSUME NEW e \in Waiting, e # Head(telemetry) PROVE e \in Waiting'
  <2>1. PICK i \in 1 .. n : e = telemetry[i]
    BY <1>1 DEF Waiting
  <2>2. i - 1 \in 1 .. (n - 1) /\ telemetry'[i - 1] = telemetry[i]
    BY <1>1, <1>2, <1>8, <2>1
  <2> QED  BY <1>2, <2>1, <2>2 DEF Waiting
<1> QED  BY <1>2, <1>3, <1>4, <1>6, <1>7, <1>8

LEMMA AddLast ==
  ASSUME EventType, Placed, Len(telemetry) < TelemetryCap, produced < MaxEvents,
         telemetry' = Append(telemetry, produced + 1)
  PROVE  /\ telemetry' \in Seq(1 .. MaxEvents) /\ Len(telemetry') <= TelemetryCap
         /\ Waiting' = Waiting \cup {produced + 1}
         /\ \A i, j \in DOMAIN telemetry' : telemetry'[i] = telemetry'[j] => i = j
<1> DEFINE n == Len(telemetry)
<1>1. n \in Nat /\ DOMAIN telemetry = 1 .. n /\ produced \in Nat
  BY DEF EventType, Counts
<1>2. /\ telemetry' \in Seq(1 .. MaxEvents) /\ Len(telemetry') = n + 1
      /\ DOMAIN telemetry' = 1 .. (n + 1)
      /\ \A i \in 1 .. n : telemetry'[i] = telemetry[i]
      /\ telemetry'[n + 1] = produced + 1
  BY <1>1 DEF EventType
<1>3. Len(telemetry') <= TelemetryCap
  BY <1>1, <1>2
<1>4. \A i, j \in 1 .. n : telemetry[i] = telemetry[j] => i = j
  BY <1>1 DEF Placed
<1>5. \A i \in 1 .. n : telemetry[i] \in 1 .. produced
  BY <1>1 DEF Placed, Waiting
<1>6. \A i, j \in DOMAIN telemetry' : telemetry'[i] = telemetry'[j] => i = j
  BY <1>1, <1>2, <1>4, <1>5
<1>7. ASSUME NEW e \in Waiting' PROVE e \in Waiting \cup {produced + 1}
  BY <1>1, <1>2 DEF Waiting
<1>8. ASSUME NEW e \in Waiting \cup {produced + 1} PROVE e \in Waiting'
  BY <1>1, <1>2 DEF Waiting
<1> QED  BY <1>2, <1>3, <1>6, <1>7, <1>8

LEMMA EventsStep ==
  ASSUME IInv, Next
  PROVE  EventType' /\ Placed'
<1> USE DEF IInv, Typed
<1>1. CASE Receive
  BY <1>1 DEF Receive, EventType, Counts, Placed, Waiting
<1>2. CASE Produce
  <2>1. /\ produced \in Nat /\ received \in Nat /\ received <= MaxEvents
        /\ produced < received /\ produced' = produced + 1
        /\ received' = received /\ applied' = applied /\ fanned' = fanned
    BY <1>2 DEF Produce, EventType, Counts
  <2>2. 1 .. produced' = (1 .. produced) \cup {produced + 1}
        /\ produced + 1 \notin 1 .. produced /\ produced + 1 \in 1 .. MaxEvents
    BY <2>1
  <2>3. CASE Len(telemetry) < TelemetryCap
    <3>1. telemetry' = Append(telemetry, produced + 1) /\ dropped' = dropped
      BY <1>2, <2>1, <2>3 DEF Produce
    <3>2. /\ telemetry' \in Seq(1 .. MaxEvents) /\ Len(telemetry') <= TelemetryCap
          /\ Waiting' = Waiting \cup {produced + 1}
          /\ \A i, j \in DOMAIN telemetry' : telemetry'[i] = telemetry'[j] => i = j
      BY <2>1, <2>3, <3>1, AddLast
    <3>3. EventType'
      BY <2>1, <3>1, <3>2 DEF EventType, Counts
    <3>4. produced' <= received'
      BY <2>1
    <3> QED  BY <2>1, <2>2, <3>1, <3>2, <3>3, <3>4 DEF Placed
  <2>4. CASE ~(Len(telemetry) < TelemetryCap)
    <3>1. telemetry' = telemetry /\ dropped' = dropped \cup {produced + 1}
      BY <1>2, <2>1, <2>4 DEF Produce
    <3>2. EventType'
      BY <2>1, <2>2, <3>1 DEF EventType, Counts
    <3>3. produced' <= received' /\ Waiting' = Waiting
      BY <2>1, <3>1 DEF Waiting
    <3> QED  BY <2>1, <2>2, <3>1, <3>2, <3>3 DEF Placed
  <2> QED  BY <2>3, <2>4
<1>3. CASE ProcessorTakes
  <2>1. /\ telemetry # <<>> /\ telemetry' = Tail(telemetry)
        /\ applied' = applied \cup {Head(telemetry)}
        /\ UNCHANGED <<received, produced, dropped, fanned>>
    BY <1>3 DEF ProcessorTakes
  <2>2. /\ telemetry' \in Seq(1 .. MaxEvents) /\ Len(telemetry') <= TelemetryCap
        /\ Head(telemetry) \in Waiting /\ Waiting' = Waiting \ {Head(telemetry)}
        /\ \A i, j \in DOMAIN telemetry' : telemetry'[i] = telemetry'[j] => i = j
    BY <2>1, TakeFirst
  <2>3. Head(telemetry) \in 1 .. MaxEvents
    BY <2>1 DEF EventType
  <2>4. EventType'
    BY <2>1, <2>2, <2>3 DEF EventType
  <2>5. Placed'
    BY <2>1, <2>2 DEF Placed
  <2> QED  BY <2>4, <2>5
<1>4. CASE HubTakes
  <2>1. /\ telemetry # <<>> /\ telemetry' = Tail(telemetry)
        /\ fanned' = fanned \cup {Head(telemetry)}
        /\ UNCHANGED <<received, produced, dropped, applied>>
    BY <1>4 DEF HubTakes
  <2>2. /\ telemetry' \in Seq(1 .. MaxEvents) /\ Len(telemetry') <= TelemetryCap
        /\ Head(telemetry) \in Waiting /\ Waiting' = Waiting \ {Head(telemetry)}
        /\ \A i, j \in DOMAIN telemetry' : telemetry'[i] = telemetry'[j] => i = j
    BY <2>1, TakeFirst
  <2>3. Head(telemetry) \in 1 .. MaxEvents
    BY <2>1 DEF EventType
  <2>4. EventType'
    BY <2>1, <2>2, <2>3 DEF EventType
  <2>5. Placed'
    BY <2>1, <2>2 DEF Placed
  <2> QED  BY <2>4, <2>5
<1>5. CASE UNCHANGED <<received, produced, telemetry, dropped, applied, fanned>>
  BY <1>5 DEF EventType, Placed, Waiting
<1> QED  BY <1>1, <1>2, <1>3, <1>4, <1>5, EventSteps
-----------------------------------------------------------------------------
(* Nothing that was handled is forgotten, and all of it was received. *)
LEMMA CountersGrow ==
  ASSUME IInv, Next
  PROVE  /\ Cardinality(applied) \in Nat /\ Cardinality(fanned) \in Nat
         /\ Cardinality(applied) + Cardinality(fanned) <= received
         /\ Cardinality(applied') \in Nat /\ Cardinality(fanned') \in Nat
         /\ Cardinality(applied) <= Cardinality(applied')
         /\ Cardinality(fanned) <= Cardinality(fanned')
<1>1. /\ produced \in Nat /\ received \in Nat /\ produced <= received
      /\ applied \cup fanned \subseteq 1 .. produced /\ applied \cap fanned = {}
  BY DEF IInv, Typed, EventType, Counts, Placed
<1>2. EventType' /\ Placed'
  BY EventsStep
<1>3. produced' \in Nat
  BY <1>2 DEF EventType, Counts
<1>4. applied' \cup fanned' \subseteq 1 .. produced' /\ applied' \cap fanned' = {}
  BY <1>2, Zenon DEF Placed
<1>5. /\ IsFiniteSet(applied') /\ IsFiniteSet(fanned')
      /\ Cardinality(applied') \in Nat /\ Cardinality(fanned') \in Nat
  BY <1>3, <1>4, DisjointCounts
<1>6. applied \subseteq applied' /\ fanned \subseteq fanned'
  BY EventSteps DEF Receive, Produce, ProcessorTakes, HubTakes
<1>7. /\ Cardinality(applied) <= Cardinality(applied')
      /\ Cardinality(fanned) <= Cardinality(fanned')
  BY <1>5, <1>6, FS_Subset
<1>8. /\ Cardinality(applied) \in Nat /\ Cardinality(fanned) \in Nat
      /\ Cardinality(applied) + Cardinality(fanned) <= produced
  BY <1>1, DisjointCounts
<1> QED  BY <1>1, <1>5, <1>7, <1>8

LEMMA ReportsStep ==
  ASSUME IInv, Next
  PROVE  ReportType' /\ Reports'
<1> USE DEF IInv, Typed
<1> DEFINE a == Cardinality(applied)
           f == Cardinality(fanned)
<1>1. /\ a \in Nat /\ f \in Nat /\ a + f <= received
      /\ a' \in Nat /\ f' \in Nat /\ a <= a' /\ f <= f'
  BY CountersGrow
<1>2. received \in Nat /\ received <= MaxEvents /\ Counts = 0 .. MaxEvents
  BY DEF EventType, Counts
<1>3. \A r \in Readers :
        /\ report[r] \in [read : 0 .. 3, handled : Counts, packets : Counts]
        /\ report[r].read \in 0 .. 3 /\ report[r].handled \in Counts
        /\ report[r].packets \in Counts
        /\ Read(r)
  BY DEF ReportType, Reports
<1> DEFINE Fits(rep) ==
             /\ rep \in [read : 0 .. 3, handled : Counts, packets : Counts]
             /\ rep.read = 0 => rep.handled = 0
             /\ rep.read = 1 => rep.handled <= a'
             /\ rep.read = 2 => rep.handled <= a' + f'
             /\ rep.read = 3 => rep.handled <= rep.packets
<1>4. ASSUME NEW r \in Readers PROVE Fits(report[r])
  <2> HIDE DEF a, f
  <2>1. Read(r) /\ report[r] \in [read : 0 .. 3, handled : Counts, packets : Counts]
    BY <1>3
  <2> QED  BY <1>1, <1>2, <2>1 DEF Read, a, f
<1>5. ASSUME NEW r \in Readers, ReadStats(r)
      PROVE  \E rep : Fits(rep) /\ report' = [report EXCEPT ![r] = rep]
  <2> DEFINE rep == report[r]
             n == rep.read + 1
             new == [Reading(rep, StatsOrder[n]) EXCEPT !.read = n]
  <2>1. report' = [report EXCEPT ![r] = new] /\ rep.read < 3
        /\ applied' = applied /\ fanned' = fanned
    BY <1>5 DEF ReadStats, ReportType, events
  <2>2. rep = [read |-> rep.read, handled |-> rep.handled, packets |-> rep.packets]
    BY <1>3
  <2>3. a' = a /\ f' = f
    BY <2>1
  <2>4. /\ Reading(rep, StatsOrder[1]) = [rep EXCEPT !.handled = @ + a]
        /\ Reading(rep, StatsOrder[2]) = [rep EXCEPT !.handled = @ + f]
        /\ Reading(rep, StatsOrder[3]) = [rep EXCEPT !.packets = received]
    <3>1. /\ StatsOrder[1] = "manager" /\ StatsOrder[2] = "hub"
          /\ StatsOrder[3] = "listener"
      BY DEF StatsOrder
    <3>2. \A x \in {"manager", "hub", "listener"} : Reading(rep, x) =
            IF x = "manager" THEN [rep EXCEPT !.handled = @ + a]
            ELSE IF x = "hub" THEN [rep EXCEPT !.handled = @ + f]
            ELSE [rep EXCEPT !.packets = received]
      BY DEF Reading
    <3> HIDE DEF a, f, rep
    <3> QED  BY <3>1, <3>2
  <2>5. ASSUME rep.read = 0 PROVE Fits(new)
    <3>1. new = [read |-> 1, handled |-> rep.handled + a, packets |-> rep.packets]
      BY <2>2, <2>5, <2>4
    <3>2. rep.handled = 0 /\ rep.packets \in Counts
      BY <1>3, <2>5 DEF Read
    <3> HIDE DEF a, f, new, rep
    <3> QED  BY <1>1, <1>2, <2>3, <3>1, <3>2
  <2>6. ASSUME rep.read = 1 PROVE Fits(new)
    <3>1. new = [read |-> 2, handled |-> rep.handled + f, packets |-> rep.packets]
      BY <2>2, <2>6, <2>4
    <3>2. rep.handled <= a /\ rep.handled \in Counts /\ rep.packets \in Counts
      BY <1>3, <2>6 DEF Read
    <3> HIDE DEF a, f, new, rep
    <3> QED  BY <1>1, <1>2, <2>3, <3>1, <3>2
  <2>7. ASSUME rep.read = 2 PROVE Fits(new)
    <3>1. new = [read |-> 3, handled |-> rep.handled, packets |-> received]
      BY <2>2, <2>7, <2>4
    <3>2. rep.handled <= a + f /\ rep.handled \in Counts
      BY <1>3, <2>7 DEF Read
    <3> HIDE DEF a, f, new, rep
    <3> QED  BY <1>1, <1>2, <2>3, <3>1, <3>2
  <2>8. rep.read \in 0 .. 3
    BY <1>3
  <2>9. Fits(new)
    <3> HIDE DEF Fits, new
    <3> QED  BY <2>1, <2>5, <2>6, <2>7, <2>8
  <2> HIDE DEF Fits, new
  <2> QED  BY <2>1, <2>9
<1>6. ASSUME HealthAnswered
      PROVE  \E rep : Fits(rep) /\ report' = [report EXCEPT !["health"] = rep]
  <2>1. DOMAIN report["health"] = {"read", "handled", "packets"}
    BY <1>3 DEF Readers
  <2>2. [field \in DOMAIN report["health"] |-> 0]
          = [read |-> 0, handled |-> 0, packets |-> 0]
    BY <2>1
  <2>3. report' = [report EXCEPT !["health"] = [read |-> 0, handled |-> 0, packets |-> 0]]
    BY <1>6, <2>2 DEF HealthAnswered
  <2>4. Fits([read |-> 0, handled |-> 0, packets |-> 0])
    BY <1>2
  <2> HIDE DEF Fits
  <2> QED  BY <2>3, <2>4
<1>7. \A r \in Readers : Fits(report'[r])
  <2> HIDE DEF Fits
  <2>1. CASE UNCHANGED report
    BY <1>4, <2>1
  <2>2. CASE HealthAnswered
    BY <1>4, <1>6, <2>2 DEF ReportType, Readers
  <2>3. CASE \E r \in Readers : ReadStats(r)
    BY <1>4, <1>5, <2>3 DEF ReportType
  <2> QED  BY <2>1, <2>2, <2>3, ReportSteps
<1>8. report' \in [Readers -> [read : 0 .. 3, handled : Counts, packets : Counts]]
  <2>1. DOMAIN report' = Readers /\ report' = [r \in Readers |-> report'[r]]
    <3>1. report \in [Readers -> [read : 0 .. 3, handled : Counts, packets : Counts]]
      BY DEF ReportType
    <3> QED  BY <3>1, ReportSteps, Zenon DEF ReadStats, HealthAnswered
  <2> QED  BY <1>7, <2>1
<1> QED  BY <1>7, <1>8 DEF ReportType, Reports, Read
-----------------------------------------------------------------------------
(* Main, the goroutines and the flags: one step for each action. *)
LEMMA ControlStep ==
  ASSUME IInv, Next
  PROVE  MainType' /\ FlagType' /\ RoutineType' /\ Ordered'
<1> USE DEF IInv, Typed, Runs, Running, Becomes, Routines, ShuttingDown, CloseDone,
       events, PanicsHaveACause, SizeRefused
<1> DEFINE Kept == MainType' /\ FlagType' /\ RoutineType' /\ Ordered'
<1>1. ASSUME LoadFails PROVE Kept
  <2>1. MainType'
    BY <1>1 DEF LoadFails, MainType
  <2>2. FlagType' /\ RoutineType'
    BY <1>1 DEF LoadFails, FlagType, RoutineType
  <2>3. Ordered'
    BY <1>1 DEF LoadFails, MainType, FlagType, RoutineType, Ordered
  <2> QED  BY <2>1, <2>2, <2>3
<1>2. ASSUME Load PROVE Kept
  <2>1. MainType'
    <3>1. PICK f \in Files, workers \in {0, 1} : cfg' = Override(LoadFile(f), workers)
      BY <1>2 DEF Load
    <3>2. PICK S \in SUBSET InFile : f \in [S -> {0, 1}]
      BY DEF Files
    <3>3. LoadFile(f) \in [Settings -> {0, 1}]
      BY <3>2 DEF LoadFile, Default
    <3>4. Override(LoadFile(f), workers) \in [Settings -> {0, 1}]
      BY <3>3 DEF Override, Settings
    <3> QED  BY <1>2, <3>1, <3>4 DEF Load, MainType
  <2>2. FlagType' /\ RoutineType'
    BY <1>2 DEF Load, FlagType, RoutineType
  <2>3. Ordered'
    BY <1>2 DEF Load, MainType, FlagType, RoutineType, Ordered
  <2> QED  BY <2>1, <2>2, <2>3
<1>3. ASSUME StartComponents PROVE Kept
  <2>1. MainType'
    BY <1>3 DEF StartComponents, MainType
  <2>2. FlagType' /\ RoutineType'
    BY <1>3 DEF StartComponents, FlagType, RoutineType
  <2>3. Ordered'
    BY <1>3 DEF StartComponents, MainType, FlagType, RoutineType, Ordered
  <2> QED  BY <2>1, <2>2, <2>3
<1>4. ASSUME RegisterHealth PROVE Kept
  <2>1. MainType'
    BY <1>4 DEF RegisterHealth, MainType
  <2>2. FlagType' /\ RoutineType'
    BY <1>4 DEF RegisterHealth, FlagType, RoutineType
  <2>3. Ordered'
    BY <1>4 DEF RegisterHealth, MainType, FlagType, RoutineType, Ordered
  <2> QED  BY <2>1, <2>2, <2>3
<1>5. ASSUME ReceiveSignal PROVE Kept
  <2>1. MainType'
    BY <1>5 DEF ReceiveSignal, MainType
  <2>2. FlagType' /\ RoutineType'
    BY <1>5 DEF ReceiveSignal, FlagType, RoutineType
  <2>3. Ordered'
    BY <1>5 DEF ReceiveSignal, MainType, FlagType, RoutineType, Ordered
  <2> QED  BY <2>1, <2>2, <2>3
<1>6. ASSUME SubscribeFails PROVE Kept
  <2>1. MainType'
    BY <1>6 DEF SubscribeFails, MainType
  <2>2. FlagType' /\ RoutineType'
    BY <1>6 DEF SubscribeFails, FlagType, RoutineType
  <2>3. Ordered'
    BY <1>6 DEF SubscribeFails, MainType, FlagType, RoutineType, Ordered
  <2> QED  BY <2>1, <2>2, <2>3
<1>7. ASSUME MainStopsWS PROVE Kept
  <2>1. MainType'
    BY <1>7 DEF MainStopsWS, MainType
  <2>2. FlagType' /\ RoutineType'
    BY <1>7 DEF MainStopsWS, FlagType, RoutineType
  <2>3. Ordered'
    BY <1>7 DEF MainStopsWS, MainType, FlagType, RoutineType, Ordered
  <2> QED  BY <2>1, <2>2, <2>3
<1>8. ASSUME MainWaitedWS PROVE Kept
  <2>1. MainType'
    BY <1>8 DEF MainWaitedWS, MainType
  <2>2. FlagType' /\ RoutineType'
    BY <1>8 DEF MainWaitedWS, FlagType, RoutineType
  <2>3. Ordered'
    BY <1>8 DEF MainWaitedWS, MainType, FlagType, RoutineType, Ordered
  <2> QED  BY <2>1, <2>2, <2>3
<1>9. ASSUME MainStopsHub PROVE Kept
  <2>1. MainType'
    BY <1>9 DEF MainStopsHub, MainType
  <2>2. FlagType' /\ RoutineType'
    BY <1>9 DEF MainStopsHub, FlagType, RoutineType
  <2>3. Ordered'
    BY <1>9 DEF MainStopsHub, MainType, FlagType, RoutineType, Ordered
  <2> QED  BY <2>1, <2>2, <2>3
<1>10. ASSUME MainStopsManager PROVE Kept
  <2>1. MainType'
    BY <1>10 DEF MainStopsManager, MainType
  <2>2. FlagType' /\ RoutineType'
    BY <1>10 DEF MainStopsManager, FlagType, RoutineType
  <2>3. Ordered'
    BY <1>10 DEF MainStopsManager, MainType, FlagType, RoutineType, Ordered
  <2> QED  BY <2>1, <2>2, <2>3
<1>11. ASSUME MainExits PROVE Kept
  <2>1. MainType'
    BY <1>11 DEF MainExits, MainType
  <2>2. FlagType' /\ RoutineType'
    BY <1>11 DEF MainExits, FlagType, RoutineType
  <2>3. Ordered'
    BY <1>11 DEF MainExits, MainType, FlagType, RoutineType, Ordered
  <2> QED  BY <2>1, <2>2, <2>3
<1>12. ASSUME HealthAnswered PROVE Kept
  <2>1. MainType'
    BY <1>12 DEF HealthAnswered, MainType
  <2>2. FlagType' /\ RoutineType'
    BY <1>12 DEF HealthAnswered, FlagType, RoutineType
  <2>3. Ordered'
    BY <1>12 DEF HealthAnswered, MainType, FlagType, RoutineType, Ordered
  <2> QED  BY <2>1, <2>2, <2>3
<1>13. ASSUME UDPReturns PROVE Kept
  <2>1. MainType'
    BY <1>13 DEF UDPReturns, MainType
  <2>2. FlagType' /\ RoutineType'
    BY <1>13 DEF UDPReturns, FlagType, RoutineType
  <2>3. Ordered'
    BY <1>13 DEF UDPReturns, MainType, FlagType, RoutineType, Ordered
  <2> QED  BY <2>1, <2>2, <2>3
<1>14. ASSUME UDPCrashes PROVE Kept
  <2>1. MainType'
    BY <1>14 DEF UDPCrashes, MainType
  <2>2. FlagType' /\ RoutineType'
    BY <1>14 DEF UDPCrashes, FlagType, RoutineType
  <2>3. Ordered'
    BY <1>14 DEF UDPCrashes, MainType, FlagType, RoutineType, Ordered
  <2> QED  BY <2>1, <2>2, <2>3
<1>15. ASSUME ProcessorTakes PROVE Kept
  <2>1. MainType'
    BY <1>15 DEF ProcessorTakes, MainType
  <2>2. FlagType' /\ RoutineType'
    BY <1>15 DEF ProcessorTakes, FlagType, RoutineType
  <2>3. Ordered'
    BY <1>15 DEF ProcessorTakes, MainType, FlagType, RoutineType, Ordered
  <2> QED  BY <2>1, <2>2, <2>3
<1>16. ASSUME HubTakes PROVE Kept
  <2>1. MainType'
    BY <1>16 DEF HubTakes, MainType
  <2>2. FlagType' /\ RoutineType'
    BY <1>16 DEF HubTakes, FlagType, RoutineType
  <2>3. Ordered'
    BY <1>16 DEF HubTakes, MainType, FlagType, RoutineType, Ordered
  <2> QED  BY <2>1, <2>2, <2>3
<1>17. ASSUME BroadcasterTicks PROVE Kept
  <2>1. MainType'
    BY <1>17 DEF BroadcasterTicks, MainType
  <2>2. FlagType' /\ RoutineType'
    BY <1>17 DEF BroadcasterTicks, FlagType, RoutineType
  <2>3. Ordered'
    BY <1>17 DEF BroadcasterTicks, MainType, FlagType, RoutineType, Ordered
  <2> QED  BY <2>1, <2>2, <2>3
<1>18. ASSUME BroadcasterReturns PROVE Kept
  <2>1. MainType'
    BY <1>18 DEF BroadcasterReturns, MainType
  <2>2. FlagType' /\ RoutineType'
    BY <1>18 DEF BroadcasterReturns, FlagType, RoutineType
  <2>3. Ordered'
    BY <1>18 DEF BroadcasterReturns, MainType, FlagType, RoutineType, Ordered
  <2> QED  BY <2>1, <2>2, <2>3
<1>19. ASSUME WSStops PROVE Kept
  <2>1. MainType'
    BY <1>19 DEF WSStops, MainType
  <2>2. FlagType' /\ RoutineType'
    BY <1>19 DEF WSStops, FlagType, RoutineType
  <2>3. Ordered'
    BY <1>19 DEF WSStops, MainType, FlagType, RoutineType, Ordered
  <2> QED  BY <2>1, <2>2, <2>3
<1>20. ASSUME WSReturns PROVE Kept
  <2>1. MainType'
    BY <1>20 DEF WSReturns, MainType
  <2>2. FlagType' /\ RoutineType'
    BY <1>20 DEF WSReturns, FlagType, RoutineType
  <2>3. Ordered'
    BY <1>20 DEF WSReturns, MainType, FlagType, RoutineType, Ordered
  <2> QED  BY <2>1, <2>2, <2>3
<1>21. ASSUME ListenerReturns PROVE Kept
  <2>1. MainType'
    BY <1>21 DEF ListenerReturns, MainType
  <2>2. FlagType' /\ RoutineType'
    BY <1>21 DEF ListenerReturns, FlagType, RoutineType
  <2>3. Ordered'
    BY <1>21 DEF ListenerReturns, MainType, FlagType, RoutineType, Ordered
  <2> QED  BY <2>1, <2>2, <2>3
<1>22. ASSUME Signal PROVE Kept
  <2>1. MainType'
    BY <1>22 DEF Signal, MainType
  <2>2. FlagType' /\ RoutineType'
    BY <1>22 DEF Signal, FlagType, RoutineType
  <2>3. Ordered'
    BY <1>22 DEF Signal, MainType, FlagType, RoutineType, Ordered
  <2> QED  BY <2>1, <2>2, <2>3
<1>23. ASSUME Receive PROVE Kept
  <2>1. MainType'
    BY <1>23 DEF Receive, MainType
  <2>2. FlagType' /\ RoutineType'
    BY <1>23 DEF Receive, FlagType, RoutineType
  <2>3. Ordered'
    BY <1>23 DEF Receive, MainType, FlagType, RoutineType, Ordered
  <2> QED  BY <2>1, <2>2, <2>3
<1>24. ASSUME Produce PROVE Kept
  <2>1. MainType'
    BY <1>24 DEF Produce, MainType
  <2>2. FlagType' /\ RoutineType'
    BY <1>24 DEF Produce, FlagType, RoutineType
  <2>3. Ordered'
    BY <1>24 DEF Produce, MainType, FlagType, RoutineType, Ordered
  <2> QED  BY <2>1, <2>2, <2>3
<1>25. ASSUME UDPFails PROVE Kept
  <2>1. MainType'
    BY <1>25 DEF UDPFails, MainType
  <2>2. FlagType' /\ RoutineType'
    BY <1>25 DEF UDPFails, FlagType, RoutineType
  <2>3. Ordered'
    BY <1>25 DEF UDPFails, MainType, FlagType, RoutineType, Ordered
  <2> QED  BY <2>1, <2>2, <2>3
<1>26. ASSUME ClientsEnd PROVE Kept
  <2>1. MainType'
    BY <1>26 DEF ClientsEnd, MainType
  <2>2. FlagType' /\ RoutineType'
    BY <1>26 DEF ClientsEnd, FlagType, RoutineType
  <2>3. Ordered'
    BY <1>26 DEF ClientsEnd, MainType, FlagType, RoutineType, Ordered
  <2> QED  BY <2>1, <2>2, <2>3
<1>27. ASSUME NEW r \in Readers, ReadStats(r) PROVE Kept
  <2>1. MainType'
    BY <1>27 DEF ReadStats, MainType
  <2>2. FlagType' /\ RoutineType'
    BY <1>27 DEF ReadStats, FlagType, RoutineType
  <2>3. Ordered'
    BY <1>27 DEF ReadStats, MainType, FlagType, RoutineType, Ordered
  <2> QED  BY <2>1, <2>2, <2>3
<1>28. ASSUME NEW r \in {"processor", "hub"}, EndsWithContext(r) PROVE Kept
  <2>1. MainType'
    BY <1>28 DEF EndsWithContext, MainType
  <2>2. FlagType' /\ RoutineType'
    BY <1>28 DEF EndsWithContext, FlagType, RoutineType
  <2>3. Ordered'
    BY <1>28 DEF EndsWithContext, MainType, FlagType, RoutineType, Ordered
  <2> QED  BY <2>1, <2>2, <2>3
<1>29. ASSUME UDPPanics PROVE Kept
  <2>1. MainType'
    BY <1>29 DEF UDPPanics, MainType
  <2>2. FlagType' /\ RoutineType'
    BY <1>29 DEF UDPPanics, FlagType, RoutineType
  <2>3. Ordered'
    BY <1>29 DEF UDPPanics, MainType, FlagType, RoutineType, Ordered
  <2> QED  BY <2>1, <2>2, <2>3
<1>30. ASSUME ClientsCome PROVE Kept
  <2>1. MainType'
    BY <1>30 DEF ClientsCome, MainType
  <2>2. FlagType' /\ RoutineType'
    BY <1>30 DEF ClientsCome, FlagType, RoutineType
  <2>3. Ordered'
    BY <1>30 DEF ClientsCome, MainType, FlagType, RoutineType, Ordered
  <2> QED  BY <2>1, <2>2, <2>3
<1> QED
  BY <1>1, <1>2, <1>3, <1>4, <1>5, <1>6, <1>7, <1>8, <1>9, <1>10, <1>11, <1>12, <1>13,
     <1>14, <1>15, <1>16, <1>17, <1>18, <1>19, <1>20, <1>21, <1>22, <1>23, <1>24, <1>25,
     <1>26, <1>27, <1>28, <1>29, <1>30
  DEF Next, MainStep, HealthStep, UDPStep, ProcessorStep, HubStep, WSStep,
      BroadcasterStep, Readers

LEMMA NextIInv == IInv /\ [Next]_vars => IInv'
<1>1. ASSUME IInv, Next PROVE IInv'
  <2>1. EventType' /\ Placed'
    BY <1>1, EventsStep
  <2>2. ReportType' /\ Reports'
    BY <1>1, ReportsStep
  <2>3. MainType' /\ FlagType' /\ RoutineType' /\ Ordered'
    BY <1>1, ControlStep
  <2> QED  BY <2>1, <2>2, <2>3 DEF IInv, Typed
<1>2. ASSUME IInv, UNCHANGED vars PROVE IInv'
  <2> USE <1>2 DEF vars, events, IInv, Typed
  <2>1. MainType' /\ FlagType' /\ RoutineType' /\ EventType' /\ ReportType'
    BY DEF MainType, FlagType, RoutineType, EventType, ReportType
  <2>2. Placed' /\ Reports'
    BY DEF Placed, Waiting, Reports, Read
  <2>3. Ordered'
    BY DEF Ordered, Running, ShuttingDown, PanicsHaveACause, SizeRefused
  <2> QED  BY <2>1, <2>2, <2>3
<1> QED  BY <1>1, <1>2

(* To the server, a dashboard is a client that may come at any time. *)
LEMMA DashboardSteps == [ServerStep \/ DashStep \/ LinkStep]_dvars => [Next]_vars \/ Register
BY DEF ServerStep, DashStep, LinkStep, Connect, UpdateShown, ErrorShown, Reconnect,
       ConnectionBreaks, dvars

LEMMA RegisterIInv == IInv /\ Register => IInv'
<1> SUFFICES ASSUME IInv, Register PROVE IInv'
  OBVIOUS
<1>1. /\ UNCHANGED <<main, cfg, signalled, ctxDone, routine, wsDone, events, report, ended>>
      /\ served' \in BOOLEAN
  BY DEF Register
<1> USE <1>1 DEF IInv, Typed, events
<1>2. MainType' /\ FlagType' /\ RoutineType' /\ EventType' /\ ReportType'
  BY DEF MainType, FlagType, RoutineType, EventType, ReportType
<1>3. Placed' /\ Reports'
  BY DEF Placed, Waiting, Reports, Read
<1>4. Ordered'
  BY DEF Ordered, Running, ShuttingDown, PanicsHaveACause, SizeRefused
<1> QED  BY <1>2, <1>3, <1>4

LEMMA Invariance == Spec \/ DashSpec => []IInv
<1>1. Spec => []IInv
  BY InitIInv, NextIInv, PTL DEF Spec
<1>2. DashInit => IInv
  BY InitIInv DEF DashInit
<1>3. IInv /\ [ServerStep \/ DashStep \/ LinkStep]_dvars => IInv'
  BY NextIInv, DashboardSteps, RegisterIInv
<1>4. DashSpec => []IInv
  BY <1>2, <1>3, PTL DEF DashSpec
<1> QED  BY <1>1, <1>4
-----------------------------------------------------------------------------
(* The variables have their types; in particular the telemetry channel     *)
(* never holds more than its capacity (main.go:84).                        *)
THEOREM TypeCorrect == Spec \/ DashSpec => []TypeOK
<1>1. IInv => TypeOK
  BY TypedIsTypeOK DEF IInv
<1> QED  BY <1>1, Invariance, PTL

LEMMA WaitingCounted ==
  ASSUME EventType, Placed
  PROVE  Cardinality(Waiting) = Len(telemetry)
<1> DEFINE n == Len(telemetry)
           nth == [i \in 1 .. n |-> telemetry[i]]
<1>1. n \in Nat /\ DOMAIN telemetry = 1 .. n
  BY DEF EventType
<1>2. IsFiniteSet(1 .. n) /\ Cardinality(1 .. n) = n
  <2> HIDE DEF n
  <2> QED  BY <1>1, FS_Interval
<1>3. nth \in Bijection(1 .. n, Waiting)
  BY <1>1, Fun_IsBij DEF Placed, Waiting
<1>4. ExistsBijection(1 .. n, Waiting)
  BY <1>3 DEF ExistsBijection
<1> QED  BY <1>2, <1>4, FS_Bijection

(* Every event the workers produced is in one place: it waits, was         *)
(* dropped, or was taken by exactly one of the registry's processor and    *)
(* the hub, whichever goroutine ran first (main.go:89, 97).                *)
THEOREM HandledOnce == Spec \/ DashSpec => []EventsHandledOnce
<1>1. ASSUME IInv PROVE EventsHandledOnce
  <2> DEFINE places == <<Waiting, dropped, applied, fanned>>
  <2>1. /\ places[1] = Waiting /\ places[2] = dropped
        /\ places[3] = applied /\ places[4] = fanned
    OBVIOUS
  <2>2. UNION {places[i] : i \in 1 .. 4}
          = places[1] \cup places[2] \cup places[3] \cup places[4]
    <3> HIDE DEF places
    <3>1. 1 .. 4 = {1, 2, 3, 4}
      OBVIOUS
    <3> QED  BY <3>1, Zenon
  <2>3. UNION {places[i] : i \in 1 .. 4} = 1 .. produced
    BY <1>1, <2>1, <2>2, Zenon DEF IInv, Placed
  <2>4. ASSUME NEW i \in 1 .. 4, NEW j \in 1 .. 4, i # j
        PROVE  places[i] \cap places[j] = {}
    <3>1. /\ Waiting \cap dropped = {} /\ Waiting \cap applied = {}
          /\ Waiting \cap fanned = {} /\ dropped \cap applied = {}
          /\ dropped \cap fanned = {} /\ applied \cap fanned = {}
      BY <1>1, Zenon DEF IInv, Placed
    <3>2. i \in {1, 2, 3, 4} /\ j \in {1, 2, 3, 4}
      OBVIOUS
    <3> HIDE DEF places
    <3> QED  BY <2>1, <2>4, <3>1, <3>2
  <2>5. Cardinality(Waiting) = Len(telemetry)
    BY <1>1, WaitingCounted DEF IInv, Typed
  <2> QED  BY <2>3, <2>4, <2>5 DEF EventsHandledOnce
<1> QED  BY <1>1, Invariance, PTL

(* No report ever shows more messages and events handled than packets      *)
(* received, whatever the counters do while it reads them (main.go:177-    *)
(* 180).                                                                   *)
THEOREM ReportsAddUp == Spec \/ DashSpec => []HealthAddsUp
<1>1. IInv => HealthAddsUp
  BY DEF IInv, Reports, Read, HealthAddsUp
<1> QED  BY <1>1, Invariance, PTL

(* Whatever the router does with a pattern given twice, the process panics *)
(* elsewhere only when it was signalled and main shuts it down, or for a   *)
(* negative size the file was allowed to ask for (main.go:91-166,          *)
(* udp.go:102, config.go:134-148).                                         *)
THEOREM PanicsPlaced == Spec \/ DashSpec => [](main # "registering" => PanicsHaveACause)
<1>1. IInv => (main # "registering" => PanicsHaveACause)
  BY DEF IInv, Ordered, PanicsHaveACause
<1> QED  BY <1>1, Invariance, PTL

LEMMA PanicSteps ==
  Next => \/ RegisterHealth \/ SubscribeFails \/ MainStopsWS \/ UDPPanics
          \/ UDPCrashes \/ WSStops \/ ended' # "panic"
BY DEF Next, MainStep, HealthStep, UDPStep, ProcessorStep, HubStep, WSStep,
   BroadcasterStep, LoadFails, Load, SubscribeFails, StartComponents, RegisterHealth, ReceiveSignal,
   MainStopsWS, MainWaitedWS, MainStopsHub, MainStopsManager, ReadStats,
   MainExits, HealthAnswered, UDPPanics, UDPReturns, UDPCrashes, EndsWithContext, BroadcasterTicks,
   BroadcasterReturns, WSStops, WSReturns, ListenerReturns, Signal, UDPFails, ClientsCome, ClientsEnd,
   Receive, Produce, ProcessorTakes, HubTakes, Runs, Running

(* With a router that takes the second handler the process panics only     *)
(* once it was signalled and main shuts it down, or for a negative size    *)
(* (main.go:91-166).                                                       *)
THEOREM PanicsWait ==
  ASSUME MuxReplaces
  PROVE  Spec \/ DashSpec => []PanicsHaveACause
<1> DEFINE Begun == main = "registering" /\ ended = "panic" => PanicsHaveACause
<1>1. Init => Begun
  BY DEF Init
<1>2. ASSUME IInv, Begun, Next PROVE Begun'
  <2>1. CASE RegisterHealth
    BY <2>1 DEF RegisterHealth
  <2>2. CASE SubscribeFails
    BY <2>2 DEF SubscribeFails
  <2>3. CASE MainStopsWS
    BY <2>3 DEF MainStopsWS
  <2>4. CASE UDPPanics
    BY <2>4 DEF UDPPanics, Runs, PanicsHaveACause, SizeRefused
  <2>5. CASE UDPCrashes
    BY <1>2, <2>5 DEF UDPCrashes, Runs, IInv, Ordered, ShuttingDown
  <2>6. CASE WSStops
    BY <1>2, <2>6 DEF WSStops, CloseDone, Runs, Running, IInv, Ordered
  <2> QED  BY <1>2, <2>1, <2>2, <2>3, <2>4, <2>5, <2>6, PanicSteps
<1>3. IInv /\ Begun /\ [Next]_vars => Begun'
  BY <1>2 DEF vars, PanicsHaveACause, SizeRefused, ShuttingDown
<1>4. IInv /\ Begun => PanicsHaveACause
  BY DEF IInv, Ordered, PanicsHaveACause
<1>5. ASSUME Begun, Register PROVE Begun'
  BY <1>5 DEF Register, Running
<1>6. DashInit => Begun
  BY <1>1 DEF DashInit
<1>7. IInv /\ Begun /\ [ServerStep \/ DashStep \/ LinkStep]_dvars => Begun'
  BY <1>3, <1>5, DashboardSteps
<1> HIDE DEF Begun
<1>8. Spec => []PanicsHaveACause
  BY <1>1, <1>3, <1>4, Invariance, PTL DEF Spec
<1>9. DashSpec => []PanicsHaveACause
  BY <1>4, <1>6, <1>7, Invariance, PTL DEF DashSpec
<1> QED  BY <1>8, <1>9

LEMMA SizesChosenOnce == Next => Load \/ UNCHANGED cfg
BY Zenon DEF Next, MainStep, HealthStep, UDPStep, ProcessorStep, HubStep, WSStep,
   BroadcasterStep, LoadFails, SubscribeFails, StartComponents, RegisterHealth, ReceiveSignal,
   MainStopsWS, MainWaitedWS, MainStopsHub, MainStopsManager, ReadStats,
   MainExits, HealthAnswered, UDPPanics, UDPReturns, UDPCrashes, EndsWithContext,
   BroadcasterTicks, BroadcasterReturns, WSStops, WSReturns, ListenerReturns, Signal,
   UDPFails, ClientsCome, ClientsEnd, Receive, Produce, ProcessorTakes, HubTakes, events

(* A file that leaves the three sizes alone panics no server before it was *)
(* signalled, whatever else it asks for: the defaults are merged in        *)
(* (config.go:134-148).                                                    *)
THEOREM PanicsAwaitSignal ==
  ASSUME MuxReplaces, InFile \cap Sizes = {}
  PROVE  Spec \/ DashSpec =>
           [](ended = "panic" => signalled /\ ctxDone /\ ShuttingDown)
<1> DEFINE Usable == \A s \in Sizes : cfg[s] = 1
<1>1. Init => Usable
  BY DEF Init, Default, Sizes, Settings
<1>2. ASSUME IInv, Usable, Next PROVE Usable'
  <2>1. CASE Load
    <3>1. PICK f \in Files, workers \in {0, 1} : cfg' = Override(LoadFile(f), workers)
      BY <2>1 DEF Load
    <3>2. PICK S \in SUBSET InFile : f \in [S -> {0, 1}]
      BY DEF Files
    <3>3. \A s \in Sizes : s \notin DOMAIN f /\ s \in Settings /\ s # "pool_size"
      BY <3>2 DEF Sizes, Settings
    <3>4. \A s \in Sizes : LoadFile(f)[s] = 1
      BY <3>3 DEF LoadFile, Default
    <3>5. \A s \in Sizes : Override(LoadFile(f), workers)[s] = LoadFile(f)[s]
      BY <3>3 DEF Override, LoadFile
    <3> QED  BY <3>1, <3>4, <3>5
  <2>2. CASE UNCHANGED cfg
    BY <1>2, <2>2
  <2> QED  BY <1>2, <2>1, <2>2, SizesChosenOnce
<1>3. IInv /\ Usable /\ [Next]_vars => Usable'
  BY <1>2 DEF vars
<1>4. IInv /\ Usable /\ [ServerStep \/ DashStep \/ LinkStep]_dvars => Usable'
  BY <1>3, DashboardSteps DEF Register
<1>5. DashInit => Usable
  BY <1>1 DEF DashInit
<1>6. Usable /\ PanicsHaveACause =>
        (ended = "panic" => signalled /\ ctxDone /\ ShuttingDown)
  BY DEF PanicsHaveACause, SizeRefused, Sizes
<1> HIDE DEF Usable
<1>7. Spec => [](ended = "panic" => signalled /\ ctxDone /\ ShuttingDown)
  BY <1>1, <1>3, <1>6, Invariance, PanicsWait, PTL DEF Spec
<1>8. DashSpec => [](ended = "panic" => signalled /\ ctxDone /\ ShuttingDown)
  BY <1>4, <1>5, <1>6, Invariance, PanicsWait, PTL DEF DashSpec
<1> QED  BY <1>7, <1>8

(* With net/http, whose router panics when a pattern is registered twice,  *)
(* main never comes to wait for a signal: the server never runs            *)
(* (main.go:146-150, 177).                                                 *)
THEOREM NeverServes ==
  ASSUME ~MuxReplaces
  PROVE  Spec \/ DashSpec => [](main \in {"loading", "starting", "registering", "done"})
<1> DEFINE Early == main \in {"loading", "starting", "registering", "done"}
<1>1. Init => Early
  BY DEF Init
<1>2. Early /\ Next => Early'
  BY DEF Next, MainStep, HealthStep, UDPStep, ProcessorStep, HubStep, WSStep,
     BroadcasterStep, LoadFails, Load, SubscribeFails, StartComponents, RegisterHealth, ReceiveSignal,
     MainStopsWS, MainWaitedWS, MainStopsHub, MainStopsManager, ReadStats,
     MainExits, HealthAnswered, UDPPanics, UDPReturns, UDPCrashes, EndsWithContext, BroadcasterTicks,
     BroadcasterReturns, WSStops, WSReturns, ListenerReturns, Signal, UDPFails, ClientsCome, ClientsEnd,
     Receive, Produce, ProcessorTakes, HubTakes, Runs, Running, events
<1>3. Early /\ [Next]_vars => Early'
  BY <1>2 DEF vars
<1>4. DashInit => Early
  BY <1>1 DEF DashInit
<1>5. Early /\ [ServerStep \/ DashStep \/ LinkStep]_dvars => Early'
  BY <1>3, DashboardSteps DEF Register
<1> HIDE DEF Early
<1>6. Spec => []Early
  BY <1>1, <1>3, PTL DEF Spec
<1>7. DashSpec => []Early
  BY <1>4, <1>5, PTL DEF DashSpec
<1> QED  BY <1>6, <1>7 DEF Early
-----------------------------------------------------------------------------
(* How far each part is when main exits.                                   *)

(* The goroutine of wsServer.Start has closed done, or main has, and then  *)
(* that goroutine may not go on; what main has waited for has ended.       *)
Exiting ==
  /\ main \in {"loading", "starting", "done"} \/ routine["ws"] # "none"
  /\ routine["ws"] \in {"none", "running", "stopping", "returned"}
  /\ routine["ws"] \in {"stopping", "returned"} => wsDone
  /\ main \in {"waitWS", "stopHub", "stopManager", "printing"} /\ ended # "panic" =>
       wsDone /\ routine["ws"] = "running"
  /\ main \in {"stopHub", "stopManager", "printing"} =>
       routine["broadcaster"] = "returned" /\ routine["listener"] = "returned"
  /\ main \in {"stopManager", "printing"} => routine["hub"] = "returned"
  /\ main = "printing" => Ticks("stale_check_interval")

(* main has ended after it had started the components. *)
Exited == ended = "exit" /\ routine["ws"] # "none"

ExitedInTurn ==
  Exited =>
    /\ signalled /\ ctxDone /\ wsDone
    /\ \A r \in {"broadcaster", "listener", "hub"} : routine[r] = "returned"
    /\ Ticks("stale_check_interval")
    /\ report["main"].read = 3
    /\ routine["ws"] = "running"

LEMMA NextExiting == IInv /\ Exiting /\ ExitedInTurn /\ [Next]_vars => Exiting' /\ ExitedInTurn'
<1> SUFFICES ASSUME IInv, Exiting, ExitedInTurn, [Next]_vars PROVE Exiting' /\ ExitedInTurn'
  OBVIOUS
<1>0. MainType /\ RoutineType /\ ReportType /\ Ordered
  BY DEF IInv, Typed
<1> DEFINE Same == UNCHANGED <<main, cfg, routine, wsDone, signalled, ctxDone, ended>>
                   /\ (Exited => UNCHANGED report)
<1>1. Same => Exiting' /\ ExitedInTurn'
  BY DEF Exiting, ExitedInTurn, Exited, Ticks
<1>2. CASE Receive \/ Produce \/ ProcessorTakes \/ HubTakes \/ BroadcasterTicks \/ ClientsCome \/ ClientsEnd
  <2>1. Same
    BY <1>2 DEF Receive, Produce, ProcessorTakes, HubTakes, BroadcasterTicks, ClientsCome,
                ClientsEnd
  <2> QED  BY <1>1, <2>1
<1>3. CASE HealthAnswered \/ \E r \in Readers : ReadStats(r)
  <2>1. Same
    BY <1>3 DEF HealthAnswered, ReadStats, Exited, Running
  <2> QED  BY <1>1, <2>1
<1>4. CASE UNCHANGED vars
  BY <1>1, <1>4 DEF vars
<1> HIDE DEF Same
<1>5. ASSUME Running, Running' PROVE ExitedInTurn'
  BY <1>5 DEF ExitedInTurn, Exited, Running
<1>6. ASSUME ended' = "panic" PROVE ExitedInTurn'
  BY <1>6 DEF ExitedInTurn, Exited
<1>7. ASSUME LoadFails \/ Load
      PROVE  Exiting' /\ ExitedInTurn'
  BY <1>0, <1>7 DEF LoadFails, Load, Ordered, Exiting, ExitedInTurn, Exited, Running, Routines
<1>8. CASE StartComponents
  BY <1>0, <1>5, <1>8 DEF StartComponents, Ordered, Exiting, Running, Routines
<1>9. CASE RegisterHealth
  BY <1>0, <1>5, <1>6, <1>9 DEF RegisterHealth, Exiting, Running
<1>10. CASE Signal \/ ReceiveSignal
  BY <1>0, <1>5, <1>10 DEF Signal, ReceiveSignal, Exiting, Running, Ticks
<1>11. CASE MainStopsWS
  <2>1. Exiting'
    BY <1>0, <1>11 DEF MainStopsWS, CloseDone, Exiting, Running
  <2>2. ExitedInTurn'
    BY <1>11, <1>5, <1>6 DEF MainStopsWS, CloseDone, Running
  <2> QED  BY <2>1, <2>2
<1>12. CASE MainWaitedWS \/ MainStopsHub \/ MainStopsManager
  BY <1>0, <1>5, <1>12
  DEF MainWaitedWS, WSGroupDone, MainStopsHub, MainStopsManager, Exiting, Running, Ticks
<1>13. CASE MainExits
  BY <1>0, <1>13 DEF MainExits, Exiting, ExitedInTurn, Exited, Running, Ordered, ShuttingDown, Ticks
<1>14. ASSUME UDPFails \/ UDPReturns \/ \E r \in {"processor", "hub"} : EndsWithContext(r)
      PROVE  Exiting' /\ ExitedInTurn'
  <2>1. /\ UNCHANGED <<main, cfg, wsDone, ended>> /\ Running /\ Running'
        /\ \A r \in {"ws", "broadcaster", "listener"} : routine'[r] = routine[r]
        /\ routine["hub"] = "returned" => routine'["hub"] = "returned"
    BY <1>0, <1>14 DEF UDPFails, UDPReturns, EndsWithContext, Becomes, Runs, Running,
                       RoutineType, Routines
  <2>2. Exiting'
    BY <2>1 DEF Exiting, Ticks
  <2> QED  BY <1>5, <2>1, <2>2
<1>15. CASE BroadcasterReturns \/ ListenerReturns
  <2>1. /\ UNCHANGED <<main, cfg, wsDone, ended>> /\ Running /\ Running'
        /\ \A r \in {"ws", "hub"} : routine'[r] = routine[r]
        /\ \A r \in {"broadcaster", "listener"} :
             routine[r] = "returned" => routine'[r] = "returned"
    BY <1>0, <1>15 DEF BroadcasterReturns, ListenerReturns, Becomes, Runs, Running,
                       RoutineType, Routines
  <2>2. Exiting'
    BY <2>1 DEF Exiting, Ticks
  <2> QED  BY <1>5, <2>1, <2>2
<1>16. CASE UDPCrashes \/ UDPPanics \/ SubscribeFails
  BY <1>6, <1>16 DEF UDPCrashes, UDPPanics, SubscribeFails, Exiting, Ticks
<1>17. CASE WSStops
  <2>1. /\ UNCHANGED <<main, cfg>> /\ wsDone' /\ Running
        /\ ended' = IF wsDone THEN "panic" ELSE ended
        /\ routine'["ws"] = "stopping"
        /\ \A r \in {"hub", "broadcaster", "listener"} : routine'[r] = routine[r]
    BY <1>0, <1>17 DEF WSStops, CloseDone, Becomes, Runs, RoutineType, Routines
  <2>2. Exiting'
    BY <2>1 DEF Exiting, Ticks, Running
  <2>3. ExitedInTurn'
    BY <2>1, <1>5, <1>6 DEF Running
  <2> QED  BY <2>2, <2>3
<1>18. CASE WSReturns
  <2>1. /\ UNCHANGED <<main, cfg, wsDone, ended>> /\ Running /\ Running'
        /\ routine["ws"] = "stopping" /\ routine'["ws"] = "returned"
        /\ \A r \in {"hub", "broadcaster", "listener"} : routine'[r] = routine[r]
    BY <1>0, <1>18 DEF WSReturns, Becomes, Running, RoutineType, Routines
  <2>2. Exiting'
    BY <2>1 DEF Exiting, Ticks, Running
  <2> QED  BY <1>5, <2>1, <2>2
<1> QED
  BY <1>2, <1>3, <1>4, <1>7, <1>8, <1>9, <1>10, <1>11, <1>12, <1>13, <1>14, <1>15, <1>16,
     <1>17, <1>18
  DEF Next, MainStep, HealthStep, UDPStep, ProcessorStep, HubStep, WSStep, BroadcasterStep,
      Readers

LEMMA RegisterExiting == Exiting /\ ExitedInTurn /\ Register => Exiting' /\ ExitedInTurn'
<1> SUFFICES ASSUME Exiting, ExitedInTurn, Register PROVE Exiting' /\ ExitedInTurn'
  OBVIOUS
<1>1. UNCHANGED <<main, cfg, signalled, ctxDone, routine, wsDone, report, ended>>
  BY DEF Register
<1>2. Exiting'
  BY <1>1 DEF Exiting, Ticks
<1>3. ExitedInTurn'
  BY <1>1 DEF ExitedInTurn, Exited, Ticks
<1> QED  BY <1>2, <1>3

(* Once the components were started, the process exits in turn or it       *)
(* panics: main exits only when it was signalled, the broadcast loop, the  *)
(* HTTP server and the hub have returned, and the statistics are complete  *)
(* (a client accepted late may still be served). And it exits only if the  *)
(* goroutine of wsServer.Start, which also calls Stop once the context is  *)
(* cancelled, has not gone on since: whenever that goroutine gets its turn *)
(* before main has exited, the second close(ws.done) ends the process      *)
(* (main.go:150-167, websocket.go:141-170).                                *)
THEOREM ExitsInTurn == Spec \/ DashSpec => []ExitedInTurn
<1> DEFINE Inv == Exiting /\ ExitedInTurn
<1>1. Init => Inv
  BY DEF Init, Exiting, ExitedInTurn, Exited, Routines, Ticks
<1>2. IInv /\ Inv /\ [Next]_vars => Inv'
  BY NextExiting
<1>3. DashInit => Inv
  BY <1>1 DEF DashInit
<1>4. IInv /\ Inv /\ [ServerStep \/ DashStep \/ LinkStep]_dvars => Inv'
  BY <1>2, DashboardSteps, RegisterExiting
<1>5. Inv => ExitedInTurn
  OBVIOUS
<1> HIDE DEF Inv
<1>6. Spec => []ExitedInTurn
  BY <1>1, <1>2, <1>5, Invariance, PTL DEF Spec
<1>7. DashSpec => []ExitedInTurn
  BY <1>3, <1>4, <1>5, Invariance, PTL DEF DashSpec
<1> QED  BY <1>6, <1>7
=============================================================================
