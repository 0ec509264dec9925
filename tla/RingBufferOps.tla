---------------------------- MODULE RingBufferOps ----------------------------
(***************************************************************************)
(* The operations of the circular buffer of internal/drone/history.go, on  *)
(* a buffer value.  RingBuffer states and proves what they achieve;        *)
(* DroneRegistry keeps one such value for the history of every drone.      *)
(***************************************************************************)
EXTENDS Integers, Sequences

CONSTANTS
  Capacity,   (* NewRingBuffer's capacity                       *)
  ZeroEntry   (* the zero HistoryEntry of a slot never written  *)

ASSUME CapacityAssumption == Capacity \in Nat \ {0}

Slots == 0 .. Capacity - 1
NewRingBuffer ==
  [entries |-> [s \in Slots |-> ZeroEntry], head |-> 0, count |-> 0]

(* Mutant: the count keeps growing once the buffer is full. *)
MutPushCountGrows(b, e) ==
  [entries |-> [b.entries EXCEPT ![b.head] = e],
   head    |-> (b.head + 1) % Capacity,
   count   |-> b.count + 1]

(* Mutant: the head wraps one slot early, so one slot is never used. *)
MutPushWrapsEarly(b, e) ==
  [entries |-> [b.entries EXCEPT ![b.head] = e],
   head    |-> IF b.head + 2 < Capacity THEN b.head + 1 ELSE 0,
   count   |-> IF b.count < Capacity THEN b.count + 1 ELSE b.count]

Push(b, e) ==
  [entries |-> [b.entries EXCEPT ![b.head] = e],
   head    |-> (b.head + 1) % Capacity,
   count   |-> IF b.count < Capacity THEN b.count + 1 ELSE b.count]

(* Mutant: reads from the slot after the newest entry whatever n is. *)
MutLastNFromHead(b, n) ==
  LET m == IF n > b.count THEN b.count ELSE n
  IN  [i \in 1 .. m |-> b.entries[(b.head + i - 1) % Capacity]]

(* Mutant: the most recent entry comes first. *)
MutLastNNewestFirst(b, n) ==
  LET m == IF n > b.count THEN b.count ELSE n
  IN  [i \in 1 .. m |-> b.entries[(b.head - i + Capacity) % Capacity]]

(* The most recent n entries, oldest first; none is the empty sequence. *)
LastN(b, n) ==
  LET m     == IF n > b.count THEN b.count ELSE n
      start == (b.head - m + Capacity) % Capacity
  IN  [i \in 1 .. m |-> b.entries[(start + i - 1) % Capacity]]
=============================================================================
