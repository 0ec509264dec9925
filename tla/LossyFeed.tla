------------------------------ MODULE LossyFeed ------------------------------
(***************************************************************************)
(* What the hub promises each subscriber, whatever the others do: a        *)
(* bounded first-in first-out feed of the events broadcast after it        *)
(* joined.  Events may be missing from a feed (a slow subscriber loses     *)
(* them) but are never reordered, repeated or delivered after the close,   *)
(* and what was queued when the feed closed can still be taken.            *)
(***************************************************************************)
EXTENDS Integers, Sequences

CONSTANTS
  Feeds,     (* the feeds, one per subscriber *)
  Events,    (* the events, in the order they are received: a set of numbers *)
  Capacity   (* events a feed may hold *)

VARIABLES
  opened,    (* the feeds that were ever opened                           *)
  closed,    (* those that were closed since                              *)
  queue,     (* what each feed holds                                      *)
  newest     (* the newest event each feed was given, 0 before any        *)

vars == <<opened, closed, queue, newest>>

Init ==
  /\ opened = {}
  /\ closed = {}
  /\ queue = [f \in Feeds |-> <<>>]
  /\ newest = [f \in Feeds |-> 0]

Open(f) ==
  /\ f \notin opened
  /\ opened' = opened \cup {f}
  /\ UNCHANGED <<closed, queue, newest>>

Give(f, e) ==
  /\ f \in opened \ closed
  /\ e > newest[f]
  /\ Len(queue[f]) < Capacity
  /\ queue' = [queue EXCEPT ![f] = Append(@, e)]
  /\ newest' = [newest EXCEPT ![f] = e]
  /\ UNCHANGED <<opened, closed>>

Take(f) ==
  /\ queue[f] # <<>>
  /\ queue' = [queue EXCEPT ![f] = Tail(@)]
  /\ UNCHANGED <<opened, closed, newest>>

(* Stopping the hub closes every feed at once. *)
Close(fs) ==
  /\ closed' = closed \cup fs
  /\ UNCHANGED <<opened, queue, newest>>

Next ==
  \/ \E f \in Feeds : Open(f) \/ Take(f) \/ \E e \in Events : Give(f, e)
  \/ \E fs \in SUBSET (opened \ closed) : Close(fs)

Spec == Init /\ [][Next]_vars
=============================================================================
