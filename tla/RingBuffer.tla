----------------------------- MODULE RingBuffer -----------------------------
(***************************************************************************)
(* The fixed-size circular buffer behind a drone's history                 *)
(* (internal/drone/history.go), as its single writer pushes to it.  Push   *)
(* and Last run under the buffer's mutex, so each is one step.             *)
(***************************************************************************)
EXTENDS RingBufferOps

CONSTANTS
  HistoryEntry,  (* the history entries                         *)
  MaxPushes      (* bound on the pushes of a behaviour          *)

ASSUME MaxPushesAssumption == MaxPushes \in Nat

VARIABLES
  rb,     (* the buffer                                       *)
  pushed  (* history variable: everything pushed, in order    *)

vars == <<rb, pushed>>

Init ==
  /\ rb = NewRingBuffer
  /\ pushed = <<>>

PushEntry(e) ==
  /\ Len(pushed) < MaxPushes
  /\ rb' = Push(rb, e)
  /\ pushed' = Append(pushed, e)

Next == \E e \in HistoryEntry : PushEntry(e)

Spec == Init /\ [][Next]_vars
-----------------------------------------------------------------------------
Window == INSTANCE HistoryWindow WITH window <- LastN(rb, rb.count)

(* The types of the buffer's fields: head stays a valid index and count    *)
(* never passes the capacity (history.go:44-48).                           *)
TypeOK ==
  /\ rb \in [entries : [Slots -> HistoryEntry \cup {ZeroEntry}],
             head : Slots, count : 0 .. Capacity]
  /\ pushed \in Seq(HistoryEntry)

(* Last(n) answers the n most recent pushes, oldest first, however often   *)
(* the head has wrapped and whatever n is asked for: history.go:51 and the *)
(* index arithmetic of history.go:63-67.                                   *)
LastIsSuffix ==
  \A n \in 0 .. Capacity + 1 :
    LastN(rb, n) = Window!Suffix(pushed, IF n > Capacity THEN Capacity ELSE n)

(* The buffer implements the bounded window of the most recent entries:    *)
(* every Push drops exactly the oldest entry of a full window              *)
(* (history.go:39-49).                                                     *)
ImplementsWindow == Window!Spec
=============================================================================
