---------------------------- MODULE HistoryWindow ----------------------------
(***************************************************************************)
(* What a drone's position history promises (internal/drone/history.go):   *)
(* the most recent Capacity entries that were pushed, oldest first.        *)
(***************************************************************************)
EXTENDS Integers, Sequences

CONSTANTS
  Capacity,      (* entries the window holds       *)
  HistoryEntry   (* the entries that may be pushed *)

VARIABLE window

(* The last n elements of the sequence s, or all of it when it is shorter. *)
Suffix(s, n) ==
  LET m == IF n > Len(s) THEN Len(s) ELSE n
  IN  [i \in 1 .. m |-> s[Len(s) - m + i]]

Init == window = <<>>

Record(e) == window' = Suffix(Append(window, e), Capacity)

Next == \E e \in HistoryEntry : Record(e)

Spec == Init /\ [][Next]_window
=============================================================================
