--------------------------- MODULE MCDroneRegistry ---------------------------
(* RestAPI for TLC: the drones d1 and d2 are two components of one vehicle, *)
(* and so share its system id.                                              *)
EXTENDS RestAPI

CONSTANTS d1, d2

OneSystem == [d \in {d1, d2} |-> 1]

Payload(kind, short, armed) == [kind |-> kind, short |-> short, armed |-> armed]

Heartbeats == {Payload("heartbeat", FALSE, b) : b \in BOOLEAN}
Gps == Payload("gps", FALSE, FALSE)

WellFormed == Heartbeats \cup {Gps}

(* A position cut short, as MAVLink 2 cuts trailing zeros, too. *)
Mixed == WellFormed \cup {Payload("gps", TRUE, FALSE)}
=============================================================================
