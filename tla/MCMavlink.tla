------------------------------ MODULE MCMavlink ------------------------------
(* Replay and Mavlink for TLC: drones at the limits of what the decoder    *)
(* accepts, and captures cut or damaged at every place of a record.        *)
EXTENDS Replay, Crc

Home == [system |-> 1, armed |-> FALSE, mode |-> 0, lat |-> 377749000,
         lon |-> -1224194000, alt |-> 10000, home |-> 10000, heading |-> 9000,
         angles |-> [i \in 1 .. 24 |-> i], cell |-> 4200, battery |-> 100]

(* In the air, heading north; the last byte of each message is zero. *)
North == [Home EXCEPT !.system = 250, !.armed = TRUE, !.mode = 4, !.alt = 60000,
                      !.heading = 100, !.angles = [i \in 1 .. 24 |-> 0], !.battery = 0]

(* At a pole and the date line, below sea level, with an unknown heading.  *)
Pole == [Home EXCEPT !.lat = -900000000, !.lon = 1800000000, !.alt = -1, !.heading = 65535]

Limits == {Home, North, Pole,
           [Home EXCEPT !.lat = 900000001], [Home EXCEPT !.lon = -1800000001],
           [Home EXCEPT !.alt = 100000001],
           [Home EXCEPT !.system = 0], [Home EXCEPT !.system = 251]}

Circle == [lat |-> 377759000, lon |-> -1224194000, heading |-> 9000]

AnySize == 0 .. Len(Capture)

Misread(n) == {0, 1, n - 1, n + 1, 300, 301, 65535}

(* Why one byte that differs leaves checksums that differ (FindsOneByte of *)
(* ReplayProofs): it leads to another entry of the table, whose high byte  *)
(* becomes the register's, and no byte that is the same makes registers    *)
(* alike again.                                                            *)
ASSUME RegistersStayApart ==
  \A low, other \in 0 .. 255 :
    low # other => Division[low] \div 256 # Division[other] \div 256
-----------------------------------------------------------------------------
(* The checksum computed byte by byte is the division by the polynomial,   *)
(* bit by bit (crc.go:3-33).                                               *)
CrcIsStandard ==
  wire # <<>> =>
    crcCalculate(Tail(wire), 0) = StandardCrc(Append(Tail(wire), 0))
=============================================================================
