------------------------------- MODULE Mavlink -------------------------------
(***************************************************************************)
(* MAVLink frames from the sender to the event: the simulator's builders   *)
(* (cmd/simulator/main.go) encode the state of a drone, the line may       *)
(* damage the datagram, and the decoder (internal/mavlink) makes an event  *)
(* of it or rejects it.                                                    *)
(*                                                                         *)
(* A datagram is a sequence of bytes.  What the checksum of bytes is, is   *)
(* left to Crc: here it is any number, and TLC is given the real one.      *)
(* Positions are in the units of the wire (1e-7 degrees, millimetres,      *)
(* centidegrees, millivolts); speeds, dilutions and currents are left out, *)
(* and the six angles of ATTITUDE are the bytes they are.                  *)
(* Why a datagram is rejected is not kept: the worker only counts it.      *)
(***************************************************************************)
EXTENDS Integers, Sequences

CONSTANTS
  Checksum(_, _),  (* crcCalculate, of bytes and a seed                   *)
  Drones,          (* the states of drones that are encoded               *)
  TrimZeros,       (* whether senders may cut trailing zeros, as MAVLink  *)
                   (* 2 may                                               *)
  MaxFrames        (* bound on the frames sent                            *)

VARIABLES
  cycle,  (* msgCycle of the simulator                                    *)
  sent,   (* what was encoded last: the drone, the message, the payload's *)
          (* length on the wire                                           *)
  wire,   (* the datagram on its way                                      *)
  hurt,   (* whether it was damaged                                       *)
  event   (* what the decoder made of it                                  *)

vars == <<cycle, sent, wire, hurt, event>>

Between(low, high) == {n \in Int : low <= n /\ n <= high}

Byte == Between(0, 255)
Uint16 == Between(0, 65535)
Int32 == Between(-2147483647 - 1, 2147483647)
Bytes(n) == {s \in Seq(Byte) : Len(s) = n}

(* What the fields of a SimDrone hold, in the units of the wire; a cell    *)
(* voltage of 65535 would mean that there is no cell.                      *)
DroneState ==
  [system : Byte, armed : BOOLEAN, mode : {0, 4}, lat : Int32, lon : Int32,
   alt : Int32, home : Int32, heading : Uint16, angles : Bytes(24),
   cell : Between(0, 65534), battery : Between(0, 100)]

ASSUME MavlinkAssumption ==
  /\ Drones \subseteq DroneState
  /\ TrimZeros \in BOOLEAN
  /\ MaxFrames \in Nat

(* s[k] and s[from:to] of Go. *)
At(s, k) == s[k + 1]
Slice(s, from, to) == SubSeq(s, from + 1, to)

Unsigned16(s, k) == At(s, k) + 256 * At(s, k + 1)

Signed8(b) == IF b >= 128 THEN b - 256 ELSE b

(* The signed number whose four little-endian bytes start at k. *)
Signed32(s, k) ==
  Unsigned16(s, k) + 65536 * At(s, k + 2) + 16777216 * Signed8(At(s, k + 3))

(* binary.LittleEndian of encoding/binary, of n in two's complement. *)
PutUint16(n) == <<n % 256, (n \div 256) % 256>>
PutUint32(n) ==
  <<n % 256, (n \div 256) % 256, (n \div 65536) % 256, (n \div 16777216) % 256>>

Filled(w, b) == [i \in 1 .. w |-> b]
-----------------------------------------------------------------------------
(* The messages, and their checksum seeds (crc.go).                        *)

HeartbeatID == 0
GPSRawID == 24
AttitudeID == 30
GlobalPositionID == 33
BatteryID == 147

crcSeed ==
  [id \in {0, 1, 24, 30, 33, 147, 245} |->
     CASE id = 0 -> 50 [] id = 1 -> 124 [] id = 24 -> 24 [] id = 30 -> 39
       [] id = 33 -> 104 [] id = 147 -> 154 [] id = 245 -> 130]
-----------------------------------------------------------------------------
(* The simulator's builders.  d is the state of a drone; no byte of its    *)
(* clock is zero, and its velocities are any.                              *)

Clock(w) == Filled(w, 85)

buildHeartbeat(d) ==
  PutUint32(d.mode * 65536 + 4 * 16777216)
    \o <<2, 12, IF d.armed THEN 129 ELSE 1, 4, 3>>

buildGlobalPosition(d) ==
  Clock(4) \o PutUint32(d.lat) \o PutUint32(d.lon)
    \o PutUint32(d.alt) \o PutUint32(d.alt - d.home)
    \o (Filled(4, 1) \o Filled(2, 0)) \o PutUint16(d.heading)

buildGPSRaw(d) ==
  Clock(7) \o <<3>> \o PutUint32(d.lat) \o PutUint32(d.lon)
    \o PutUint32(d.alt) \o PutUint16(120) \o PutUint16(150)
    \o PutUint16(500) \o PutUint16(d.heading) \o <<0, 12>>

buildAttitude(d) == Clock(4) \o d.angles

buildBatteryStatus(d) ==
  LET cell == PutUint16(d.cell)
  IN  Filled(10, 0) \o cell \o cell \o cell \o cell \o Filled(12, 255)
        \o PutUint16(50) \o Filled(3, 0) \o <<d.battery>>

(* The messages the simulator cycles through. *)
MessageOf(n) ==
  <<HeartbeatID, GlobalPositionID, AttitudeID, BatteryID, GPSRawID>>[1 + (n % 5)]

PayloadOf(d, id) ==
  CASE id = HeartbeatID      -> buildHeartbeat(d)
    [] id = GlobalPositionID -> buildGlobalPosition(d)
    [] id = AttitudeID       -> buildAttitude(d)
    [] id = BatteryID        -> buildBatteryStatus(d)
    [] id = GPSRawID         -> buildGPSRaw(d)

buildFrame(d, seq, id, payload) ==
  LET body == <<Len(payload), 0, 0, seq, d.system, 1, id, 0, 0>> \o payload
  IN  <<253>> \o body \o PutUint16(Checksum(body, crcSeed[id]))

(* External: the payload as an autopilot sends it, without trailing zeros, *)
(* of which it keeps at least one byte.                                    *)
Trimmed(p) ==
  LET full == {i \in 1 .. Len(p) : i = 1 \/ p[i] # 0}
  IN  SubSeq(p, 1, CHOOSE i \in full : \A j \in full : j <= i)
-----------------------------------------------------------------------------
(* The decoder (parser.go, validate.go).                                   *)

PayloadEnd(data) == 10 + At(data, 1)

(* The header, the payload and the checksum, and a signature if flagged.   *)
FrameSize(data) == PayloadEnd(data) + 2 + IF At(data, 2) % 2 = 1 THEN 13 ELSE 0

MessageID(data) == Unsigned16(data, 7) + 65536 * At(data, 9)

ChecksumValid(data) ==
  LET id  == MessageID(data)
      end == PayloadEnd(data)
  IN  id \in DOMAIN crcSeed =>
        Checksum(Slice(data, 1, end), crcSeed[id]) = Unsigned16(data, end)

(* Mutant: the checksum is not compared. *)
MutParsesUnchecked(data) ==
  /\ Len(data) >= 12
  /\ At(data, 0) = 253
  /\ Len(data) >= FrameSize(data)

(* ParseFrame finds a frame at the start of the data. *)
Parses(data) ==
  /\ Len(data) >= 12
  /\ At(data, 0) = 253
  /\ Len(data) >= FrameSize(data)
  /\ ChecksumValid(data)

NilPayload == [kind |-> "nil"]

(* The flight mode the registry derives from a heartbeat (manager.go): the *)
(* main and sub mode are bytes 2 and 3 of the custom mode.                 *)
PlainModes ==
  [main \in {1, 2, 5, 6, 7} |->
     CASE main = 1 -> "MANUAL" [] main = 2 -> "ALTITUDE" [] main = 5 -> "ACRO"
       [] main = 6 -> "OFFBOARD" [] main = 7 -> "STABILIZED"]
PositionModes == [sub \in {1, 3} |-> IF sub = 1 THEN "POSCTL" ELSE "ORBIT"]
AutoModes == <<"READY", "TAKEOFF", "LOITER", "MISSION", "RTL", "LAND">>

ModeOf(modes, n, other) == IF n \in DOMAIN modes THEN modes[n] ELSE other

decodeFlightMode(main, sub, base) ==
  CASE base % 2 = 0              -> "UNKNOWN"
    [] base % 2 = 1 /\ main = 3 -> ModeOf(PositionModes, sub, "POSITION")
    [] base % 2 = 1 /\ main = 4 -> ModeOf(AutoModes, sub, "AUTO")
    [] OTHER                     -> ModeOf(PlainModes, main, "UNKNOWN")

decodeHeartbeat(p) ==
  [kind |-> "heartbeat", armed |-> At(p, 6) >= 128,
   mode |-> decodeFlightMode(At(p, 2), At(p, 3), At(p, 6))]

Position(p, lat, lon, alt, heading, fix) ==
  [kind |-> "gps", lat |-> Signed32(p, lat), lon |-> Signed32(p, lon),
   alt |-> Signed32(p, alt), heading |-> Unsigned16(p, heading), fix |-> fix]

(* Mutant: latitude and longitude are swapped. *)
MutDecodeGlobalPosition(p) == Position(p, 8, 4, 12, 26, 0)

decodeGlobalPosition(p) == Position(p, 4, 8, 12, 26, 0)

decodeGPSRaw(p) == Position(p, 8, 12, 16, 26, At(p, 7))

(* What cell i adds to the voltage: nothing if it is not there. *)
CellVoltage(p, i) ==
  LET cell == Unsigned16(p, 10 + 2 * i)
  IN  IF cell \in {0, 65535} THEN 0 ELSE cell

(* The sum over the cells, and the charge in percent. *)
decodeBatteryStatus(p) ==
  LET sum[n \in 0 .. 10] == IF n = 0 THEN 0 ELSE sum[n - 1] + CellVoltage(p, n - 1)
  IN  [kind |-> "battery", voltage |-> sum[10], remaining |-> Signed8(At(p, 35))]

decodeAttitude(p) == [kind |-> "attitude", angles |-> Slice(p, 4, 28)]

FullLength ==
  [id \in {HeartbeatID, GPSRawID, AttitudeID, GlobalPositionID, BatteryID} |->
     CASE id = HeartbeatID -> 9
       [] id = GPSRawID    -> 30
       [] id = BatteryID   -> 36
       [] id \in {AttitudeID, GlobalPositionID} -> 28]

decodePayload(id, p) ==
  CASE id \notin DOMAIN FullLength -> [kind |-> "raw"]
    [] id \in DOMAIN FullLength /\ Len(p) < FullLength[id] -> NilPayload
    [] id = HeartbeatID      /\ Len(p) >= 9  -> decodeHeartbeat(p)
    [] id = GlobalPositionID /\ Len(p) >= 28 -> decodeGlobalPosition(p)
    [] id = GPSRawID         /\ Len(p) >= 30 -> decodeGPSRaw(p)
    [] id = BatteryID        /\ Len(p) >= 36 -> decodeBatteryStatus(p)
    [] id = AttitudeID       /\ Len(p) >= 28 -> decodeAttitude(p)

ValidateSystemID(id) == id \in Between(1, 250)

ValidateGPS(g) ==
  /\ g.lat \in Between(-900000000, 900000000)
  /\ g.lon \in Between(-1800000000, 1800000000)
  /\ g.alt <= 100000000

(* The heading that ValidateGPS leaves behind. *)
Clamped(g) == [g EXCEPT !.heading = @ % 36000]

ValidateBattery(b) == b.remaining <= 100

Rejected == [kind |-> "rejected"]

Event(data, p) ==
  [kind |-> "event", system |-> At(data, 5), id |-> MessageID(data), payload |-> p]

Validated(data, p) ==
  CASE p.kind = "gps"     -> IF ValidateGPS(p) THEN Event(data, Clamped(p)) ELSE Rejected
    [] p.kind = "battery" -> IF ValidateBattery(p) THEN Event(data, p) ELSE Rejected
    [] OTHER              -> Event(data, p)

DecodePacket(data) ==
  IF Parses(data) /\ ValidateSystemID(At(data, 5))
  THEN Validated(data, decodePayload(MessageID(data), Slice(data, 10, PayloadEnd(data))))
  ELSE Rejected
-----------------------------------------------------------------------------
NoEvent == [kind |-> "none"]

Init ==
  /\ cycle = 0
  /\ sent = [kind |-> "none"]
  /\ wire = <<>>
  /\ hurt = FALSE
  /\ event = NoEvent

(* A round of the sender's loop, in which it encodes the message of this   *)
(* round for one drone; the sequence number is one no other frame has.     *)
Send(d) ==
  /\ wire = <<>>
  /\ cycle < MaxFrames
  /\ LET id   == MessageOf(cycle)
         full == PayloadOf(d, id)
     IN  \E p \in {full} \cup (IF TrimZeros THEN {Trimmed(full)} ELSE {}) :
           /\ sent' = [kind |-> "message", drone |-> d, id |-> id, length |-> Len(p)]
           /\ wire' = buildFrame(d, cycle % 256, id, p)
  /\ cycle' = cycle + 1
  /\ hurt' = FALSE
  /\ event' = NoEvent

(* External: one bit of the datagram, of this value, is turned over. *)
FlipBit(i, bit) ==
  /\ ~hurt
  /\ i \in DOMAIN wire
  /\ wire' = [wire EXCEPT ![i] = IF (@ \div bit) % 2 = 1 THEN @ - bit ELSE @ + bit]
  /\ hurt' = TRUE
  /\ UNCHANGED <<cycle, sent, event>>

(* External: the datagram is cut off. *)
Truncate(n) ==
  /\ ~hurt
  /\ n \in 1 .. Len(wire) - 1
  /\ wire' = SubSeq(wire, 1, n)
  /\ hurt' = TRUE
  /\ UNCHANGED <<cycle, sent, event>>

Receive ==
  /\ wire # <<>>
  /\ event' = DecodePacket(wire)
  /\ wire' = <<>>
  /\ UNCHANGED <<cycle, sent, hurt>>

Line ==
  \E i \in DOMAIN wire :
    (\E bit \in {1, 2, 4, 8, 16, 32, 64, 128} : FlipBit(i, bit)) \/ Truncate(i)
-----------------------------------------------------------------------------
(* Types of the variables; an event is of a vehicle, 1 to 250. *)
TypeOK ==
  /\ cycle \in 0 .. MaxFrames
  /\ sent.kind \in {"none", "message", "fragment"}
  /\ wire \in Seq(Byte)
  /\ hurt \in BOOLEAN
  /\ event.kind \in {"none", "rejected", "event"}
  /\ event.kind = "event" =>
       event.system \in Between(1, 250)
         /\ event.payload.kind \in {"nil", "raw", "heartbeat", "gps", "battery", "attitude"}

InRange(d) ==
  /\ d.lat \in Between(-900000000, 900000000)
  /\ d.lon \in Between(-1800000000, 1800000000)
  /\ d.alt <= 100000000

(* What the state of the drone says the event's payload is. *)
Meant(d, id) ==
  CASE id = HeartbeatID ->
         [kind |-> "heartbeat", armed |-> d.armed,
          mode |-> IF d.mode = 4 THEN "MISSION" ELSE "UNKNOWN"]
    [] id \in {GlobalPositionID, GPSRawID} ->
         [kind |-> "gps", lat |-> d.lat, lon |-> d.lon, alt |-> d.alt,
          heading |-> d.heading % 36000, fix |-> IF id = GPSRawID THEN 3 ELSE 0]
    [] id = BatteryID ->
         [kind |-> "battery", voltage |-> 4 * d.cell, remaining |-> d.battery]
    [] id = AttitudeID -> [kind |-> "attitude", angles |-> d.angles]

Expected ==
  LET d       == sent.drone
      short   == sent.length < FullLength[sent.id]
      refused == ~short /\ sent.id \in {GlobalPositionID, GPSRawID} /\ ~InRange(d)
  IN  IF d.system \notin Between(1, 250) \/ refused THEN Rejected
      ELSE [kind |-> "event", system |-> d.system, id |-> sent.id,
            payload |-> IF short THEN NilPayload ELSE Meant(d, sent.id)]

(* A frame that arrives as it was sent is decoded to the values its sender *)
(* encoded, or rejected when they are out of range; a payload that was cut *)
(* to less than its full length is decoded to nothing.  The flight mode    *)
(* means the mission the senders encode (simulator/main.go:316-452,        *)
(* replay/generate.go:107-190, parser.go:68-359, validate.go:9-50,         *)
(* manager.go:346-393).                                                    *)
FramesRoundTrip ==
  event # NoEvent /\ ~hurt => event = Expected

(* Damage never shows up as values: what is decoded of a damaged datagram, *)
(* or of a fragment cut out of a capture file, is what was sent, unless    *)
(* the damage made its message one the decoder has no checksum seed for    *)
(* (parser.go:133-143, replay/main.go:139-142).                            *)
DamageIsDetected ==
  event.kind = "event" /\ hurt =>
    event.payload.kind = "raw" \/ (sent.kind = "message" /\ event = Expected)
=============================================================================
