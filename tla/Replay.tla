-------------------------------- MODULE Replay --------------------------------
(***************************************************************************)
(* Both senders of the repository on one line to the decoder: the          *)
(* simulator of Mavlink, or the replay tool (cmd/replay), which reads a    *)
(* capture file record by record and writes each frame to the line.        *)
(*                                                                         *)
(* The capture is a stretch of the flight that -generate records.  The     *)
(* file may have been cut off anywhere, or the length field of one record  *)
(* damaged; the line damages only what the simulator sends.  Time is left  *)
(* out: the pause before a frame is the point between ReadRecord and Write *)
(* where a signal may arrive.                                              *)
(***************************************************************************)
EXTENDS Mavlink, FiniteSets

CONSTANTS
  Place,               (* where the generated flight is, and its heading   *)
  FirstTick, LastTick, (* the ticks of the generator the capture holds     *)
  Cuts,                (* the sizes a capture may have been cut to         *)
  BadLengths(_)        (* what a damaged length field reads, from its value *)

ASSUME ReplayAssumption ==
  FirstTick \in Nat /\ LastTick \in Nat /\ FirstTick <= LastTick + 1

VARIABLES
  sender,    (* the program that writes to the line                       *)
  recorded,  (* history: the records of the flight, each with its offset  *)
             (* in the file, its frame and what that frame describes      *)
  file,      (* the bytes of the capture as the tool finds it             *)
  damage,    (* history: how the file was damaged, if at all, and how     *)
             (* many records come before that                             *)
  tool,      (* the tool's place, its offset in the file and -loop        *)
  signalled, (* SIGINT or SIGTERM waits in sigChan                        *)
  wrote      (* history: the records written in this pass (0: a fragment) *)

fileVars == <<sender, recorded, file, damage>>
toolVars == <<fileVars, tool, signalled, wrote>>
allVars == <<vars, toolVars>>
-----------------------------------------------------------------------------
(* The generator (generate.go).  Altitudes of g are in decimetres.         *)

(* One tick: arm at 3 s, climb until 10 s, circle until 50 s, descend.     *)
FlownTick(g, tick) ==
  LET armed   == g.armed \/ tick >= 30
      climbs  == armed /\ g.alt < 500 /\ tick < 100
      sinks   == armed /\ ~climbs /\ tick >= 500
      landed  == sinks /\ g.alt - 3 <= 105
      drained == armed /\ ~landed /\ tick % 10 = 0 /\ g.battery > 0
  IN  [armed   |-> armed /\ ~landed,
       alt     |-> CASE climbs -> g.alt + 5
                     [] landed -> 100
                     [] sinks /\ ~landed -> g.alt - 3
                     [] OTHER -> g.alt,
       battery |-> IF drained THEN g.battery - 1 ELSE g.battery]

Ground == [armed |-> FALSE, alt |-> 100, battery |-> 100]

(* The drone after a number of ticks. *)
Flight[ticks \in 0 .. LastTick + 1] ==
  IF ticks = 0 THEN Ground ELSE FlownTick(Flight[ticks - 1], ticks - 1)

(* The drone of a tick, as the simulator would describe it.                *)
RecordedDrone(tick) ==
  LET g == Flight[tick + 1]
  IN  [system |-> 1, armed |-> g.armed, mode |-> 4, lat |-> Place.lat,
       lon |-> Place.lon, alt |-> 100 * g.alt, home |-> 10000,
       heading |-> Place.heading,
       angles |-> [i \in 1 .. 24 |-> IF i <= 12 THEN 60 + i ELSE 0],
       cell |-> (16800 - 10 * (100 - g.battery)) \div 4, battery |-> g.battery]

buildHB(d) == buildHeartbeat([d EXCEPT !.mode = 4])

buildGP(d) ==
  Clock(4) \o PutUint32(d.lat) \o PutUint32(d.lon)
    \o PutUint32(d.alt) \o PutUint32(d.alt - 10000)
    \o Filled(6, 0) \o PutUint16(d.heading)

buildAtt(d) == Clock(4) \o SubSeq(d.angles, 1, 12) \o Filled(12, 0)

buildBatt(d) ==
  LET cell == PutUint16(d.cell)
  IN  Filled(10, 0) \o cell \o cell \o cell \o cell \o Filled(12, 255)
        \o PutUint16(1500) \o Filled(3, 0) \o <<d.battery>>

buildGPS(d) ==
  Filled(7, 0) \o <<3>> \o PutUint32(d.lat) \o PutUint32(d.lon)
    \o PutUint32(d.alt) \o PutUint16(120) \o PutUint16(150)
    \o PutUint16(500) \o PutUint16(d.heading) \o <<0, 12>>

buildSimFrame(tick) ==
  LET d  == RecordedDrone(tick)
      id == MessageOf(tick)
      p  == CASE id = HeartbeatID      -> buildHB(d)
              [] id = GlobalPositionID -> buildGP(d)
              [] id = AttitudeID       -> buildAtt(d)
              [] id = BatteryID        -> buildBatt(d)
              [] id = GPSRawID         -> buildGPS(d)
  IN  buildFrame(d, tick % 256, id, p)

(* A record: the delay in microseconds, the length, and the frame.         *)
Record(frame) == PutUint32(100000) \o PutUint16(Len(frame)) \o frame

Ticks == [r \in 1 .. LastTick - FirstTick + 1 |-> FirstTick + r - 1]

Frames == [r \in DOMAIN Ticks |-> buildSimFrame(Ticks[r])]

(* The file once a number of records are in it. *)
Written[r \in 0 .. Len(Ticks)] ==
  IF r = 0 THEN <<>> ELSE Written[r - 1] \o Record(Frames[r])

Capture == Written[Len(Ticks)]

(* The offset of record r in the capture, or of its end. *)
Offset(r) == Len(Written[r - 1])

Recorded ==
  [r \in DOMAIN Ticks |->
     [at |-> Offset(r), frame |-> Frames[r], drone |-> RecordedDrone(Ticks[r]),
      id |-> MessageOf(Ticks[r])]]

ASSUME CaptureAssumption ==
  /\ Place \in [lat : Int32, lon : Int32, heading : Uint16]
  /\ Cuts \subseteq 0 .. Len(Capture)
  /\ \A r \in DOMAIN Frames : BadLengths(Len(Frames[r])) \subseteq Uint16
-----------------------------------------------------------------------------
(* The tool (replay/main.go).                                              *)

(* The capture cut to n bytes. *)
CutTo(n) ==
  /\ file = SubSeq(Capture, 1, n)
  /\ damage = [kind |-> "cut",
                intact |-> Cardinality({r \in DOMAIN Ticks : Offset(r + 1) <= n})]

(* The capture in which the length of record r reads n. *)
Misreads(r, n) ==
  /\ file = [Capture EXCEPT ![Offset(r) + 5] = n % 256, ![Offset(r) + 6] = n \div 256]
  /\ damage = [kind |-> "length", intact |-> r - 1]

ReplayInit ==
  /\ Init
  /\ signalled = FALSE
  /\ wrote = <<>>
  /\ recorded = Recorded
  /\ \/ /\ sender = "simulator"
        /\ CutTo(0)
        /\ tool = [pc |-> "exited", pos |-> 0, length |-> 0, loop |-> FALSE]
     \/ /\ sender = "replay"
        /\ \/ \E n \in Cuts : CutTo(n)
           \/ \E r \in DOMAIN Ticks :
                \E n \in BadLengths(Len(Frames[r])) : Misreads(r, n)
        /\ tool \in [pc : {"open"}, pos : {0}, length : {0}, loop : BOOLEAN]

(* The file is opened for a pass, unless that fails and ends the tool.     *)
Open ==
  /\ tool.pc = "open"
  /\ \/ tool' = [tool EXCEPT !.pc = "read", !.pos = 0]
     \/ tool' = [tool EXCEPT !.pc = "exited"]
  /\ wrote' = <<>>
  /\ UNCHANGED <<vars, fileVars, signalled>>

(* Mutant: break leaves the select, not the loop.                          *)
MutInterruptedBreaksSelect ==
  /\ tool.pc = "read"
  /\ signalled
  /\ signalled' = FALSE
  /\ UNCHANGED <<vars, fileVars, tool, wrote>>

(* Top of the loop: the interrupt comes first.                             *)
Interrupted ==
  /\ tool.pc = "read"
  /\ signalled
  /\ tool' = [tool EXCEPT !.pc = "exited"]
  /\ UNCHANGED <<vars, fileVars, signalled, wrote>>

Remaining == Len(file) - tool.pos

(* The length field at the tool's offset. *)
LengthRead == Unsigned16(file, tool.pos + 4)

(* Mutant: Read in place of ReadFull, so that a cut frame goes out.        *)
MutReadRecordPartial ==
  /\ tool.pc = "read"
  /\ ~signalled
  /\ tool' =
       IF Remaining < 7 THEN [tool EXCEPT !.pc = "passed"]
       ELSE IF LengthRead \notin 1 .. 300 THEN [tool EXCEPT !.pos = @ + 6]
       ELSE [tool EXCEPT !.pc = "write",
                         !.length = IF LengthRead < Remaining - 6 THEN LengthRead
                                    ELSE Remaining - 6]
  /\ UNCHANGED <<vars, fileVars, signalled, wrote>>

(* A length of 0 or above 300 is skipped, the frame behind it is not; a    *)
(* header or a frame that the file does not hold in full ends the pass.    *)
ReadRecord ==
  /\ tool.pc = "read"
  /\ ~signalled
  /\ tool' =
       IF Remaining < 6 THEN [tool EXCEPT !.pc = "passed"]
       ELSE IF LengthRead \notin 1 .. 300 THEN [tool EXCEPT !.pos = @ + 6]
       ELSE IF Remaining < 6 + LengthRead THEN [tool EXCEPT !.pc = "passed"]
       ELSE [tool EXCEPT !.pc = "write", !.length = LengthRead]
  /\ UNCHANGED <<vars, fileVars, signalled, wrote>>

(* Any other error of a read ends the tool, with -loop too.                *)
ReadFails ==
  /\ tool.pc = "read"
  /\ ~signalled
  /\ tool' = [tool EXCEPT !.pc = "exited"]
  /\ UNCHANGED <<vars, fileVars, signalled, wrote>>

(* The frame goes out; sent tells what it was when a recorded frame starts *)
(* where it does.                                                          *)
Write ==
  /\ tool.pc = "write"
  /\ wire = <<>>
  /\ LET from   == tool.pos + 6
         starts == {r \in DOMAIN recorded : recorded[r].at = tool.pos}
     IN  /\ wire' = Slice(file, from, from + tool.length)
         /\ IF starts = {}
            THEN /\ hurt' = TRUE
                 /\ sent' = [kind |-> "fragment"]
            ELSE \E r \in starts :
                   /\ hurt' = (wire' # recorded[r].frame)
                   /\ sent' = [kind |-> "message", drone |-> recorded[r].drone,
                               id |-> recorded[r].id, length |-> Len(recorded[r].frame) - 12]
         /\ wrote' = Append(wrote, IF hurt' THEN 0 ELSE CHOOSE r \in starts : TRUE)
         /\ tool' = [tool EXCEPT !.pc = "read", !.pos = from + tool.length]
  /\ event' = NoEvent
  /\ UNCHANGED <<cycle, fileVars, signalled>>

(* A pass is over: again with -loop, else the tool ends.                   *)
NextPass ==
  /\ tool.pc = "passed"
  /\ tool' = [tool EXCEPT !.pc = IF tool.loop THEN "open" ELSE "exited"]
  /\ UNCHANGED <<vars, fileVars, signalled, wrote>>

ToolStep == Open \/ Interrupted \/ ReadRecord \/ ReadFails \/ Write \/ NextPass

Signal ==
  /\ sender = "replay" /\ ~signalled
  /\ signalled' = TRUE
  /\ UNCHANGED <<vars, fileVars, tool, wrote>>

ReplayNext ==
  \/ sender = "simulator" /\ (Line \/ \E d \in Drones : Send(d)) /\ UNCHANGED toolVars
  \/ Receive /\ UNCHANGED toolVars
  \/ ToolStep
  \/ Signal

Spec == ReplayInit /\ [][ReplayNext]_allVars

(* The tool's only goroutine keeps running; the receiver takes what comes, *)
(* so that the line, which holds one datagram, is free again and again     *)
(* (weak fairness of Receive, which is enabled until it is).               *)
FairSpec == Spec /\ WF_allVars(ToolStep) /\ []<>(wire = <<>>)
-----------------------------------------------------------------------------
(* A pass writes the recorded frames in the order of the file: all that    *)
(* the file holds in full before it is cut, or before a damaged length;    *)
(* nothing after a cut, and no part of a frame (replay/main.go:1-6, "reads *)
(* length-prefixed MAVLink v2 frames ... and replays them").               *)
ReplaysInOrder ==
  /\ \A k \in DOMAIN wrote : k <= damage.intact => wrote[k] = k
  /\ tool.pc = "passed" => Len(wrote) >= damage.intact
  /\ damage.kind = "cut" => Len(wrote) <= damage.intact

(* The tool ends after one pass without -loop, and on a signal with it,    *)
(* whatever the file holds (replay/main.go:80-109, 119-124).               *)
ReplayEnds ==
  tool.pc # "exited" /\ (signalled \/ ~tool.loop) ~> tool.pc = "exited"
=============================================================================
