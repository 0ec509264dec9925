------------------------------- MODULE RestAPI -------------------------------
(***************************************************************************)
(* The REST handlers of internal/broadcast (export.go, websocket.go) over  *)
(* the drone registry.  A handler answers from one call of an accessor,    *)
(* which takes the registry's lock, and is an operator here; the stats of  *)
(* a drone are read in two steps, the second without that lock, and are an *)
(* actor.  A reply of 404 is the empty answer.                             *)
(***************************************************************************)
EXTENDS DroneRegistry

VARIABLE request   (* GET /api/drones/{id}/stats: what it has read so far   *)

apiVars == <<vars, request>>

NotFound == <<>>

(* The id of a route, which is an integer when it parses as one. *)
ValidID(id) == id \in 1 .. 250

(* How many entries ?last= asks for; 0 when it is absent or no number.     *)
HistoryLimit(last) ==
  IF last <= 0 THEN 100 ELSE IF last > 1000 THEN 1000 ELSE last

(* The answers GET /api/drones/{id}/history may give, and the track of     *)
(* /history/export.                                                        *)
handleHistory(sys, last) == GetHistory(sys, HistoryLimit(last))
handleHistoryExport(sys) == GetHistory(sys, 1000)

(* Mutant: drones without a position are exported at the origin. *)
MutExportEverything == GetAllSummaries

(* The features of GET /api/drones/export: drones with a position. *)
handleExport == {s \in GetAllSummaries : s.position # NoFix}

(* The first match of a map range. *)
GetStateBySystemID(sys) == Matching(sys)

None == [pending |-> FALSE]

APIInit == Init /\ request = None

Uptime(d) == state[d].lastSeen - state[d].firstSeen

(* handleDroneStats clones the state under the lock; its message count is  *)
(* kept here, its uptime is the one of that moment...                      *)
StatsFind(sys) ==
  /\ ~request.pending
  /\ ValidID(sys)
  /\ outbox = <<>>
  /\ \E d \in GetStateBySystemID(sys) :
       request' = [pending |-> TRUE, drone |-> d, messages |-> state[d].messages]
  /\ UNCHANGED vars

(* ... and asks the history, which the clone shares, for its length later. *)
HistoryLen == history[request.drone].count

StatsReply ==
  /\ request.pending
  /\ request' = None
  /\ UNCHANGED vars

APINext ==
  \/ Next /\ UNCHANGED request
  \/ \E sys \in {SystemOf[d] : d \in Drones} : StatsFind(sys)
  \/ StatsReply

APISpec == APIInit /\ [][APINext]_apiVars

(* As FairSpec: no request has to come. *)
FairAPISpec == APISpec /\ WF_vars(emitUpdate) /\ SF_vars(checkStale)
-----------------------------------------------------------------------------
(* Where the export shows a drone is where its track ends: some answer of  *)
(* the history handler for its system id ends there, and every one does    *)
(* when no other component has that id.  A track goes on being shown after *)
(* a frame cut short took the position away (export.go:91-140, 194-234,    *)
(* manager.go:146-164, 241-253).                                           *)
TrackEndsAtPosition ==
  \A s \in handleExport :
    LET sys == SystemOf[s.drone]
        Ends(track) == track # NotFound /\ track[Len(track)].at = s.position
        answers == handleHistory(sys, 0)
    IN  /\ \E track \in answers : Ends(track)
        /\ Matching(sys) = {s.drone} => \A track \in answers : Ends(track)

(* The stats of a drone never claim more history than messages, unless one *)
(* was applied between the two reads, nor a negative uptime, unless its    *)
(* events were applied out of order (export.go:142-174).                   *)
StatsHangTogether ==
  [][/\ StatsReply /\ HistoryLen > request.messages =>
          state[request.drone].messages > request.messages
     /\ \A d \in known : Uptime(d) < 0 => d \in overtaken]_apiVars
=============================================================================
