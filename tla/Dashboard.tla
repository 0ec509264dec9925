----------------------------- MODULE Dashboard -----------------------------
(***************************************************************************)
(* The terminal dashboard (cmd/tui/main.go) together with the server it    *)
(* connects to: it dials the server, reads one message, and after an error *)
(* waits two seconds and dials again.                                      *)
(*                                                                         *)
(* bubbletea gives Update a copy of the model.  connectCmd stores the      *)
(* connection in the copy it was made from, so that the model Update gets  *)
(* has none: readCmd returns no command, and no further message is read.   *)
(***************************************************************************)
EXTENDS Server

VARIABLE dash   (* where its commands are: "dialing", "failed", "shown",   *)
                (* or reading a connection that is "accepted" but not yet  *)
                (* one of the server's clients, "idle", or has a "message" *)

dvars == <<vars, dash>>
-----------------------------------------------------------------------------
(* Init's connectCmd dials at once. *)
DashInit == Init /\ dash = "dialing"

(* The handshake is answered before the server has registered the client. *)
Connect ==
  /\ dash = "dialing" /\ Runs("listener")
  /\ dash' = "accepted"
  /\ UNCHANGED vars

(* The handler puts the client on the map and starts its goroutines: no    *)
(* broadcast before reaches it.                                            *)
Register ==
  /\ Running /\ dash = "accepted"
  /\ served' = TRUE
  /\ dash' = "idle"
  /\ UNCHANGED <<main, cfg, signalled, ctxDone, routine, wsDone, events, report, ended>>

(* The first read; readCmd finds no connection and reads no more. *)
UpdateShown ==
  /\ dash = "message"
  /\ dash' = "shown"
  /\ UNCHANGED vars

Connected == dash \in {"accepted", "idle", "message"}

(* A dial has an error when nobody listens or, as the answer is 503, when  *)
(* the clients, among them the connections it lost but never closed, are   *)
(* as many as max_clients allows; a read has one when the process ended.   *)
ErrorShown ==
  /\ \/ dash = "dialing" /\ (Runs("listener") => served)
     \/ Connected /\ ~Running
  /\ dash' = "failed"
  /\ UNCHANGED vars

(* The read has an error whenever the connection breaks. *)
ConnectionBreaks ==
  /\ Connected
  /\ dash' = "failed"
  /\ UNCHANGED vars

(* Mutant: Update returns no command after an error. *)
MutReconnectNever ==
  /\ dash = "failed"
  /\ dash' = "waiting"
  /\ UNCHANGED vars

Reconnect ==
  /\ dash = "failed"
  /\ dash' = "dialing"
  /\ UNCHANGED vars

(* What a step of the server does to the connection: its broadcast reaches *)
(* a client that is registered; when the last client's goroutines have     *)
(* ended so have the dashboard's, and the read has an error.               *)
ServerStep ==
  /\ Next
  /\ dash' = CASE dash = "idle" /\ pending /\ ~pending' -> "message"
               [] dash = "idle" /\ served /\ ~served' -> "failed"
               [] OTHER -> dash
-----------------------------------------------------------------------------
DashStep == Connect \/ UpdateShown \/ ErrorShown \/ Reconnect
LinkStep == Register \/ ConnectionBreaks

DashSpec == DashInit /\ [][ServerStep \/ DashStep \/ LinkStep]_dvars

(* The dashboard's commands return. *)
FairDashSpec == DashSpec /\ Fairness /\ WF_dvars(DashStep)
-----------------------------------------------------------------------------
(* A dashboard started before the server, or one that lost it, gets        *)
(* through: while the server listens and serves no others, an attempt that *)
(* failed is followed by one that connects; and once its client is         *)
(* registered the next batch the hub passes on is shown, unless the        *)
(* connection or the server ends, or the file asks for a broadcast         *)
(* interval that cannot be.  A batch sent between the handshake and the    *)
(* registration is not promised to it (tui/main.go:90-149,                 *)
(* websocket.go:189-223, 277-305, config.go:134-148).                      *)
DashboardGetsThrough ==
  /\ dash = "failed" ~> Connected \/ dash = "shown" \/ served \/ ~Runs("listener")
  /\ dash = "idle" /\ pending ~>
       ~Connected \/ ctxDone \/ ~Running \/ ~Ticks("broadcast_interval")
=============================================================================
