---------------------------- MODULE TokenBucket ----------------------------
(***************************************************************************)
(* The per-drone rate limiter of the worker pool                           *)
(* (internal/ingest/udp.go, tokenBucket and checkRateLimit), as its worker *)
(* goroutines run it for one system ID.                                    *)
(*                                                                         *)
(* A worker reads the clock BEFORE it takes the bucket's mutex             *)
(* (udp.go:408-409), so a worker that is preempted in between charges the  *)
(* bucket with a time older than the one the bucket has seen: elapsed is   *)
(* then negative and the bucket's clock moves back.  The clock itself may  *)
(* move back too: time.Now().UnixNano() is the wall time, without the      *)
(* monotonic reading, and whoever administers the machine may set it.      *)
(*                                                                         *)
(* Time is counted in clock ticks, Second of them to a second.  Tokens are *)
(* counted in units of 1/Second token, so that a tick refills exactly      *)
(* PerSecond units: the float64 of the code without its rounding.          *)
(***************************************************************************)
EXTENDS Integers, FiniteSets

CONSTANTS
  Workers,    (* the pool's worker goroutines                             *)
  PerSecond,  (* rateLimit: max_messages_per_second                       *)
  Burst,      (* rateBurst: rate_limit_burst                              *)
  Second,     (* clock ticks in a second (10^9 in the code)               *)
  MaxClock,   (* bound on the clock                                       *)
  MaxCalls    (* bound on the calls of checkRateLimit                     *)

ASSUME LimitsAssumption ==
  /\ PerSecond \in Nat
  /\ Burst \in Nat
  /\ Second \in Nat \ {0}
  /\ MaxClock \in Nat
  /\ MaxCalls \in Nat

VARIABLES
  clock,     (* time.Now().UnixNano(), the wall time                      *)
  top,       (* history: the latest time the clock has shown              *)
  pc,        (* where each worker is inside checkRateLimit                *)
  stamp,     (* the time each worker read last, 0 between calls           *)
  stored,    (* whether rateLimiters holds a bucket for the drone         *)
  bucket,    (* the bucket                                                *)
  born,      (* history: the creation time of the stored bucket           *)
  admitted,  (* history: messages admitted                                *)
  calls,     (* calls of checkRateLimit so far                            *)
  mark       (* history: the start of an arbitrary window of time         *)

vars == <<clock, top, pc, stamp, stored, bucket, born, admitted, calls, mark>>
-----------------------------------------------------------------------------
(* The bucket's arithmetic.                                                *)

MaxTokens == (PerSecond + Burst) * Second

(* Mutant: the first window is backdated by a second. *)
MutNewTokenBucketBackdated(now) ==
  [tokens |-> MaxTokens, lastTime |-> now, drops |-> 0,
   windowStart |-> now - Second, windowPackets |-> 0, noisyCount |-> 0]

newTokenBucket(now) ==
  [tokens |-> MaxTokens, lastTime |-> now, drops |-> 0,
   windowStart |-> now, windowPackets |-> 0, noisyCount |-> 0]

(* Mutant: a negative elapsed time is taken for zero, while lastTime still *)
(* moves back.                                                             *)
MutRefilledIgnoresNegative(b, now) ==
  LET elapsed == IF now > b.lastTime THEN now - b.lastTime ELSE 0
      tokens  == b.tokens + elapsed * PerSecond
  IN  IF tokens > MaxTokens THEN MaxTokens ELSE tokens

(* Mutant: the refill is not capped. *)
MutRefilledUncapped(b, now) == b.tokens + (now - b.lastTime) * PerSecond

(* udp.go:412 and 437-440 *)
Refilled(b, now) ==
  LET tokens == b.tokens + (now - b.lastTime) * PerSecond
  IN  IF tokens > MaxTokens THEN MaxTokens ELSE tokens

(* Mutant: a message is admitted from an empty bucket. *)
MutAdmitsEmpty(b, now) == Refilled(b, now) >= 0

Admits(b, now) == Refilled(b, now) >= Second

WindowEnds(b, now) == now - b.windowStart >= Second

(* The window's rate exceeds five times the limit (udp.go:419-424). *)
IsNoisy(b, now) ==
  (b.windowPackets + 1) * Second > 5 * PerSecond * (now - b.windowStart)

(* Mutant: the window of the noisy-drone detector never restarts. *)
MutCheckedWindowStays(b, now) ==
  [tokens        |-> Refilled(b, now) - (IF Admits(b, now) THEN Second ELSE 0),
   lastTime      |-> now,
   drops         |-> b.drops + (IF Admits(b, now) THEN 0 ELSE 1),
   windowStart   |-> b.windowStart,
   windowPackets |-> b.windowPackets + 1,
   noisyCount    |-> b.noisyCount
                       + (IF WindowEnds(b, now) /\ IsNoisy(b, now) THEN 1 ELSE 0)]

(* The bucket after the critical section of checkRateLimit (udp.go:412-447) *)
Checked(b, now) ==
  [tokens        |-> Refilled(b, now) - (IF Admits(b, now) THEN Second ELSE 0),
   lastTime      |-> now,
   drops         |-> b.drops + (IF Admits(b, now) THEN 0 ELSE 1),
   windowStart   |-> IF WindowEnds(b, now) THEN now ELSE b.windowStart,
   windowPackets |-> IF WindowEnds(b, now) THEN 0 ELSE b.windowPackets + 1,
   noisyCount    |-> b.noisyCount
                       + (IF WindowEnds(b, now) /\ IsNoisy(b, now) THEN 1 ELSE 0)]
-----------------------------------------------------------------------------
NoMark == [set |-> FALSE, low |-> 0, high |-> 0, admitted |-> 0, stale |-> {},
           used |-> 0, fresh |-> FALSE]

Later(s, t) == IF s < t THEN t ELSE s

Earlier(s, t) == IF s < t THEN s ELSE t

Init ==
  /\ clock = 0
  /\ top = 0
  /\ pc = [w \in Workers |-> "idle"]
  /\ stamp = [w \in Workers |-> 0]
  /\ stored = FALSE
  /\ bucket = newTokenBucket(0)
  /\ born = 0
  /\ admitted = 0
  /\ calls = 0
  /\ mark = NoMark

Goto(w, from, to) == pc[w] = from /\ pc' = [pc EXCEPT ![w] = to]

(* The second argument of LoadOrStore is built on every call, from a time  *)
(* of its own (udp.go:391, 404-405).                                       *)
BuildBucket(w) ==
  /\ calls < MaxCalls
  /\ Goto(w, "idle", "built")
  /\ stamp' = [stamp EXCEPT ![w] = clock]
  /\ calls' = calls + 1
  /\ UNCHANGED <<clock, top, stored, bucket, born, admitted, mark>>

(* The first worker to get here stores its bucket, the others load it. *)
LoadOrStore(w) ==
  /\ Goto(w, "built", "loaded")
  /\ IF stored
     THEN UNCHANGED <<stored, bucket, born>>
     ELSE /\ stored' = TRUE
          /\ bucket' = newTokenBucket(stamp[w])
          /\ born' = stamp[w]
  /\ UNCHANGED <<clock, top, stamp, admitted, calls, mark>>

(* now := time.Now().UnixNano(), outside the mutex (udp.go:408). *)
ReadClock(w) ==
  /\ Goto(w, "loaded", "stamped")
  /\ stamp' = [stamp EXCEPT ![w] = clock]
  /\ UNCHANGED <<clock, top, stored, bucket, born, admitted, calls, mark>>

(* The critical section (udp.go:409-447).  The marked window keeps count   *)
(* of the workers whose time was read before it opened.                    *)
CheckRateLimit(w) ==
  /\ Goto(w, "stamped", "idle")
  /\ bucket' = Checked(bucket, stamp[w])
  /\ admitted' = admitted + (IF Admits(bucket, stamp[w]) THEN 1 ELSE 0)
  /\ mark' = IF mark.set
             THEN [mark EXCEPT
                     !.stale = @ \ {w},
                     !.used  = @ + (IF w \in mark.stale THEN 1 ELSE 0),
                     !.fresh = @ \/ w \notin mark.stale]
             ELSE mark
  /\ stamp' = [stamp EXCEPT ![w] = 0]
  /\ UNCHANGED <<clock, top, stored, born, calls>>

Tick ==
  /\ clock < MaxClock
  /\ clock' = clock + 1
  /\ top' = Later(top, clock')
  /\ mark' = [mark EXCEPT !.high = Later(@, clock')]
  /\ UNCHANGED <<pc, stamp, stored, bucket, born, admitted, calls>>

(* The wall clock is set back, to any time. *)
SetBack ==
  /\ clock' \in 0..(clock - 1)
  /\ mark' = [mark EXCEPT !.low = Earlier(@, clock')]
  /\ UNCHANGED <<top, pc, stamp, stored, bucket, born, admitted, calls>>

(* History only: a window of time opens now. *)
OpenWindow ==
  /\ stored
  /\ ~mark.set
  /\ mark' = [set |-> TRUE, low |-> clock, high |-> clock, admitted |-> admitted,
              stale |-> {w \in Workers : pc[w] = "stamped"}, used |-> 0,
              fresh |-> FALSE]
  /\ UNCHANGED <<clock, top, pc, stamp, stored, bucket, born, admitted, calls>>

Next ==
  \/ \E w \in Workers :
       \/ BuildBucket(w)
       \/ LoadOrStore(w)
       \/ ReadClock(w)
       \/ CheckRateLimit(w)
  \/ Tick
  \/ SetBack
  \/ OpenWindow

Spec == Init /\ [][Next]_vars
-----------------------------------------------------------------------------
BucketType ==
  [tokens : Int, lastTime : Nat, drops : Nat, windowStart : Nat,
   windowPackets : Nat, noisyCount : Nat]

MarkType ==
  [set : BOOLEAN, low : Nat, high : Nat, admitted : Nat, stale : SUBSET Workers,
   used : Nat, fresh : BOOLEAN]

(* Types of the variables. *)
TypeOK ==
  /\ clock \in Nat
  /\ top \in Nat
  /\ pc \in [Workers -> {"idle", "built", "loaded", "stamped"}]
  /\ stamp \in [Workers -> Nat]
  /\ stored \in BOOLEAN
  /\ bucket \in BucketType
  /\ born \in Nat
  /\ admitted \in Nat
  /\ calls \in Nat
  /\ mark \in MarkType

(* However the workers interleave and however often the clock is set back, *)
(* the drone never gets more messages through than the initial burst plus  *)
(* the configured rate over the time from its bucket's making to the       *)
(* latest time the clock has shown: the negative refill of a time that is  *)
(* behind lastTime is what keeps the way forward again from minting tokens *)
(* twice (udp.go:412-413, 437).                                            *)
AdmissionBound ==
  stored => admitted * Second <= MaxTokens + (top - born) * PerSecond

(* The same bound over ANY window of time, which a limiter that forgot to  *)
(* cap its refill would break: at most the maximum, the rate over the span *)
(* the clock has shown since the window opened, and one message for each   *)
(* worker that had read its time before the window opened and took the     *)
(* mutex inside it (udp.go:408-409, 438).                                  *)
WindowBound ==
  mark.set =>
    (admitted - mark.admitted) * Second
      <= MaxTokens + mark.used * Second + (mark.high - mark.low) * PerSecond

(* A negative refill leaves a debt, and the drone gets nothing through     *)
(* while it lasts (udp.go:437-445).  The debt is paid as soon as the clock *)
(* shows again the latest time it has shown: a drone is cut off for no     *)
(* longer than the clock was set back, however many overtaken workers and  *)
(* set-backs pushed lastTime back, and not at all while the clock only     *)
(* moves on.                                                               *)
DebtIsPaid == stored => bucket.tokens + (top - bucket.lastTime) * PerSecond >= 0

(* A drone is reported as noisy at most once a second of its lifetime, as  *)
(* far as the clock has shown it (udp.go:418-425), stale times and clocks  *)
(* set back included.                                                      *)
NoisyAtMostOncePerSecond == stored => bucket.noisyCount * Second <= top - born
=============================================================================
