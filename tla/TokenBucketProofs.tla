-------------------------- MODULE TokenBucketProofs --------------------------
(***************************************************************************)
(* Theorems about the rate limiter, for every set of workers, rate, burst  *)
(* and length of a second.                                                 *)
(*                                                                         *)
(* The balance argument: what the bucket holds plus what it let through    *)
(* never exceeds the full bucket plus the refill up to lastTime.  A time   *)
(* behind lastTime, read by an overtaken worker or from a clock set back,  *)
(* moves lastTime back and takes the refill back with it, so it keeps the  *)
(* balance; the cap only lowers it.  Together with DebtIsPaid (what the    *)
(* bucket owes is covered by the time from lastTime to the latest time the *)
(* clock has shown) it bounds what was admitted.  No step of the argument  *)
(* needs the clock to move forwards.                                       *)
(***************************************************************************)
EXTENDS TokenBucket, TLAPS

(* What a worker knows at each place of checkRateLimit. *)
WorkerTimes ==
  \A w \in Workers :
    /\ stamp[w] <= top
    /\ pc[w] \in {"loaded", "stamped"} => stored

BucketTimes ==
  /\ clock <= top
  /\ bucket.lastTime <= top
  /\ bucket.windowStart <= top

(* Nothing is admitted before the drone has a bucket. *)
Unused == ~stored => admitted = 0

Capped == bucket.tokens <= MaxTokens

Balance ==
  bucket.tokens + admitted * Second
    <= MaxTokens + (bucket.lastTime - born) * PerSecond

Covered == bucket.tokens + (top - bucket.lastTime) * PerSecond >= 0

NoisySpaced == bucket.noisyCount * Second <= bucket.windowStart - born

(* Until a worker with a time of the window has run, only stale ones were  *)
(* admitted in it; from then on the window has a balance of its own, from  *)
(* the earliest time the clock has shown in it.                            *)
MarkBalance ==
  mark.set =>
    /\ stored
    /\ mark.low <= clock /\ clock <= mark.high
    /\ mark.admitted <= admitted
    /\ \A w \in Workers :
         pc[w] = "stamped" /\ w \notin mark.stale
           => mark.low <= stamp[w] /\ stamp[w] <= mark.high
    /\ \A w \in mark.stale : pc[w] = "stamped"
    /\ ~mark.fresh => admitted - mark.admitted <= mark.used
    /\ mark.fresh =>
         bucket.tokens + (admitted - mark.admitted) * Second
           <= MaxTokens + mark.used * Second + (bucket.lastTime - mark.low) * PerSecond

IInv ==
  /\ TypeOK
  /\ WorkerTimes
  /\ BucketTimes
  /\ Unused
  /\ Capped
  /\ Balance
  /\ Covered
  /\ NoisySpaced
  /\ MarkBalance
  /\ WindowBound
-----------------------------------------------------------------------------
(* Refills over adjoining spans of time add up, whatever their signs. *)
LEMMA SpansAdd ==
  ASSUME NEW a \in Int, NEW b \in Int, NEW c \in Int
  PROVE  (a - b) * PerSecond + (b - c) * PerSecond = (a - c) * PerSecond
BY LimitsAssumption

(* A span of time that does not run backwards refills nothing negative. *)
LEMMA SpanNonNegative ==
  ASSUME NEW a \in Int, NEW b \in Int, b <= a
  PROVE  (a - b) * PerSecond \in Nat
<1>1. a - b \in Nat /\ PerSecond \in Nat
  BY LimitsAssumption
<1>2. \A m, n \in Nat : m * n \in Nat
  OBVIOUS
<1> QED  BY <1>1, <1>2

(* A longer span of time refills no less. *)
LEMMA LongerSpan ==
  ASSUME NEW a \in Int, NEW b \in Int, a <= b
  PROVE  a * PerSecond <= b * PerSecond
<1>1. (b - a) * PerSecond \in Nat
  BY SpanNonNegative
<1>2. (b - a) * PerSecond = b * PerSecond - a * PerSecond
  BY LimitsAssumption
<1> QED  BY <1>1, <1>2, LimitsAssumption

LEMMA MaxTokensNat == MaxTokens \in Nat
<1>1. PerSecond + Burst \in Nat /\ Second \in Nat
  BY LimitsAssumption
<1>2. \A m, n \in Nat : m * n \in Nat
  OBVIOUS
<1> QED  BY <1>1, <1>2 DEF MaxTokens

(* What the critical section does to the balance of the bucket. *)
LEMMA CheckedBalance ==
  ASSUME NEW b \in BucketType, NEW now \in Nat
  PROVE  \E refill \in Int, pass \in {0, 1} :
           /\ Checked(b, now).tokens = refill - pass * Second
           /\ pass = IF Admits(b, now) THEN 1 ELSE 0
           /\ pass = 1 => refill >= Second
           /\ refill <= MaxTokens
           /\ refill <= b.tokens + (now - b.lastTime) * PerSecond
           /\ \/ refill = MaxTokens
              \/ refill = b.tokens + (now - b.lastTime) * PerSecond
<1> DEFINE refill == Refilled(b, now)
           pass == IF Admits(b, now) THEN 1 ELSE 0
<1>1. b.tokens \in Int /\ b.lastTime \in Nat
  BY DEF BucketType
<1>2. PICK gain \in Int : gain = (now - b.lastTime) * PerSecond
  BY <1>1, LimitsAssumption
<1>3. refill = IF b.tokens + gain > MaxTokens THEN MaxTokens ELSE b.tokens + gain
  BY <1>2 DEF Refilled
<1>4. refill \in Int
  BY <1>1, <1>3, MaxTokensNat
<1>5. Checked(b, now).tokens = refill - pass * Second
  BY <1>4, LimitsAssumption DEF Checked
<1>6. pass = 1 => refill >= Second
  BY DEF Admits
<1> HIDE DEF refill
<1>7. refill <= MaxTokens /\ refill <= b.tokens + gain
  BY <1>1, <1>3, MaxTokensNat
<1>8. pass \in {0, 1}
  OBVIOUS
<1> HIDE DEF pass
<1>9. pass = IF Admits(b, now) THEN 1 ELSE 0
  BY DEF pass
<1> QED  BY <1>2, <1>3, <1>4, <1>5, <1>6, <1>7, <1>8, <1>9
-----------------------------------------------------------------------------
USE LimitsAssumption, MaxTokensNat

LEMMA InitIInv == Init => IInv
<1> SUFFICES ASSUME Init PROVE IInv
  OBVIOUS
<1> USE DEF Init
<1>1. bucket \in BucketType /\ bucket.tokens = MaxTokens /\ bucket.lastTime = 0
      /\ bucket.windowStart = 0 /\ bucket.noisyCount = 0
  BY DEF newTokenBucket, BucketType
<1>2. TypeOK
  BY <1>1 DEF TypeOK, MarkType, NoMark
<1>3. WorkerTimes /\ BucketTimes /\ Unused /\ MarkBalance
  BY <1>1 DEF WorkerTimes, BucketTimes, Unused, MarkBalance, NoMark
<1>4. Capped /\ Balance /\ Covered /\ NoisySpaced /\ WindowBound
  BY <1>1 DEF Capped, Balance, Covered, NoisySpaced, WindowBound, NoMark
<1> QED  BY <1>2, <1>3, <1>4 DEF IInv

LEMMA BuildBucketIInv ==
  ASSUME IInv, NEW w \in Workers, BuildBucket(w)
  PROVE  IInv'
<1> USE DEF IInv, TypeOK, BuildBucket, Goto
<1>1. TypeOK'
  OBVIOUS
<1>2. WorkerTimes' /\ BucketTimes' /\ Unused'
  BY DEF WorkerTimes, BucketTimes, Unused
<1>3. Capped' /\ Balance' /\ Covered' /\ NoisySpaced'
  BY DEF Capped, Balance, Covered, NoisySpaced
<1>4. MarkBalance' /\ WindowBound'
  BY DEF MarkBalance, MarkType, WindowBound
<1> QED  BY <1>1, <1>2, <1>3, <1>4

LEMMA ReadClockIInv ==
  ASSUME IInv, NEW w \in Workers, ReadClock(w)
  PROVE  IInv'
<1> USE DEF IInv, TypeOK, ReadClock, Goto
<1>1. TypeOK'
  OBVIOUS
<1>2. WorkerTimes' /\ BucketTimes' /\ Unused'
  BY DEF WorkerTimes, BucketTimes, Unused
<1>3. Capped' /\ Balance' /\ Covered' /\ NoisySpaced'
  BY DEF Capped, Balance, Covered, NoisySpaced
<1>4. MarkBalance' /\ WindowBound'
  BY DEF MarkBalance, MarkType, WorkerTimes, WindowBound
<1> QED  BY <1>1, <1>2, <1>3, <1>4

LEMMA LoadOrStoreIInv ==
  ASSUME IInv, NEW w \in Workers, LoadOrStore(w)
  PROVE  IInv'
<1> USE DEF IInv, TypeOK, LoadOrStore, Goto
<1>1. CASE stored
  <2>1. TypeOK'
    BY <1>1
  <2>2. WorkerTimes' /\ BucketTimes' /\ Unused'
    BY <1>1 DEF WorkerTimes, BucketTimes, Unused
  <2>3. Capped' /\ Balance' /\ Covered' /\ NoisySpaced'
    BY <1>1 DEF Capped, Balance, Covered, NoisySpaced
  <2>4. MarkBalance' /\ WindowBound'
    BY <1>1 DEF MarkBalance, MarkType, WindowBound
  <2> QED  BY <2>1, <2>2, <2>3, <2>4
<1>2. CASE ~stored
  <2>1. /\ bucket' \in BucketType
        /\ bucket'.tokens = MaxTokens
        /\ bucket'.lastTime = stamp[w]
        /\ bucket'.windowStart = stamp[w]
        /\ bucket'.noisyCount = 0
        /\ born' = stamp[w]
        /\ stamp[w] \in Nat /\ stamp[w] <= top
    BY <1>2 DEF newTokenBucket, BucketType, WorkerTimes
  <2>2. TypeOK'
    BY <1>2, <2>1
  <2>3. \A v \in Workers : pc[v] # "stamped" /\ pc[v] # "loaded"
    BY <1>2 DEF WorkerTimes
  <2>4. WorkerTimes' /\ BucketTimes' /\ Unused'
    BY <1>2, <2>1, <2>3 DEF WorkerTimes, BucketTimes, Unused
  <2>5. Capped' /\ Balance' /\ Covered' /\ NoisySpaced'
    <3>1. admitted' = 0
      BY <1>2 DEF Unused
    <3>2. top' \in Int /\ (top' - bucket'.lastTime) * PerSecond \in Nat
      BY <2>1, SpanNonNegative
    <3> QED  BY <2>1, <3>1, <3>2 DEF Capped, Balance, Covered, NoisySpaced
  <2>6. MarkBalance' /\ WindowBound'
    BY <1>2 DEF MarkBalance, WindowBound
  <2> QED  BY <2>2, <2>4, <2>5, <2>6
<1> QED  BY <1>1, <1>2

LEMMA TickIInv == ASSUME IInv, Tick PROVE IInv'
<1> USE DEF IInv, TypeOK
<1>1. /\ top \in Nat /\ clock \in Nat /\ top' \in Nat /\ clock' = clock + 1
      /\ top <= top' /\ clock' <= top'
      /\ mark.low \in Nat /\ mark.high \in Nat
      /\ mark' = [mark EXCEPT !.high = Later(mark.high, clock')]
      /\ Later(mark.high, clock') \in Nat
      /\ mark.high <= Later(mark.high, clock') /\ clock' <= Later(mark.high, clock')
  BY DEF Tick, Later, MarkType
<1>2. TypeOK'
  BY <1>1 DEF Tick, MarkType
<1>3. mark'.low = mark.low /\ mark.high <= mark'.high /\ clock' <= mark'.high
      /\ mark'.high \in Nat /\ mark'.set = mark.set /\ mark'.stale = mark.stale
      /\ mark'.used = mark.used /\ mark'.fresh = mark.fresh
      /\ mark'.admitted = mark.admitted
  BY <1>1 DEF MarkType
<1>4. WorkerTimes' /\ BucketTimes' /\ Unused'
  <2>1. WorkerTimes' /\ Unused'
    BY <1>1 DEF Tick, WorkerTimes, Unused
  <2>2. BucketTimes'
    BY <1>1 DEF Tick, BucketTimes, BucketType
  <2> QED  BY <2>1, <2>2
<1>5. Capped' /\ Balance' /\ NoisySpaced'
  BY DEF Tick, Capped, Balance, NoisySpaced
<1>6. Covered'
  <2>1. bucket.lastTime \in Nat /\ bucket.tokens \in Int
    BY DEF BucketType
  <2>2. (top - bucket.lastTime) * PerSecond <= (top' - bucket.lastTime) * PerSecond
    BY <1>1, <2>1, LongerSpan
  <2> QED  BY <1>1, <2>1, <2>2 DEF Tick, Covered
<1>7. MarkBalance'
  BY <1>1, <1>3 DEF Tick, MarkBalance
<1>8. WindowBound'
  <2>1. (mark.high - mark.low) * PerSecond <= (mark'.high - mark.low) * PerSecond
    BY <1>1, <1>3, LongerSpan
  <2>2. mark.used \in Nat /\ mark.admitted \in Nat /\ admitted \in Nat
    BY DEF MarkType
  <2> QED  BY <1>1, <1>3, <2>1, <2>2 DEF Tick, WindowBound
<1> QED  BY <1>2, <1>4, <1>5, <1>6, <1>7, <1>8

(* Setting the clock back leaves the bucket and every time read as they    *)
(* are; only the marked window reaches further down.                       *)
LEMMA SetBackIInv == ASSUME IInv, SetBack PROVE IInv'
<1> USE DEF IInv, TypeOK
<1>1. /\ clock' \in Nat /\ clock' <= clock /\ clock \in Nat /\ top \in Nat
      /\ mark.low \in Nat /\ mark.high \in Nat
      /\ mark' = [mark EXCEPT !.low = Earlier(mark.low, clock')]
      /\ Earlier(mark.low, clock') \in Nat
      /\ Earlier(mark.low, clock') <= mark.low /\ Earlier(mark.low, clock') <= clock'
  BY DEF SetBack, Earlier, MarkType
<1>2. TypeOK'
  BY <1>1 DEF SetBack, MarkType
<1>3. mark'.high = mark.high /\ mark'.low <= mark.low /\ mark'.low <= clock'
      /\ mark'.low \in Nat /\ mark'.set = mark.set /\ mark'.stale = mark.stale
      /\ mark'.used = mark.used /\ mark'.fresh = mark.fresh
      /\ mark'.admitted = mark.admitted
  BY <1>1 DEF MarkType
<1>4. WorkerTimes' /\ BucketTimes' /\ Unused'
  <2>1. WorkerTimes' /\ Unused'
    BY DEF SetBack, WorkerTimes, Unused
  <2>2. BucketTimes'
    BY <1>1 DEF SetBack, BucketTimes
  <2> QED  BY <2>1, <2>2
<1>5. Capped' /\ Balance' /\ Covered' /\ NoisySpaced'
  BY DEF SetBack, Capped, Balance, Covered, NoisySpaced
<1>6. PICK tok \in Int, L \in Nat, adm \in Nat, ma \in Nat, used \in Nat, lo \in Nat,
           lo2 \in Nat, hi \in Nat :
        /\ tok = bucket.tokens /\ L = bucket.lastTime /\ adm = admitted
        /\ ma = mark.admitted /\ used = mark.used /\ lo = mark.low /\ lo2 = mark'.low
        /\ hi = mark.high
  BY <1>1, <1>3 DEF BucketType, MarkType
<1>7. (L - lo) * PerSecond <= (L - lo2) * PerSecond
      /\ (hi - lo) * PerSecond <= (hi - lo2) * PerSecond
  <2>1. L - lo <= L - lo2 /\ hi - lo <= hi - lo2
    BY <1>3, <1>6
  <2> QED  BY <2>1, LongerSpan
<1>8. MarkBalance'
  <2> SUFFICES ASSUME mark.set PROVE MarkBalance'
    BY <1>3 DEF MarkBalance
  <2>1. mark.fresh => tok + (adm - ma) * Second
                        <= MaxTokens + used * Second + (L - lo) * PerSecond
    BY <1>6 DEF MarkBalance
  <2>2. mark.fresh => tok + (adm - ma) * Second
                        <= MaxTokens + used * Second + (L - lo2) * PerSecond
    BY <1>6, <1>7, <2>1
  <2>3. /\ mark'.low <= clock' /\ clock' <= mark'.high
        /\ \A w \in Workers :
             pc[w] = "stamped" /\ w \notin mark.stale
               => mark'.low <= stamp[w] /\ stamp[w] <= mark'.high
    BY <1>1, <1>3 DEF MarkBalance
  <2> QED  BY <1>3, <1>6, <2>2, <2>3 DEF SetBack, MarkBalance
<1>9. WindowBound'
  BY <1>3, <1>6, <1>7 DEF SetBack, WindowBound
<1> QED  BY <1>2, <1>4, <1>5, <1>8, <1>9

LEMMA OpenWindowIInv == ASSUME IInv, OpenWindow PROVE IInv'
<1> USE DEF IInv, TypeOK, OpenWindow
<1>1. TypeOK'
  BY DEF MarkType
<1>2. WorkerTimes' /\ BucketTimes' /\ Unused'
  BY DEF WorkerTimes, BucketTimes, Unused
<1>3. Capped' /\ Balance' /\ Covered' /\ NoisySpaced'
  BY DEF Capped, Balance, Covered, NoisySpaced
<1>4. MarkBalance' /\ WindowBound'
  BY DEF MarkBalance, WindowBound
<1> QED  BY <1>1, <1>2, <1>3, <1>4

(* The critical section.  The cases that matter are the three shapes of    *)
(* the refill: forward, backwards (a stale time), and capped.              *)
LEMMA CheckRateLimitIInv ==
  ASSUME IInv, NEW w \in Workers, CheckRateLimit(w)
  PROVE  IInv'
<1>1. PICK now \in Nat, tp \in Nat, L \in Nat, tok \in Int, adm \in Nat, brn \in Nat :
        /\ now = stamp[w] /\ tp = top /\ L = bucket.lastTime
        /\ tok = bucket.tokens /\ adm = admitted /\ brn = born
  BY DEF IInv, TypeOK, BucketType
<1>2. PICK refill \in Int, pass \in {0, 1} :
        /\ Checked(bucket, now).tokens = refill - pass * Second
        /\ pass = IF Admits(bucket, now) THEN 1 ELSE 0
        /\ pass = 1 => refill >= Second
        /\ refill <= MaxTokens
        /\ refill <= tok + (now - L) * PerSecond
        /\ \/ refill = MaxTokens
           \/ refill = tok + (now - L) * PerSecond
  <2>1. bucket \in BucketType
    BY DEF IInv, TypeOK
  <2> QED  BY <1>1, <2>1, CheckedBalance
<1>3. /\ bucket' = Checked(bucket, now)
      /\ bucket'.tokens = refill - pass * Second
      /\ bucket'.lastTime = now
      /\ admitted' = adm + pass
      /\ clock' = clock /\ top' = tp /\ born' = brn /\ stored' = stored /\ calls' = calls
  BY <1>1, <1>2 DEF CheckRateLimit, Checked
<1>4. /\ stored /\ pc[w] = "stamped"
      /\ now <= tp /\ L <= tp
  BY <1>1 DEF IInv, CheckRateLimit, Goto, WorkerTimes, BucketTimes, TypeOK
<1>5. bucket' \in BucketType
  <2>1. refill - pass * Second \in Int
    BY <1>2
  <2>2. bucket.drops \in Nat /\ bucket.windowStart \in Nat
        /\ bucket.windowPackets \in Nat /\ bucket.noisyCount \in Nat
    BY DEF IInv, TypeOK, BucketType
  <2>3. Checked(bucket, now).tokens \in Int
    BY <1>2, <2>1
  <2> QED  BY <1>3, <2>2, <2>3 DEF Checked, BucketType
<1>6. TypeOK'
  <2>1. /\ pc' \in [Workers -> {"idle", "built", "loaded", "stamped"}]
        /\ stamp' \in [Workers -> Nat]
    BY DEF IInv, TypeOK, CheckRateLimit, Goto
  <2>2. mark' \in MarkType
    <3>1. mark \in MarkType
      BY DEF IInv, TypeOK
    <3>2. CASE mark.set
      <4>1. mark' = [mark EXCEPT
                       !.stale = mark.stale \ {w},
                       !.used  = mark.used + (IF w \in mark.stale THEN 1 ELSE 0),
                       !.fresh = mark.fresh \/ w \notin mark.stale]
        BY <3>2 DEF CheckRateLimit
      <4>2. mark.used + (IF w \in mark.stale THEN 1 ELSE 0) \in Nat
        BY <3>1 DEF MarkType
      <4>3. (mark.fresh \/ w \notin mark.stale) \in BOOLEAN
        BY Zenon
      <4>4. mark.stale \ {w} \in SUBSET Workers
        BY <3>1 DEF MarkType
      <4> QED  BY <3>1, <4>1, <4>2, <4>3, <4>4 DEF MarkType
    <3>3. CASE ~mark.set
      BY <3>1, <3>3 DEF CheckRateLimit
    <3> QED  BY <3>2, <3>3
  <2>3. clock' \in Nat /\ top' \in Nat /\ stored' \in BOOLEAN /\ born' \in Nat /\ calls' \in Nat
    BY <1>3 DEF IInv, TypeOK
  <2>4. admitted' \in Nat
    BY <1>3
  <2> QED  BY <1>5, <2>1, <2>2, <2>3, <2>4 DEF TypeOK
<1>7. WorkerTimes'
  BY <1>3 DEF IInv, TypeOK, WorkerTimes, CheckRateLimit, Goto
<1>8. bucket'.windowStart \in {bucket.windowStart, now}
  BY <1>3 DEF Checked
<1>9. BucketTimes'
  BY <1>1, <1>3, <1>4, <1>8 DEF IInv, BucketTimes
<1>10. Unused'
  BY <1>3, <1>4 DEF Unused
<1>11. Capped'
  BY <1>2, <1>3 DEF Capped
<1>12. Balance'
  <2>1. tok + adm * Second <= MaxTokens + (L - brn) * PerSecond
    BY <1>1 DEF IInv, Balance
  <2>2. (now - L) * PerSecond + (L - brn) * PerSecond = (now - brn) * PerSecond
    BY SpansAdd
  <2>3. refill - pass * Second + (adm + pass) * Second
          <= MaxTokens + (now - brn) * PerSecond
    BY <1>2, <2>1, <2>2
  <2> QED  BY <1>3, <2>3 DEF Balance
<1>13. Covered'
  <2>1. tok + (tp - L) * PerSecond >= 0
    BY <1>1 DEF IInv, Covered
  <2>2. (tp - now) * PerSecond + (now - L) * PerSecond = (tp - L) * PerSecond
    BY SpansAdd
  <2>3. (tp - now) * PerSecond \in Nat
    BY <1>4, SpanNonNegative
  <2>4. refill - pass * Second + (tp - now) * PerSecond >= 0
    BY <1>2, <2>1, <2>2, <2>3
  <2> QED  BY <1>3, <2>4 DEF Covered
<1>14. NoisySpaced'
  <2>1. PICK nc \in Nat, ws \in Nat : nc = bucket.noisyCount /\ ws = bucket.windowStart
    BY DEF IInv, TypeOK, BucketType
  <2>2. nc * Second <= ws - brn
    BY <1>1, <2>1 DEF IInv, NoisySpaced
  <2>3. CASE WindowEnds(bucket, now)
    <3>1. now - ws >= Second
      BY <2>1, <2>3 DEF WindowEnds
    <3>2. bucket'.windowStart = now /\ bucket'.noisyCount \in {nc, nc + 1}
      BY <1>3, <2>1, <2>3 DEF Checked
    <3>3. (nc + 1) * Second <= now - brn /\ nc * Second <= now - brn
      BY <2>2, <3>1
    <3> QED  BY <1>3, <3>2, <3>3 DEF NoisySpaced
  <2>4. CASE ~WindowEnds(bucket, now)
    <3>1. bucket'.windowStart = ws /\ bucket'.noisyCount = nc
      BY <1>3, <2>1, <2>4 DEF Checked
    <3> QED  BY <1>3, <2>2, <3>1 DEF NoisySpaced
  <2> QED  BY <2>3, <2>4
<1>15. MarkBalance' /\ WindowBound'
  <2> SUFFICES ASSUME mark.set PROVE MarkBalance' /\ WindowBound'
    BY DEF CheckRateLimit, MarkBalance, WindowBound
  <2>1. PICK lo \in Nat, hi \in Nat, ma \in Nat, used \in Nat :
          lo = mark.low /\ hi = mark.high /\ ma = mark.admitted /\ used = mark.used
    BY DEF IInv, TypeOK, MarkType
  <2>2. /\ mark'.set /\ mark'.low = lo /\ mark'.high = hi /\ mark'.admitted = ma
        /\ mark'.stale = mark.stale \ {w}
        /\ mark'.used = used + (IF w \in mark.stale THEN 1 ELSE 0)
        /\ mark'.fresh = (mark.fresh \/ w \notin mark.stale)
    BY <2>1 DEF IInv, TypeOK, CheckRateLimit, MarkType
  <2>3. /\ lo <= clock /\ clock <= hi /\ ma <= adm
        /\ w \notin mark.stale => lo <= now /\ now <= hi
        /\ ~mark.fresh => adm - ma <= used
        /\ mark.fresh => tok + (adm - ma) * Second
                           <= MaxTokens + used * Second + (L - lo) * PerSecond
    BY <1>1, <1>4, <2>1 DEF IInv, MarkBalance
  <2>4. /\ \A v \in Workers :
             pc'[v] = "stamped" /\ v \notin mark'.stale
               => lo <= stamp'[v] /\ stamp'[v] <= hi
        /\ \A v \in mark'.stale : pc'[v] = "stamped"
    BY <2>1, <2>2 DEF IInv, TypeOK, CheckRateLimit, Goto, MarkBalance, MarkType
  <2>5. (now - L) * PerSecond + (L - lo) * PerSecond = (now - lo) * PerSecond
    BY SpansAdd
  <2>6. PICK used2 \in Nat : used2 = mark'.used
    BY <2>2
  <2>7. ~mark'.fresh => adm + pass - ma <= used2
    <3> SUFFICES ASSUME ~mark'.fresh PROVE adm + pass - ma <= used2
      OBVIOUS
    <3>1. ~mark.fresh /\ w \in mark.stale
      BY <2>2
    <3>2. used2 = used + 1
      BY <2>2, <2>6, <3>1
    <3> QED  BY <1>2, <2>3, <3>1, <3>2
  <2>8. mark'.fresh => refill - pass * Second + (adm + pass - ma) * Second
                         <= MaxTokens + used2 * Second + (now - lo) * PerSecond
    <3>1. CASE mark.fresh
      <4>1. used2 \in {used, used + 1}
        BY <2>2, <2>6
      <4>2. used * Second <= used2 * Second
        BY <4>1
      <4> QED  BY <1>2, <2>3, <2>5, <3>1, <4>2
    <3>2. CASE ~mark.fresh /\ w \notin mark.stale
      <4>1. used2 = used /\ adm - ma <= used /\ lo <= now
        BY <2>2, <2>3, <2>6, <3>2
      <4>2. (now - lo) * PerSecond \in Nat
        BY <4>1, SpanNonNegative
      <4>3. (used - (adm - ma)) * Second \in Nat
        <5>1. \A m, n \in Nat : m * n \in Nat
          OBVIOUS
        <5> QED  BY <4>1, <5>1, <2>3
      <4>4. refill - pass * Second + (adm + pass - ma) * Second
              = refill + used * Second - (used - (adm - ma)) * Second
        BY <1>2
      <4> QED  BY <1>2, <4>1, <4>2, <4>3, <4>4
    <3> QED  BY <2>2, <3>1, <3>2
  <2>9. MarkBalance'
    BY <1>2, <1>3, <1>4, <2>2, <2>3, <2>4, <2>6, <2>7, <2>8 DEF MarkBalance
  <2>10. (adm - ma) * Second <= MaxTokens + used * Second + (hi - lo) * PerSecond
    BY <1>1, <2>1 DEF IInv, WindowBound
  <2>11. (adm + pass - ma) * Second <= MaxTokens + used2 * Second + (hi - lo) * PerSecond
    <3>1. CASE pass = 0
      <4>1. used2 \in {used, used + 1}
        BY <2>2, <2>6
      <4>2. used * Second <= used2 * Second
        BY <4>1
      <4> QED  BY <2>10, <3>1, <4>2
    <3>2. CASE w \in mark.stale
      <4>1. used2 = used + 1
        BY <2>2, <2>6, <3>2
      <4> QED  BY <1>2, <2>10, <4>1
    <3>3. CASE pass = 1 /\ w \notin mark.stale
      <4>1. (now - lo) * PerSecond <= (hi - lo) * PerSecond
        BY <2>3, <3>3, LongerSpan
      <4>2. mark'.fresh
        BY <2>2, <3>3
      <4> QED  BY <1>2, <2>8, <3>3, <4>1, <4>2
    <3> QED  BY <1>2, <3>1, <3>2, <3>3
  <2>12. WindowBound'
    BY <1>3, <2>2, <2>6, <2>11 DEF WindowBound
  <2> QED  BY <2>9, <2>12
<1> QED  BY <1>6, <1>7, <1>9, <1>10, <1>11, <1>12, <1>13, <1>14, <1>15 DEF IInv
-----------------------------------------------------------------------------
LEMMA InvariantHolds == Spec => []IInv
<1>1. IInv /\ [Next]_vars => IInv'
  <2> SUFFICES ASSUME IInv, [Next]_vars PROVE IInv'
    OBVIOUS
  <2>1. CASE Next
    BY <2>1, BuildBucketIInv, LoadOrStoreIInv, ReadClockIInv, CheckRateLimitIInv,
       TickIInv, SetBackIInv, OpenWindowIInv DEF Next
  <2>2. CASE UNCHANGED vars
    BY <2>2 DEF vars, IInv, TypeOK, WorkerTimes, BucketTimes, Unused, Capped,
                Balance, Covered, NoisySpaced, MarkBalance, WindowBound
  <2> QED  BY <2>1, <2>2
<1> QED  BY <1>1, InitIInv, PTL DEF Spec

(* Over a drone's whole life the limiter lets through at most its maximum  *)
(* plus the configured rate, for every number of workers, every            *)
(* interleaving of their clock readings with the mutex and every setting   *)
(* of the clock (udp.go:403-448).                                          *)
THEOREM AdmissionBounded == Spec => []AdmissionBound
<1>1. IInv => AdmissionBound
  <2> SUFFICES ASSUME IInv
               PROVE  admitted * Second <= MaxTokens + (top - born) * PerSecond
    BY DEF AdmissionBound
  <2>1. PICK tok \in Int, L \in Nat, adm \in Nat, brn \in Nat, tp \in Nat :
          /\ tok = bucket.tokens /\ L = bucket.lastTime /\ adm = admitted
          /\ brn = born /\ tp = top
    BY DEF IInv, TypeOK, BucketType
  <2>2. /\ tok + adm * Second <= MaxTokens + (L - brn) * PerSecond
        /\ tok + (tp - L) * PerSecond >= 0
    BY <2>1 DEF IInv, Balance, Covered
  <2>3. (tp - L) * PerSecond + (L - brn) * PerSecond = (tp - brn) * PerSecond
    BY SpansAdd
  <2> QED  BY <2>1, <2>2, <2>3
<1> QED  BY <1>1, InvariantHolds, PTL

(* Over any window of time the bound is the same, over the span the clock  *)
(* shows in the window, but for one message of each worker that had read   *)
(* its time before the window opened (udp.go:408-409).                     *)
THEOREM WindowBounded == Spec => []WindowBound
<1>1. IInv => WindowBound
  BY DEF IInv
<1> QED  BY <1>1, InvariantHolds, PTL

(* The fields of the bucket and the workers keep their types. *)
THEOREM TypeCorrect == Spec => []TypeOK
<1>1. IInv => TypeOK
  BY DEF IInv
<1> QED  BY <1>1, InvariantHolds, PTL

(* What the bucket owes is never more than the time from lastTime to the  *)
(* latest time the clock has shown: a drone is cut off no longer than the  *)
(* clock was set back (udp.go:412-413, 437-445).                           *)
THEOREM DebtPaid == Spec => []DebtIsPaid
<1>1. IInv => DebtIsPaid
  BY DEF IInv, Covered, DebtIsPaid
<1> QED  BY <1>1, InvariantHolds, PTL

(* A drone is reported as noisy at most once a second of its life. *)
THEOREM NoisySpacing == Spec => []NoisyAtMostOncePerSecond
<1>1. IInv => NoisyAtMostOncePerSecond
  BY DEF IInv, TypeOK, BucketType, BucketTimes, NoisySpaced, NoisyAtMostOncePerSecond
<1> QED  BY <1>1, InvariantHolds, PTL
=============================================================================
