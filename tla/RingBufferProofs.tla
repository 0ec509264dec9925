-------------------------- MODULE RingBufferProofs --------------------------
(***************************************************************************)
(* Theorems about the history ring buffer, for every capacity.             *)
(*                                                                         *)
(* First, what its operations compute: the index arithmetic of             *)
(* history.go:39-67 once and for all, which the registry's proofs rest on  *)
(* too.  Then the buffer itself.  Its inductive invariant relates each     *)
(* slot to the push that wrote it: the slot i places behind the head holds *)
(* the i-th most recent push.                                              *)
(***************************************************************************)
EXTENDS RingBuffer, SequenceTheorems, TLAPS

Buffers(E) == [entries : [Slots -> E], head : Slots, count : 0 .. Capacity]

(* The slot i places behind the head h. *)
Behind(h, i) == (h - i + Capacity) % Capacity

(* How many entries Last(n) answers with. *)
Held(b, n) == IF n > b.count THEN b.count ELSE n

(* The i-th most recent entry. *)
Recent(b, i) == b.entries[Behind(b.head, i)]
-----------------------------------------------------------------------------
(* Taking an index modulo the capacity leaves a valid slot alone and wraps *)
(* one past the end exactly once.                                          *)
LEMMA ModOnce ==
  ASSUME NEW x \in 0 .. 2 * Capacity - 1
  PROVE  x % Capacity = IF x < Capacity THEN x ELSE x - Capacity
<1>1. CASE x < Capacity
  BY <1>1, CapacityAssumption
<1>2. CASE x >= Capacity
  <2>1. x = Capacity * 1 + (x - Capacity) /\ x - Capacity \in 0 .. Capacity - 1
    BY <1>2, CapacityAssumption
  <2> QED  BY <2>1, <1>2, CapacityAssumption
<1> QED  BY <1>1, <1>2, CapacityAssumption

(* Walking back from the head: no wrap while enough slots lie before it.   *)
LEMMA BehindValue ==
  ASSUME NEW h \in Slots, NEW i \in 1 .. Capacity
  PROVE  Behind(h, i) = IF i <= h THEN h - i ELSE h - i + Capacity
<1>1. h - i + Capacity \in 0 .. 2 * Capacity - 1
  BY CapacityAssumption DEF Slots
<1> QED  BY <1>1, ModOnce, CapacityAssumption DEF Behind, Slots

(* The successor of a slot, as the head moves. *)
LEMMA NextHead ==
  ASSUME NEW h \in Slots
  PROVE  (h + 1) % Capacity = IF h + 1 = Capacity THEN 0 ELSE h + 1
<1>1. h + 1 \in 0 .. 2 * Capacity - 1
  BY CapacityAssumption DEF Slots
<1> QED  BY <1>1, ModOnce, CapacityAssumption DEF Slots

(* After a push the newest entry is one behind the head, and every other   *)
(* distance grows by one: no slot of the window is the one overwritten.    *)
LEMMA BehindShifts ==
  ASSUME NEW h \in Slots
  PROVE  /\ (h + 1) % Capacity \in Slots
         /\ Behind((h + 1) % Capacity, 1) = h
         /\ \A i \in 2 .. Capacity :
              /\ Behind((h + 1) % Capacity, i) = Behind(h, i - 1)
              /\ Behind(h, i - 1) # h
              /\ Behind(h, i - 1) \in Slots
<1> DEFINE g == (h + 1) % Capacity
<1>1. g = IF h + 1 = Capacity THEN 0 ELSE h + 1
  BY NextHead
<1>2. g \in Slots
  BY <1>1, CapacityAssumption DEF Slots
<1>3. Behind(g, 1) = h
  <2>1. 1 \in 1 .. Capacity
    BY CapacityAssumption
  <2> HIDE DEF g
  <2>2. Behind(g, 1) = IF 1 <= g THEN g - 1 ELSE g - 1 + Capacity
    BY <1>2, <2>1, BehindValue
  <2> QED  BY <2>2, <1>1, CapacityAssumption DEF Slots
<1>4. ASSUME NEW i \in 2 .. Capacity
      PROVE  /\ Behind(g, i) = Behind(h, i - 1)
             /\ Behind(h, i - 1) # h
             /\ Behind(h, i - 1) \in Slots
  <2>1. i \in 1 .. Capacity /\ i - 1 \in 1 .. Capacity
    BY CapacityAssumption
  <2> HIDE DEF g
  <2>2. Behind(g, i) = IF i <= g THEN g - i ELSE g - i + Capacity
    BY <1>2, <2>1, BehindValue
  <2>3. Behind(h, i - 1) = IF i - 1 <= h THEN h - (i - 1) ELSE h - (i - 1) + Capacity
    BY <2>1, BehindValue
  <2> QED  BY <2>2, <2>3, <1>1, CapacityAssumption DEF Slots
<1> QED  BY <1>2, <1>3, <1>4

(* Reading m slots forward from the one m behind the head meets, at the    *)
(* i-th, the slot m - i + 1 behind the head.                               *)
LEMMA ReadIndex ==
  ASSUME NEW h \in Slots, NEW m \in 1 .. Capacity, NEW i \in 1 .. m
  PROVE  (Behind(h, m) + i - 1) % Capacity = Behind(h, m - i + 1)
<1>1. m - i + 1 \in 1 .. Capacity
  BY CapacityAssumption
<1>2. Behind(h, m) = IF m <= h THEN h - m ELSE h - m + Capacity
  BY BehindValue
<1>3. Behind(h, m - i + 1) = IF m - i + 1 <= h THEN h - (m - i + 1)
                                               ELSE h - (m - i + 1) + Capacity
  BY <1>1, BehindValue
<1> DEFINE x == Behind(h, m) + i - 1
<1>4. x \in 0 .. 2 * Capacity - 1
  BY <1>2, CapacityAssumption DEF Slots
<1> HIDE DEF x
<1>5. x % Capacity = IF x < Capacity THEN x ELSE x - Capacity
  BY <1>4, ModOnce
<1>6. x = Behind(h, m) + i - 1
  BY DEF x
<1> QED  BY <1>2, <1>3, <1>5, <1>6, CapacityAssumption DEF Slots
-----------------------------------------------------------------------------
(* A push makes its entry the most recent one, moves every other one place *)
(* back, and counts it until the buffer is full.                           *)
LEMMA PushIs ==
  ASSUME NEW E, NEW b \in Buffers(E), NEW e \in E
  PROVE  /\ Push(b, e) \in Buffers(E)
         /\ Push(b, e).count = IF b.count < Capacity THEN b.count + 1 ELSE b.count
         /\ Push(b, e).count >= 1
         /\ Recent(Push(b, e), 1) = e
         /\ \A i \in 2 .. Push(b, e).count :
              /\ i - 1 \in 1 .. b.count
              /\ Recent(Push(b, e), i) = Recent(b, i - 1)
<1> USE CapacityAssumption
<1>1. b.entries \in [Slots -> E] /\ b.head \in Slots /\ b.count \in 0 .. Capacity
  BY DEF Buffers
<1>2. PICK c : c = Push(b, e)
  OBVIOUS
<1>3. /\ c = [entries |-> c.entries, head |-> c.head, count |-> c.count]
      /\ c.entries = [b.entries EXCEPT ![b.head] = e]
      /\ c.head = (b.head + 1) % Capacity
      /\ c.count = IF b.count < Capacity THEN b.count + 1 ELSE b.count
  BY <1>2 DEF Push
<1>4. c.entries \in [Slots -> E] /\ c.head \in Slots /\ c.count \in 1 .. Capacity
  <2>1. c.head \in Slots
    BY <1>1, <1>3, BehindShifts
  <2> QED  BY <1>1, <1>3, <2>1
<1>5. c \in Buffers(E)
  BY <1>3, <1>4 DEF Buffers
<1>6. Recent(c, 1) = e
  <2>1. Behind(c.head, 1) = b.head
    BY <1>1, <1>3, BehindShifts
  <2> QED  BY <1>1, <1>3, <2>1 DEF Recent
<1>7. ASSUME NEW i \in 2 .. c.count
      PROVE  i - 1 \in 1 .. b.count /\ Recent(c, i) = Recent(b, i - 1)
  <2>1. i \in 2 .. Capacity /\ i - 1 \in 1 .. b.count
    BY <1>1, <1>3
  <2>2. /\ Behind(c.head, i) = Behind(b.head, i - 1)
        /\ Behind(b.head, i - 1) # b.head
        /\ Behind(b.head, i - 1) \in Slots
    BY <1>1, <1>3, <2>1, BehindShifts
  <2>3. c.entries[Behind(b.head, i - 1)] = b.entries[Behind(b.head, i - 1)]
    BY <1>1, <1>3, <2>2
  <2> QED  BY <2>1, <2>2, <2>3 DEF Recent
<1> QED  BY <1>2, <1>3, <1>4, <1>5, <1>6, <1>7

(* Last(n) answers what the buffer holds of n entries, the most recent one *)
(* at the end.                                                             *)
LEMMA LastNIs ==
  ASSUME NEW E, NEW b \in Buffers(E), NEW n \in Nat
  PROVE  /\ Held(b, n) \in 0 .. b.count
         /\ LastN(b, n) = [i \in 1 .. Held(b, n) |-> Recent(b, Held(b, n) - i + 1)]
         /\ DOMAIN LastN(b, n) = 1 .. Held(b, n)
         /\ Len(LastN(b, n)) = Held(b, n)
<1> USE CapacityAssumption
<1>1. PICK m : m = Held(b, n)
  OBVIOUS
<1>2. b.head \in Slots /\ b.count \in 0 .. Capacity /\ m \in 0 .. b.count
  BY <1>1 DEF Buffers, Held
<1> DEFINE start == (b.head - m + Capacity) % Capacity
<1>3. ASSUME NEW i \in 1 .. m
      PROVE  b.entries[(start + i - 1) % Capacity] = Recent(b, m - i + 1)
  <2>1. m \in 1 .. Capacity
    BY <1>2
  <2>2. (start + i - 1) % Capacity = Behind(b.head, m - i + 1)
    BY <1>2, <2>1, ReadIndex DEF Behind
  <2> QED  BY <2>2 DEF Recent
<1>4. LastN(b, n) = [i \in 1 .. m |-> b.entries[(start + i - 1) % Capacity]]
  BY <1>1 DEF LastN, Held
<1>5. LastN(b, n) = [i \in 1 .. m |-> Recent(b, m - i + 1)]
  BY <1>3, <1>4
<1>6. DOMAIN LastN(b, n) = 1 .. m /\ Len(LastN(b, n)) = m
  BY <1>2, <1>5
<1> QED  BY <1>1, <1>2, <1>5, <1>6
-----------------------------------------------------------------------------

SlotsHoldPushes ==
  \A i \in 1 .. rb.count :
    Recent(rb, i) = pushed[Len(pushed) - i + 1]

CountIsWindow ==
  rb.count = IF Len(pushed) < Capacity THEN Len(pushed) ELSE Capacity

IInv == TypeOK /\ CountIsWindow /\ SlotsHoldPushes
-----------------------------------------------------------------------------
LEMMA InitIInv == Init => IInv
<1> SUFFICES ASSUME Init PROVE IInv
  OBVIOUS
<1>1. TypeOK
  BY CapacityAssumption DEF Init, NewRingBuffer, TypeOK, Slots
<1>2. CountIsWindow /\ SlotsHoldPushes
  BY CapacityAssumption DEF Init, NewRingBuffer, CountIsWindow, SlotsHoldPushes
<1> QED  BY <1>1, <1>2 DEF IInv

LEMMA PushIInv ==
  ASSUME IInv, NEW e \in HistoryEntry, PushEntry(e)
  PROVE  IInv'
<1> USE CapacityAssumption
<1>1. /\ rb \in Buffers(HistoryEntry \cup {ZeroEntry})
      /\ rb.count \in 0 .. Capacity
      /\ pushed \in Seq(HistoryEntry)
  BY DEF IInv, TypeOK, Buffers
<1>2. rb' = Push(rb, e) /\ pushed' = Append(pushed, e)
  BY DEF PushEntry
<1>3. /\ rb' \in Buffers(HistoryEntry \cup {ZeroEntry})
      /\ rb'.count = IF rb.count < Capacity THEN rb.count + 1 ELSE rb.count
      /\ Recent(rb', 1) = e
      /\ \A i \in 2 .. rb'.count :
           i - 1 \in 1 .. rb.count /\ Recent(rb', i) = Recent(rb, i - 1)
  BY <1>1, <1>2, PushIs
<1>4. Len(pushed) \in Nat /\ Len(pushed') = Len(pushed) + 1 /\ pushed' \in Seq(HistoryEntry)
  BY <1>1, <1>2
<1>5. TypeOK'
  BY <1>3, <1>4 DEF TypeOK, Buffers
<1>6. CountIsWindow'
  BY <1>1, <1>3, <1>4 DEF IInv, CountIsWindow
<1>7. SlotsHoldPushes'
  <2> SUFFICES ASSUME NEW i \in 1 .. rb'.count
               PROVE  Recent(rb', i) = pushed'[Len(pushed') - i + 1]
    BY DEF SlotsHoldPushes, Recent, Behind
  <2>1. CASE i = 1
    BY <1>1, <1>2, <1>3, <1>4, <2>1
  <2>2. CASE i # 1
    <3>1. /\ i \in 2 .. rb'.count /\ i - 1 \in 1 .. rb.count
          /\ Recent(rb', i) = Recent(rb, i - 1)
      BY <1>1, <1>3, <2>2
    <3>2. Recent(rb, i - 1) = pushed[Len(pushed) - (i - 1) + 1]
      BY <3>1 DEF IInv, SlotsHoldPushes
    <3>3. rb.count <= Len(pushed)
      BY <1>1, <1>4 DEF IInv, CountIsWindow
    <3>4. /\ Len(pushed) - (i - 1) + 1 = Len(pushed') - i + 1
          /\ Len(pushed') - i + 1 \in 1 .. Len(pushed)
      BY <1>1, <1>4, <3>1, <3>3
    <3> QED  BY <1>1, <1>2, <3>1, <3>2, <3>4
  <2> QED  BY <2>1, <2>2
<1> QED  BY <1>5, <1>6, <1>7 DEF IInv

LEMMA NextIInv == IInv /\ [Next]_vars => IInv'
<1> SUFFICES ASSUME IInv, [Next]_vars PROVE IInv'
  OBVIOUS
<1>1. CASE Next
  BY <1>1, PushIInv DEF Next
<1>2. CASE UNCHANGED vars
  BY <1>2 DEF vars, IInv, TypeOK, CountIsWindow, SlotsHoldPushes, Recent, Behind
<1> QED  BY <1>1, <1>2

LEMMA InvariantHolds == Spec => []IInv
<1> QED  BY InitIInv, NextIInv, PTL DEF Spec

(* The head always points at a slot and the count never passes the         *)
(* capacity (history.go:44-48): no push can index out of range.            *)
THEOREM TypeCorrect == Spec => []TypeOK
<1>1. IInv => TypeOK
  BY DEF IInv
<1> QED  BY <1>1, InvariantHolds, PTL
-----------------------------------------------------------------------------
(* What Last(n) computes from a buffer that satisfies the invariant, for   *)
(* every n.                                                                *)
LEMMA LastNSuffix ==
  ASSUME IInv, NEW n \in Nat
  PROVE  LastN(rb, n) = Window!Suffix(pushed, IF n > Capacity THEN Capacity ELSE n)
<1> USE CapacityAssumption
<1> DEFINE m == Held(rb, n)
           w == IF n > Capacity THEN Capacity ELSE n
           k == IF w > Len(pushed) THEN Len(pushed) ELSE w
<1>1. /\ rb \in Buffers(HistoryEntry \cup {ZeroEntry})
      /\ rb.count \in 0 .. Capacity
      /\ pushed \in Seq(HistoryEntry)
      /\ Len(pushed) \in Nat
  BY DEF IInv, TypeOK, Buffers
<1>2. m = k /\ m \in 0 .. rb.count /\ m <= Len(pushed)
  BY <1>1 DEF IInv, CountIsWindow, Held
<1>3. LastN(rb, n) = [i \in 1 .. m |-> Recent(rb, m - i + 1)]
  <2>1. PICK E : E = HistoryEntry \cup {ZeroEntry}
    OBVIOUS
  <2>2. rb \in Buffers(E)
    BY <1>1, <2>1
  <2> QED  BY <2>2, LastNIs, Zenon
<1>4. ASSUME NEW i \in 1 .. m
      PROVE  Recent(rb, m - i + 1) = pushed[Len(pushed) - m + i]
  <2> HIDE DEF m, k
  <2>1. m - i + 1 \in 1 .. rb.count
    BY <1>1, <1>2
  <2>2. Recent(rb, m - i + 1) = pushed[Len(pushed) - (m - i + 1) + 1]
    BY <2>1 DEF IInv, SlotsHoldPushes
  <2>3. Len(pushed) - (m - i + 1) + 1 = Len(pushed) - m + i
    BY <1>1, <1>2
  <2> QED  BY <2>2, <2>3
<1>5. Window!Suffix(pushed, w) = [i \in 1 .. k |-> pushed[Len(pushed) - k + i]]
  BY DEF Window!Suffix
<1> HIDE DEF m, k
<1>6. [i \in 1 .. m |-> Recent(rb, m - i + 1)]
        = [i \in 1 .. m |-> pushed[Len(pushed) - m + i]]
  BY <1>4
<1> QED  BY <1>2, <1>3, <1>5, <1>6

(* Last(n) answers the most recent n pushes, oldest first, for every       *)
(* capacity and however often the head has wrapped (history.go:51).        *)
THEOREM LastCorrect == Spec => []LastIsSuffix
<1>1. IInv => LastIsSuffix
  BY LastNSuffix, CapacityAssumption DEF LastIsSuffix
<1> QED  BY <1>1, InvariantHolds, PTL
-----------------------------------------------------------------------------
(* What a suffix is: its length, and its elements by their index. *)
LEMMA SuffixIs ==
  ASSUME NEW S, NEW s \in Seq(S), NEW n \in Nat
  PROVE  /\ Window!Suffix(s, n) \in Seq(S)
         /\ Len(Window!Suffix(s, n)) = IF n > Len(s) THEN Len(s) ELSE n
         /\ \A i \in 1 .. Len(Window!Suffix(s, n)) :
              Window!Suffix(s, n)[i] = s[Len(s) - Len(Window!Suffix(s, n)) + i]
<1>1. PICK m : m = IF n > Len(s) THEN Len(s) ELSE n
  OBVIOUS
<1>2. m \in Nat /\ m <= Len(s) /\ Len(s) \in Nat
  BY <1>1
<1>3. Window!Suffix(s, n) = [i \in 1 .. m |-> s[Len(s) - m + i]]
  BY <1>1 DEF Window!Suffix
<1>4. \A i \in 1 .. m : Len(s) - m + i \in 1 .. Len(s)
  BY <1>2
<1>5. \A i \in 1 .. m : s[Len(s) - m + i] \in S
  BY <1>4
<1>6. Window!Suffix(s, n) \in Seq(S) /\ Len(Window!Suffix(s, n)) = m
  BY <1>2, <1>3, <1>5
<1> QED  BY <1>1, <1>3, <1>6

(* A window of what was pushed forgets nothing the next window needs. *)
LEMMA SuffixAppend ==
  ASSUME NEW s \in Seq(HistoryEntry), NEW e \in HistoryEntry
  PROVE  Window!Suffix(Append(Window!Suffix(s, Capacity), e), Capacity)
           = Window!Suffix(Append(s, e), Capacity)
<1> USE CapacityAssumption
<1>1. PICK t : t = Window!Suffix(s, Capacity)
  OBVIOUS
<1>2. /\ t \in Seq(HistoryEntry)
      /\ Len(t) = IF Capacity > Len(s) THEN Len(s) ELSE Capacity
      /\ \A i \in 1 .. Len(t) : t[i] = s[Len(s) - Len(t) + i]
  BY <1>1, SuffixIs
<1>3. PICK u : u = Append(t, e)
  OBVIOUS
<1>4. PICK v : v = Append(s, e)
  OBVIOUS
<1>5. /\ u \in Seq(HistoryEntry) /\ Len(u) = Len(t) + 1 /\ u[Len(u)] = e
      /\ \A i \in 1 .. Len(t) : u[i] = t[i]
  BY <1>2, <1>3
<1>6. /\ v \in Seq(HistoryEntry) /\ Len(v) = Len(s) + 1 /\ v[Len(v)] = e
      /\ \A i \in 1 .. Len(s) : v[i] = s[i]
  BY <1>4
<1>7. PICK x : x = Window!Suffix(u, Capacity)
  OBVIOUS
<1>8. PICK y : y = Window!Suffix(v, Capacity)
  OBVIOUS
<1>9. /\ x \in Seq(HistoryEntry) /\ y \in Seq(HistoryEntry)
      /\ Len(x) = IF Capacity > Len(u) THEN Len(u) ELSE Capacity
      /\ Len(y) = IF Capacity > Len(v) THEN Len(v) ELSE Capacity
      /\ \A i \in 1 .. Len(x) : x[i] = u[Len(u) - Len(x) + i]
      /\ \A i \in 1 .. Len(y) : y[i] = v[Len(v) - Len(y) + i]
  <2>0. u \in Seq(HistoryEntry) /\ v \in Seq(HistoryEntry) /\ Capacity \in Nat
    BY <1>5, <1>6
  <2>1. /\ x \in Seq(HistoryEntry)
        /\ Len(x) = IF Capacity > Len(u) THEN Len(u) ELSE Capacity
        /\ \A i \in 1 .. Len(x) : x[i] = u[Len(u) - Len(x) + i]
    BY <2>0, <1>7, SuffixIs
  <2>2. /\ y \in Seq(HistoryEntry)
        /\ Len(y) = IF Capacity > Len(v) THEN Len(v) ELSE Capacity
        /\ \A i \in 1 .. Len(y) : y[i] = v[Len(v) - Len(y) + i]
    BY <2>0, <1>8, SuffixIs
  <2> QED  BY <2>1, <2>2
<1>10. /\ Len(x) = Len(y) /\ Len(x) <= Len(t) + 1 /\ Len(t) <= Len(s)
       /\ Len(x) \in Nat /\ Len(t) \in Nat /\ Len(s) \in Nat
  BY <1>2, <1>5, <1>6, <1>9
<1>11. ASSUME NEW i \in 1 .. Len(x)
       PROVE  x[i] = y[i]
  <2>1. x[i] = u[Len(u) - Len(x) + i] /\ y[i] = v[Len(v) - Len(x) + i]
    BY <1>9, <1>10
  <2>2. CASE i = Len(x)
    BY <2>1, <2>2, <1>5, <1>6, <1>10
  <2>3. CASE i < Len(x)
    <3>1. Len(u) - Len(x) + i \in 1 .. Len(t) /\ Len(v) - Len(x) + i \in 1 .. Len(s)
      BY <2>3, <1>5, <1>6, <1>10
    <3>2. Len(s) - Len(t) + (Len(u) - Len(x) + i) = Len(v) - Len(x) + i
      BY <1>5, <1>6, <1>10
    <3> QED  BY <2>1, <3>1, <3>2, <1>2, <1>5, <1>6
  <2> QED  BY <2>2, <2>3, <1>10
<1>12. x = y
  BY <1>9, <1>10, <1>11, SeqEqual
<1> QED  BY <1>1, <1>3, <1>4, <1>7, <1>8, <1>12

(* The whole buffer, read back, is the window of what was pushed. *)
BufferIsWindow == LastN(rb, rb.count) = Window!Suffix(pushed, Capacity)

LEMMA WindowHolds == Spec => []BufferIsWindow
<1>1. IInv => BufferIsWindow
  <2> USE CapacityAssumption
  <2> SUFFICES ASSUME IInv PROVE BufferIsWindow
    OBVIOUS
  <2>1. rb.count \in 0 .. Capacity /\ Len(pushed) \in Nat
    BY DEF IInv, TypeOK
  <2>2. LastN(rb, rb.count) = Window!Suffix(pushed, rb.count)
    BY <2>1, LastNSuffix
  <2>3. Window!Suffix(pushed, rb.count) = Window!Suffix(pushed, Capacity)
    BY <2>1 DEF IInv, CountIsWindow, Window!Suffix
  <2> QED  BY <2>2, <2>3 DEF BufferIsWindow
<1> QED  BY <1>1, InvariantHolds, PTL

(* The buffer implements the window: an initial buffer is the empty        *)
(* window, and a push drops exactly the oldest entry of a full one         *)
(* (history.go:39-49).                                                     *)
THEOREM Implements == Spec => ImplementsWindow
<1>1. Init => Window!Init
  <2> SUFFICES ASSUME Init PROVE LastN(rb, rb.count) = <<>>
    BY DEF Window!Init
  <2> QED  BY DEF Init, NewRingBuffer, LastN
<1>2. TypeOK /\ BufferIsWindow /\ BufferIsWindow' /\ [Next]_vars
        => [Window!Next]_(LastN(rb, rb.count))
  <2> SUFFICES ASSUME TypeOK, BufferIsWindow, BufferIsWindow', [Next]_vars
               PROVE  [Window!Next]_(LastN(rb, rb.count))
    OBVIOUS
  <2>1. ASSUME NEW e \in HistoryEntry, PushEntry(e)
        PROVE  Window!Record(e)
    <3>1. pushed' = Append(pushed, e) /\ pushed \in Seq(HistoryEntry)
      BY <2>1 DEF PushEntry, TypeOK
    <3> QED  BY <3>1, SuffixAppend DEF BufferIsWindow, Window!Record
  <2>2. CASE Next
    BY <2>1, <2>2 DEF Next, Window!Next
  <2>3. CASE UNCHANGED vars
    BY <2>3 DEF vars
  <2> QED  BY <2>2, <2>3
<1> QED  BY <1>1, <1>2, TypeCorrect, WindowHolds, PTL
         DEF Spec, ImplementsWindow, Window!Spec
=============================================================================
