---------------------------- MODULE ReplayProofs ----------------------------
(***************************************************************************)
(* The frames of both senders and their decoder, for every state of a      *)
(* drone, every stretch of the generated flight and every damage that      *)
(* Replay knows: what arrives as it was sent is decoded to what its sender *)
(* encoded, the tool replays a capture in its order, and damage on the     *)
(* line is found.                                                          *)
(*                                                                         *)
(* Bytes are put together and read back with Cat and Holds, which are kept *)
(* folded; from the lemmas about them follow the layout of a frame and of  *)
(* each payload, and from those what the decoder makes of it.  The         *)
(* checksum stays any function with the properties named as hypotheses.    *)
(***************************************************************************)
EXTENDS Replay, FunctionTheorems, FiniteSetTheorems, SequenceTheorems,
        WellFoundedInduction, TLAPS

(* Induction, over a set that holds 0 and each next number. *)
LEMMA NatSetInduction ==
  ASSUME NEW P, 0 \in P, \A n \in Nat : n \in P => n + 1 \in P
  PROVE  \A n \in Nat : n \in P
<1> DEFINE T == Nat \ P
<1>1. ASSUME T # {} PROVE FALSE
  <2>1. PICK x \in T : \A y \in T : ~(<<y, x>> \in OpToRel(<, Nat))
    BY <1>1, NatLessThanWellFounded, WFMin
  <2>2. x \in Nat /\ x # 0
    OBVIOUS
  <2>3. x - 1 \in Nat /\ x - 1 < x /\ x = (x - 1) + 1
    BY <2>2
  <2>4. x - 1 \in T
    BY <2>3
  <2>5. <<x - 1, x>> \in OpToRel(<, Nat)
    BY <2>2, <2>3 DEF OpToRel
  <2> QED  BY <2>1, <2>4, <2>5
<1> QED  BY <1>1

IDs == {HeartbeatID, GlobalPositionID, AttitudeID, BatteryID, GPSRawID}

LEMMA Seeds == IDs \subseteq DOMAIN crcSeed
BY DEF IDs, HeartbeatID, GlobalPositionID, AttitudeID, BatteryID, GPSRawID, crcSeed

LEMMA Lengths ==
  /\ DOMAIN FullLength = IDs
  /\ FullLength[HeartbeatID] = 9 /\ FullLength[GlobalPositionID] = 28
  /\ FullLength[GPSRawID] = 30 /\ FullLength[BatteryID] = 36 /\ FullLength[AttitudeID] = 28
BY DEF IDs, HeartbeatID, GlobalPositionID, AttitudeID, BatteryID, GPSRawID, FullLength

LEMMA Missions == ModeOf(AutoModes, 4, "AUTO") = "MISSION" /\ ModeOf(PlainModes, 0, "UNKNOWN") = "UNKNOWN"
BY DEF ModeOf, AutoModes, PlainModes

(* A number and its lowest eight bits, and the bits above them. *)
LEMMA Digit ==
  ASSUME NEW n \in Int
  PROVE  /\ n \div 256 \in Int /\ n % 256 \in Byte
         /\ n = 256 * (n \div 256) + (n % 256)
BY SMT DEF Byte, Between

LEMMA DivTwice ==
  ASSUME NEW n \in Int
  PROVE  /\ n \div 65536 = (n \div 256) \div 256
         /\ n \div 16777216 = (n \div 65536) \div 256
BY SMT

LEMMA BytesOf ==
  ASSUME NEW n \in Int
  PROVE  /\ n % 256 \in Byte /\ (n \div 256) % 256 \in Byte
         /\ (n \div 65536) % 256 \in Byte /\ (n \div 16777216) % 256 \in Byte
BY SMT DEF Byte, Between

LEMMA ByteDigit ==
  ASSUME NEW b \in Byte
  PROVE  b % 256 = b
BY SMT DEF Byte, Between

LEMMA Value16 ==
  ASSUME NEW n \in Uint16
  PROVE  (n % 256) + 256 * ((n \div 256) % 256) = n
<1>0. n \in Int /\ 0 <= n /\ n <= 65535
  BY SMT DEF Uint16, Between
<1>1. PICK q \in Int, r \in Byte : q = n \div 256 /\ r = n % 256 /\ n = 256 * q + r
  BY <1>0, Digit
<1>2. q \in Byte
  BY <1>0, <1>1, SMT DEF Byte, Between
<1>3. q % 256 = q /\ r \in Int
  BY <1>2, ByteDigit DEF Byte, Between
<1> QED  BY <1>1, <1>3

LEMMA SignedDigit ==
  ASSUME NEW n \in Int, -128 <= n, n <= 127
  PROVE  Signed8(n % 256) = n
BY SMT DEF Signed8

LEMMA Value32 ==
  ASSUME NEW n \in Int32
  PROVE  (n % 256) + 256 * ((n \div 256) % 256) + 65536 * ((n \div 65536) % 256)
           + 16777216 * Signed8((n \div 16777216) % 256) = n
<1>0. n \in Int /\ -2147483648 <= n /\ n <= 2147483647
  BY SMT DEF Int32, Between
<1>1. PICK q \in Int, r \in Byte : q = n \div 256 /\ r = n % 256 /\ n = 256 * q + r
  BY <1>0, Digit
<1>2. PICK u \in Int, s \in Byte : u = q \div 256 /\ s = q % 256 /\ q = 256 * u + s
  BY Digit
<1>3. PICK v \in Int, t \in Byte : v = u \div 256 /\ t = u % 256 /\ u = 256 * v + t
  BY Digit
<1>5. n \div 65536 = u /\ n \div 16777216 = v
  BY <1>0, <1>1, <1>2, <1>3, DivTwice, SMT
<1>6. /\ r \in Int /\ 0 <= r /\ r <= 255 /\ s \in Int /\ 0 <= s /\ s <= 255
      /\ t \in Int /\ 0 <= t /\ t <= 255
  BY SMT DEF Byte, Between
<1>7. n = r + 256 * s + 65536 * t + 16777216 * v
  BY <1>0, <1>1, <1>2, <1>3, <1>6, SMT
<1>8. -128 <= v /\ v <= 127
  BY <1>0, <1>6, <1>7, SMT
<1>9. Signed8(v % 256) = v
  BY <1>8, SignedDigit
<1> QED  BY <1>1, <1>2, <1>3, <1>5, <1>7, <1>9, SMT

-----------------------------------------------------------------------------
(* Datagrams put together of parts: one sequence behind another, and that  *)
(* s has the bytes of t behind its first k bytes.                          *)
Cat(s, t) == s \o t
Joined(u, s, t) == u = Cat(s, t)
Holds(s, k, t) ==
  /\ s \in Seq(Byte) /\ t \in Seq(Byte) /\ k \in Nat /\ k + Len(t) <= Len(s)
  /\ \A i \in DOMAIN t : s[k + i] = t[i]

LEMMA InBytes ==
  /\ \A s, n : s \in Bytes(n) => s \in Seq(Byte) /\ Len(s) = n /\ n \in Nat /\ DOMAIN s = 1 .. n
  /\ \A s : s \in Seq(Byte) => s \in Bytes(Len(s))
BY DEF Bytes

LEMMA CatHolds ==
  \A u, s, t : Joined(u, s, t) /\ s \in Seq(Byte) /\ t \in Seq(Byte) =>
    /\ u \in Seq(Byte) /\ Len(u) = Len(s) + Len(t)
    /\ Holds(u, 0, s)
    /\ Holds(u, Len(s), t)
<1> SUFFICES ASSUME NEW s, NEW t, s \in Seq(Byte), t \in Seq(Byte)
             PROVE  /\ Cat(s, t) \in Seq(Byte) /\ Len(Cat(s, t)) = Len(s) + Len(t)
                    /\ Holds(Cat(s, t), 0, s)
                    /\ Holds(Cat(s, t), Len(s), t)
  BY DEF Joined
<1> QED  BY DEF Cat, Holds

LEMMA HoldsWithin ==
  \A r, s, t, j, k : Holds(r, j, s) /\ Holds(s, k, t) => Holds(r, j + k, t)
<1> SUFFICES ASSUME NEW r, NEW s, NEW t, NEW j, NEW k, Holds(r, j, s), Holds(s, k, t)
             PROVE  Holds(r, j + k, t)
  OBVIOUS
<1>1. /\ r \in Seq(Byte) /\ s \in Seq(Byte) /\ t \in Seq(Byte) /\ j \in Nat /\ k \in Nat
      /\ j + Len(s) <= Len(r) /\ k + Len(t) <= Len(s)
  BY DEF Holds
<1>2. ASSUME NEW i \in DOMAIN t PROVE r[(j + k) + i] = t[i]
  <2>1. i \in 1 .. Len(t) /\ k + i \in DOMAIN s /\ (j + k) + i = j + (k + i)
    BY <1>1
  <2>2. r[j + (k + i)] = s[k + i]
    BY <2>1 DEF Holds
  <2>3. s[k + i] = t[i]
    BY DEF Holds
  <2> QED  BY <2>1, <2>2, <2>3
<1>3. j + k \in Nat /\ (j + k) + Len(t) <= Len(r)
  BY <1>1
<1> QED  BY <1>1, <1>2, <1>3 DEF Holds

(* What a sequence holds is still there when something is put behind it. *)
LEMMA HoldsKept ==
  \A u, s, t, k, r, n :
    Joined(u, s, t) /\ Holds(s, k, r) /\ t \in Bytes(n) => Holds(u, k, r)
<1> SUFFICES ASSUME NEW u, NEW s, NEW t, NEW k, NEW r, NEW n,
                    Joined(u, s, t), Holds(s, k, r), t \in Bytes(n)
             PROVE  Holds(u, k, r)
  OBVIOUS
<1>1. s \in Bytes(Len(s))
  BY InBytes DEF Holds
<1>2. Holds(u, 0, s)
  BY <1>1, CatHolds, InBytes
<1>3. Holds(u, 0 + k, r)
  BY <1>2, HoldsWithin
<1>4. k \in Nat
  BY DEF Holds
<1> QED  BY <1>3, <1>4

LEMMA SliceBytes ==
  ASSUME NEW m \in Nat, NEW s \in Bytes(m), NEW k \in Nat, NEW l \in Nat, k + l <= m
  PROVE  /\ Slice(s, k, k + l) \in Bytes(l)
         /\ \A j \in 1 .. l : Slice(s, k, k + l)[j] = s[k + j]
<1>1. s \in Seq(Byte) /\ Len(s) = m
  BY InBytes
<1>2. PICK from \in Nat, to \in Nat : from = k + 1 /\ to = k + l
  OBVIOUS
<1>3. PICK t : t = SubSeq(s, from, to)
  OBVIOUS
<1>4. t \in Seq(Byte) /\ Len(t) = l
  BY <1>1, <1>2, <1>3
<1>5. \A j \in 1 .. l : t[j] = s[k + j]
  BY <1>1, <1>2, <1>3
<1>6. Slice(s, k, k + l) = t
  BY <1>2, <1>3 DEF Slice
<1> QED  BY <1>4, <1>5, <1>6 DEF Bytes

LEMMA HoldsSlice ==
  \A s, t, k, n : Holds(s, k, t) /\ t \in Bytes(n) => Slice(s, k, k + n) = t
<1> SUFFICES ASSUME NEW s, NEW t, NEW k, NEW n, Holds(s, k, t), t \in Bytes(n)
             PROVE  Slice(s, k, k + n) = t
  OBVIOUS
<1>1. /\ s \in Seq(Byte) /\ t \in Seq(Byte) /\ Len(t) = n /\ DOMAIN t = 1 .. n
      /\ n \in Nat /\ k \in Nat /\ k + n <= Len(s)
  BY InBytes DEF Holds
<1>2. PICK m \in Nat : m = Len(s) /\ s \in Bytes(m) /\ k + n <= m
  BY <1>1, InBytes
<1>3. /\ Slice(s, k, k + n) \in Bytes(n)
      /\ \A j \in 1 .. n : Slice(s, k, k + n)[j] = s[k + j]
  <2>1. n \in Nat /\ k \in Nat
    BY <1>1
  <2>2. m \in Nat /\ s \in Bytes(m) /\ k + n <= m
    BY <1>2
  <2> QED  BY <2>1, <2>2, SliceBytes, Zenon
<1>4. \A i \in 1 .. n : Slice(s, k, k + n)[i] = t[i]
  BY <1>1, <1>3 DEF Holds
<1> QED  BY <1>1, <1>3, <1>4, InBytes, SeqEqual

LEMMA PutBytes ==
  ASSUME NEW n \in Int
  PROVE  /\ PutUint16(n) \in Bytes(2)
         /\ PutUint16(n)[1] = n % 256 /\ PutUint16(n)[2] = (n \div 256) % 256
         /\ PutUint32(n) \in Bytes(4)
         /\ PutUint32(n)[1] = n % 256 /\ PutUint32(n)[2] = (n \div 256) % 256
         /\ PutUint32(n)[3] = (n \div 65536) % 256
         /\ PutUint32(n)[4] = (n \div 16777216) % 256
<1> DEFINE a == n % 256
           b == (n \div 256) % 256
           c == (n \div 65536) % 256
           d == (n \div 16777216) % 256
<1>1. a \in Byte /\ b \in Byte /\ c \in Byte /\ d \in Byte
  BY BytesOf
<1>2. PutUint16(n) = <<a, b>> /\ PutUint32(n) = <<a, b, c, d>>
  BY SMT DEF PutUint16, PutUint32
<1> HIDE DEF a, b, c, d
<1>3. <<a, b>> \in Bytes(2) /\ <<a, b, c, d>> \in Bytes(4)
  BY <1>1 DEF Bytes
<1>4. /\ <<a, b>>[1] = a /\ <<a, b>>[2] = b
      /\ <<a, b, c, d>>[1] = a /\ <<a, b, c, d>>[2] = b
      /\ <<a, b, c, d>>[3] = c /\ <<a, b, c, d>>[4] = d
  OBVIOUS
<1>5. /\ PutUint16(n) \in Bytes(2)
      /\ PutUint16(n)[1] = a /\ PutUint16(n)[2] = b
      /\ PutUint32(n) \in Bytes(4)
      /\ PutUint32(n)[1] = a /\ PutUint32(n)[2] = b
      /\ PutUint32(n)[3] = c
      /\ PutUint32(n)[4] = d
  BY <1>2, <1>3, <1>4
<1> QED  BY <1>5, SMT DEF a, b, c, d

(* A part that is a number's bytes reads as the number. *)
LEMMA Reads16 ==
  ASSUME NEW s, NEW k \in Nat, NEW n \in Uint16, Holds(s, k, PutUint16(n))
  PROVE  Unsigned16(s, k) = n
<1>1. n \in Int
  BY DEF Uint16, Between
<1>2. DOMAIN PutUint16(n) = {1, 2}
  BY <1>1, PutBytes DEF Bytes
<1>3. s[k + 1] = PutUint16(n)[1] /\ s[k + 2] = PutUint16(n)[2]
  BY <1>2 DEF Holds
<1>4. s[k + 1] = n % 256 /\ s[(k + 1) + 1] = (n \div 256) % 256
  BY <1>1, <1>3, PutBytes
<1> QED  BY <1>4, Value16 DEF Unsigned16, At

LEMMA Reads32 ==
  ASSUME NEW s, NEW k \in Nat, NEW n \in Int32, Holds(s, k, PutUint32(n))
  PROVE  Signed32(s, k) = n
<1>1. n \in Int
  BY SMT DEF Int32, Between
<1>2. DOMAIN PutUint32(n) = {1, 2, 3, 4}
  BY <1>1, PutBytes, SMT DEF Bytes
<1>3. /\ s[k + 1] = PutUint32(n)[1] /\ s[k + 2] = PutUint32(n)[2]
      /\ s[k + 3] = PutUint32(n)[3] /\ s[k + 4] = PutUint32(n)[4]
  BY <1>2, SMT DEF Holds
<1>4. /\ s[k + 1] = n % 256 /\ s[(k + 1) + 1] = (n \div 256) % 256
      /\ s[(k + 2) + 1] = (n \div 65536) % 256
      /\ s[(k + 3) + 1] = (n \div 16777216) % 256
  BY <1>1, <1>3, PutBytes, SMT
<1> QED  BY <1>4, Value32, SMT DEF Signed32, Unsigned16, At
-----------------------------------------------------------------------------
(* Hypothesis: a checksum is a number of 16 bits (crc.go:35-43).           *)
SixteenBits == \A buf \in Seq(Byte), seed \in Byte : Checksum(buf, seed) \in Uint16

LEMMA SeedBytes ==
  ASSUME NEW id \in IDs
  PROVE  id \in Byte /\ crcSeed[id] \in Byte
BY SMT DEF IDs, HeartbeatID, GlobalPositionID, AttitudeID, BatteryID, GPSRawID, crcSeed,
           Byte, Between

(* The bytes between the start of a frame and its payload. *)
Header(len, n, system, id) == <<len, 0, 0, n, system, 1, id, 0, 0>>

(* What the decoder finds in a frame that arrives as it was built. *)
LEMMA FrameLayout ==
  ASSUME SixteenBits, NEW d, d.system \in Byte, NEW n \in Byte, NEW id \in IDs,
         NEW len \in Byte, NEW p \in Bytes(len), len >= 1,
         NEW f, f = buildFrame(d, n, id, p)
  PROVE  /\ f \in Bytes(len + 12)
         /\ Parses(f) /\ At(f, 5) = d.system /\ MessageID(f) = id
         /\ Slice(f, 10, PayloadEnd(f)) = p
         /\ f[2] = len /\ f[3] = 0 /\ f[8] = id /\ f[9] = 0 /\ f[10] = 0
<1>1. PICK h : h = Header(len, n, d.system, id)
  OBVIOUS
<1>2. /\ id \in Byte /\ crcSeed[id] \in Byte /\ len \in Nat
      /\ 0 \in Byte /\ 1 \in Byte /\ 253 \in Byte
  BY SeedBytes, SMT DEF Byte, Between
<1>3. /\ h \in Bytes(9)
      /\ h[1] = len /\ h[2] = 0 /\ h[5] = d.system /\ h[7] = id /\ h[8] = 0 /\ h[9] = 0
  BY <1>1, <1>2 DEF Header, Bytes
<1>4. PICK b : Joined(b, h, p)
  BY DEF Joined
<1>5. 9 + len \in Nat /\ b \in Bytes(9 + len) /\ Holds(b, 0, h) /\ Holds(b, 9, p)
  BY <1>2, <1>3, <1>4, CatHolds, InBytes
<1>6. b \in Seq(Byte)
  BY <1>5, InBytes
<1>7. PICK sum \in Uint16 : sum = Checksum(b, crcSeed[id])
  BY <1>2, <1>6 DEF SixteenBits
<1>8. sum \in Int /\ PutUint16(sum) \in Bytes(2)
  BY <1>7, PutBytes DEF Uint16, Between
<1>9. PICK m : m = <<253>>
  OBVIOUS
<1>10. m \in Bytes(1) /\ m[1] = 253
  BY <1>2, <1>9 DEF Bytes
<1>11. PICK g : Joined(g, m, b)
  BY DEF Joined
<1>12. /\ 1 + (9 + len) \in Nat /\ g \in Bytes(1 + (9 + len))
       /\ Holds(g, 0, m) /\ Holds(g, 1, b)
  BY <1>5, <1>10, <1>11, CatHolds, InBytes
<1>13. Joined(f, g, PutUint16(sum))
  <2>1. Len(p) = len
    BY <1>2, InBytes
  <2>2. f = (<<253>> \o (<<Len(p), 0, 0, n, d.system, 1, id, 0, 0>> \o p))
              \o PutUint16(Checksum(<<Len(p), 0, 0, n, d.system, 1, id, 0, 0>> \o p, crcSeed[id]))
    BY DEF buildFrame
  <2>3. f = Cat(Cat(m, Cat(h, p)), PutUint16(Checksum(Cat(h, p), crcSeed[id])))
    BY <1>1, <1>9, <2>1, <2>2, Zenon DEF Cat, Header
  <2> QED  BY <1>4, <1>7, <1>11, <2>3, Zenon DEF Joined
<1>14. /\ f \in Bytes((1 + (9 + len)) + 2) /\ Holds(f, 0, g)
       /\ Holds(f, 1 + (9 + len), PutUint16(sum))
  BY <1>8, <1>12, <1>13, CatHolds, InBytes
<1>15. (1 + (9 + len)) + 2 = len + 12 /\ 1 + (9 + len) = 10 + len
  BY <1>2
<1>16. f \in Bytes(len + 12)
  BY <1>14, <1>15
<1>17. Holds(f, 0, m) /\ Holds(f, 1, b)
  <2>1. Holds(f, 0 + 0, m)
    BY <1>2, <1>10, <1>12, <1>14, <1>15, <1>16, HoldsWithin
  <2>2. Holds(f, 0 + 1, b)
    BY <1>2, <1>5, <1>12, <1>14, <1>15, <1>16, HoldsWithin
  <2> QED  BY <2>1, <2>2
<1>18. Holds(f, 1, h) /\ Holds(f, 10, p)
  <2>1. Holds(f, 1 + 0, h)
    BY <1>2, <1>3, <1>5, <1>16, <1>17, HoldsWithin
  <2>2. Holds(f, 1 + 9, p)
    BY <1>2, <1>5, <1>16, <1>17, HoldsWithin
  <2> QED  BY <2>1, <2>2
<1>19. DOMAIN m = 1 .. 1 /\ DOMAIN h = 1 .. 9
  BY <1>3, <1>10 DEF Bytes
<1>20. /\ f[1] = 253 /\ f[2] = len /\ f[3] = 0 /\ f[6] = d.system /\ f[8] = id
       /\ f[9] = 0 /\ f[10] = 0
  <2>1. f[0 + 1] = m[1]
    BY <1>17, <1>19 DEF Holds
  <2>2. /\ f[1 + 1] = h[1] /\ f[1 + 2] = h[2] /\ f[1 + 5] = h[5] /\ f[1 + 7] = h[7]
        /\ f[1 + 8] = h[8] /\ f[1 + 9] = h[9]
    BY <1>18, <1>19 DEF Holds
  <2> QED  BY <1>3, <1>10, <2>1, <2>2
<1>21. At(f, 0) = 253 /\ At(f, 5) = d.system /\ MessageID(f) = id
  BY <1>2, <1>20, SMT DEF At, MessageID, Unsigned16, Byte, Between
<1>22. PayloadEnd(f) = 10 + len /\ FrameSize(f) = 12 + len
  BY <1>2, <1>20 DEF PayloadEnd, FrameSize, At
<1>23. Slice(f, 10, PayloadEnd(f)) = p
  BY <1>2, <1>16, <1>18, <1>22, HoldsSlice
<1>24. Slice(f, 1, PayloadEnd(f)) = b
  <2>1. Slice(f, 1, 1 + (9 + len)) = b
    BY <1>2, <1>5, <1>16, <1>17, HoldsSlice
  <2> QED  BY <1>15, <1>22, <2>1
<1>25. Unsigned16(f, PayloadEnd(f)) = sum
  BY <1>7, <1>12, <1>14, <1>15, <1>22, Reads16
<1>26. ChecksumValid(f)
  BY <1>7, <1>21, <1>24, <1>25 DEF ChecksumValid
<1>27. Len(f) = len + 12
  BY <1>2, <1>16, InBytes
<1>28. Parses(f)
  BY <1>2, <1>21, <1>22, <1>26, <1>27 DEF Parses
<1> QED  BY <1>16, <1>20, <1>21, <1>23, <1>28

(* A frame that arrives as it was built is decoded from its own fields. *)
LEMMA DecodesFrame ==
  ASSUME SixteenBits, NEW d, d.system \in Byte, NEW n \in Byte, NEW id \in IDs,
         NEW len \in Byte, NEW p \in Bytes(len), len >= 1,
         NEW f, f = buildFrame(d, n, id, p)
  PROVE  DecodePacket(f) = IF d.system \in Between(1, 250)
                           THEN Validated(f, decodePayload(id, p)) ELSE Rejected
<1>1. /\ Parses(f) /\ At(f, 5) = d.system /\ MessageID(f) = id
      /\ Slice(f, 10, PayloadEnd(f)) = p
  BY FrameLayout
<1> QED  BY <1>1 DEF DecodePacket, ValidateSystemID
-----------------------------------------------------------------------------
(* The payloads.                                                           *)

LEMMA DecodesShort ==
  ASSUME NEW id \in IDs, NEW p, Len(p) \in Nat, Len(p) < FullLength[id]
  PROVE  decodePayload(id, p) = NilPayload
<1>1. DOMAIN FullLength = IDs /\ FullLength[id] \in Nat
  BY Lengths DEF IDs
<1>2. /\ id = HeartbeatID => ~(Len(p) >= 9)
      /\ id = GlobalPositionID => ~(Len(p) >= 28)
      /\ id = GPSRawID => ~(Len(p) >= 30)
      /\ id = BatteryID => ~(Len(p) >= 36)
      /\ id = AttitudeID => ~(Len(p) >= 28)
  BY Lengths
<1> QED  BY <1>1, <1>2 DEF decodePayload

LEMMA DecodesFull ==
  ASSUME NEW p, Len(p) \in Nat
  PROVE  /\ Len(p) >= 9 => decodePayload(HeartbeatID, p) = decodeHeartbeat(p)
         /\ Len(p) >= 28 => decodePayload(GlobalPositionID, p) = decodeGlobalPosition(p)
         /\ Len(p) >= 30 => decodePayload(GPSRawID, p) = decodeGPSRaw(p)
         /\ Len(p) >= 36 => decodePayload(BatteryID, p) = decodeBatteryStatus(p)
         /\ Len(p) >= 28 => decodePayload(AttitudeID, p) = decodeAttitude(p)
<1>1. DOMAIN FullLength = IDs
  BY Lengths
<1>2. /\ Len(p) >= 9 => ~(Len(p) < FullLength[HeartbeatID])
      /\ Len(p) >= 28 => ~(Len(p) < FullLength[GlobalPositionID])
      /\ Len(p) >= 30 => ~(Len(p) < FullLength[GPSRawID])
      /\ Len(p) >= 36 => ~(Len(p) < FullLength[BatteryID])
      /\ Len(p) >= 28 => ~(Len(p) < FullLength[AttitudeID])
  BY Lengths
<1> QED  BY <1>1, <1>2 DEF decodePayload, IDs, HeartbeatID, GlobalPositionID, AttitudeID,
                           BatteryID, GPSRawID

LEMMA ConstantBytes ==
  /\ \A w \in Nat, b \in Byte : Filled(w, b) \in Bytes(w)
  /\ \A w \in Nat : Clock(w) \in Bytes(w)
  /\ 0 \in Byte /\ 1 \in Byte /\ 255 \in Byte
<1>1. ASSUME NEW w \in Nat, NEW b \in Byte PROVE Filled(w, b) \in Bytes(w)
  BY DEF Filled, Bytes
<1>2. 85 \in Byte /\ 0 \in Byte /\ 1 \in Byte /\ 255 \in Byte
  BY DEF Byte, Between
<1> QED  BY <1>1, <1>2 DEF Clock

(* Latitude, longitude and altitude of d are the parts of s from byte k on. *)
Placed(s, k, d) ==
  /\ Holds(s, k, PutUint32(d.lat))
  /\ Holds(s, k + 4, PutUint32(d.lon))
  /\ Holds(s, k + 8, PutUint32(d.alt))

LEMMA Int32s ==
  ASSUME NEW n \in Int32
  PROVE  n \in Int /\ PutUint32(n) \in Bytes(4)
<1>1. n \in Int
  BY SMT DEF Int32, Between
<1> QED  BY <1>1, PutBytes

LEMMA Uint16s ==
  ASSUME NEW n \in Uint16
  PROVE  n \in Int /\ PutUint16(n) \in Bytes(2)
<1>1. n \in Int
  BY SMT DEF Uint16, Between
<1> QED  BY <1>1, PutBytes

LEMMA PlacedNew ==
  ASSUME NEW d, d.lat \in Int32, d.lon \in Int32, d.alt \in Int32,
         NEW k \in Nat, NEW s \in Bytes(k),
         NEW t, t = Cat(Cat(Cat(s, PutUint32(d.lat)), PutUint32(d.lon)), PutUint32(d.alt))
  PROVE  t \in Bytes(k + 12) /\ Holds(t, 0, s) /\ Placed(t, k, d)
<1>1. PICK a : Joined(a, s, PutUint32(d.lat))
  BY DEF Joined
<1>2. PICK b : Joined(b, a, PutUint32(d.lon))
  BY DEF Joined
<1>3. Joined(t, b, PutUint32(d.alt))
  BY <1>1, <1>2 DEF Joined
<1>4. /\ PutUint32(d.lat) \in Bytes(4) /\ PutUint32(d.lon) \in Bytes(4)
      /\ PutUint32(d.alt) \in Bytes(4)
  BY Int32s
<1>5. a \in Bytes(k + 4) /\ Holds(a, k, PutUint32(d.lat))
  BY <1>1, <1>4, CatHolds, InBytes
<1>6. b \in Bytes(k + 8) /\ Holds(b, k + 4, PutUint32(d.lon))
  <2>1. b \in Bytes((k + 4) + 4) /\ Holds(b, k + 4, PutUint32(d.lon))
    BY <1>2, <1>4, <1>5, CatHolds, InBytes
  <2> QED  BY <2>1
<1>7. t \in Bytes(k + 12) /\ Holds(t, k + 8, PutUint32(d.alt))
  <2>1. t \in Bytes((k + 8) + 4) /\ Holds(t, k + 8, PutUint32(d.alt))
    BY <1>3, <1>4, <1>6, CatHolds, InBytes
  <2> QED  BY <2>1
<1>8. Holds(b, k, PutUint32(d.lat))
  BY <1>2, <1>4, <1>5, HoldsKept
<1>9. Holds(t, k, PutUint32(d.lat)) /\ Holds(t, k + 4, PutUint32(d.lon))
  BY <1>3, <1>4, <1>6, <1>8, HoldsKept
<1>10. Holds(t, 0, s)
  <2>1. Holds(a, 0, s) /\ Holds(b, 0, a) /\ Holds(t, 0, b)
    <3>1. Holds(a, 0, s)
      BY <1>1, <1>4, CatHolds, InBytes
    <3>2. Holds(b, 0, a)
      BY <1>2, <1>4, <1>5, CatHolds, InBytes
    <3>3. Holds(t, 0, b)
      BY <1>3, <1>4, <1>6, CatHolds, InBytes
    <3> QED  BY <3>1, <3>2, <3>3
  <2>2. Holds(b, 0 + 0, s)
    BY <1>5, <1>6, <2>1, HoldsWithin
  <2>3. Holds(t, 0 + 0, s)
    BY <1>6, <1>7, <2>1, <2>2, HoldsWithin
  <2> QED  BY <2>3
<1> QED  BY <1>7, <1>9, <1>10 DEF Placed

LEMMA PlacedKept ==
  ASSUME NEW d, d.lat \in Int32, d.lon \in Int32, d.alt \in Int32, NEW k \in Nat,
         NEW u, NEW s, NEW n \in Nat, NEW t \in Bytes(n), Joined(u, s, t), Placed(s, k, d)
  PROVE  Placed(u, k, d)
<1>1. /\ PutUint32(d.lat) \in Bytes(4) /\ PutUint32(d.lon) \in Bytes(4)
      /\ PutUint32(d.alt) \in Bytes(4)
  BY Int32s
<1> QED  BY <1>1, HoldsKept DEF Placed

LEMMA StateTypes ==
  ASSUME NEW d \in DroneState
  PROVE  /\ d.system \in Byte /\ d.armed \in BOOLEAN /\ d.mode \in {0, 4}
         /\ d.lat \in Int32 /\ d.lon \in Int32 /\ d.alt \in Int32 /\ d.home \in Int32
         /\ d.heading \in Uint16 /\ d.angles \in Bytes(24)
         /\ d.cell \in Between(0, 65534) /\ d.battery \in Between(0, 100)
BY DEF DroneState

(* A payload in which the position of d is where its message has it. *)
LEMMA PositionRead ==
  ASSUME NEW d \in DroneState, NEW p, NEW k \in Nat, NEW h \in Nat, NEW fix,
         Placed(p, k, d), Holds(p, h, PutUint16(d.heading))
  PROVE  Position(p, k, k + 4, k + 8, h, fix)
           = [kind |-> "gps", lat |-> d.lat, lon |-> d.lon, alt |-> d.alt,
              heading |-> d.heading, fix |-> fix]
<1>1. Signed32(p, k) = d.lat /\ Signed32(p, k + 4) = d.lon /\ Signed32(p, k + 8) = d.alt
  BY StateTypes, Reads32 DEF Placed
<1>2. Unsigned16(p, h) = d.heading
  BY StateTypes, Reads16
<1> QED  BY <1>1, <1>2 DEF Position

(* The payload of GLOBAL_POSITION_INT: w bytes of velocities. *)
LEMMA GlobalPositionLayout ==
  ASSUME NEW d \in DroneState, NEW r \in Int, NEW v \in Bytes(6),
         NEW p, p = Cat(Cat(Cat(Cat(Cat(Cat(Clock(4), PutUint32(d.lat)), PutUint32(d.lon)),
                                    PutUint32(d.alt)), PutUint32(r)), v), PutUint16(d.heading))
  PROVE  p \in Bytes(28) /\ Placed(p, 4, d) /\ Holds(p, 26, PutUint16(d.heading))
<1>1. PICK a : a = Cat(Cat(Cat(Clock(4), PutUint32(d.lat)), PutUint32(d.lon)), PutUint32(d.alt))
  OBVIOUS
<1>2. PICK b : Joined(b, a, PutUint32(r))
  BY DEF Joined
<1>3. PICK c : Joined(c, b, v)
  BY DEF Joined
<1>4. Joined(p, c, PutUint16(d.heading))
  BY <1>1, <1>2, <1>3 DEF Joined
<1>5. /\ d.lat \in Int32 /\ d.lon \in Int32 /\ d.alt \in Int32
      /\ PutUint32(r) \in Bytes(4) /\ PutUint16(d.heading) \in Bytes(2)
      /\ Clock(4) \in Bytes(4)
  <2>1. d.lat \in Int32 /\ d.lon \in Int32 /\ d.alt \in Int32 /\ d.heading \in Uint16
    BY StateTypes
  <2>2. PutUint32(r) \in Bytes(4)
    BY PutBytes
  <2>3. PutUint16(d.heading) \in Bytes(2)
    BY <2>1, Uint16s
  <2> QED  BY <2>1, <2>2, <2>3, ConstantBytes
<1>6. a \in Bytes(16) /\ Placed(a, 4, d)
  <2>1. a \in Bytes(4 + 12) /\ Placed(a, 4, d)
    BY <1>1, <1>5, PlacedNew
  <2> QED  BY <2>1
<1>7. b \in Bytes(20) /\ Placed(b, 4, d)
  <2>1. b \in Bytes(16 + 4)
    BY <1>2, <1>5, <1>6, CatHolds, InBytes
  <2> QED  BY <1>2, <1>5, <1>6, <2>1, PlacedKept
<1>8. c \in Bytes(26) /\ Placed(c, 4, d)
  <2>1. c \in Bytes(20 + 6)
    BY <1>3, <1>7, CatHolds, InBytes
  <2> QED  BY <1>3, <1>5, <1>7, <2>1, PlacedKept
<1>9. p \in Bytes(28) /\ Holds(p, 26, PutUint16(d.heading))
  <2>1. p \in Bytes(26 + 2) /\ Holds(p, 26, PutUint16(d.heading))
    BY <1>4, <1>5, <1>8, CatHolds, InBytes
  <2> QED  BY <2>1
<1> QED  BY <1>4, <1>5, <1>8, <1>9, PlacedKept

(* The payload of GPS_RAW_INT: eight bytes of clock and fix, and six of    *)
(* dilutions and speed.                                                    *)
LEMMA GPSRawLayout ==
  ASSUME NEW d \in DroneState, NEW c \in Bytes(7),
         NEW p, p = Cat(Cat(Cat(Cat(Cat(Cat(Cat(Cat(Cat(c, << 3 >>),
                                   PutUint32(d.lat)), PutUint32(d.lon)), PutUint32(d.alt)),
                                   PutUint16(120)), PutUint16(150)), PutUint16(500)),
                                   PutUint16(d.heading)), <<0, 12>>)
  PROVE  /\ p \in Bytes(30) /\ Placed(p, 8, d) /\ Holds(p, 26, PutUint16(d.heading))
         /\ At(p, 7) = 3
<1>1. PICK e : Joined(e, c, <<3>>)
  BY DEF Joined
<1>2. PICK a : a = Cat(Cat(Cat(e, PutUint32(d.lat)), PutUint32(d.lon)), PutUint32(d.alt))
  OBVIOUS
<1>3. PICK b : Joined(b, a, PutUint16(120))
  BY DEF Joined
<1>4. PICK f : Joined(f, b, PutUint16(150))
  BY DEF Joined
<1>5. PICK g : Joined(g, f, PutUint16(500))
  BY DEF Joined
<1>6. PICK h : Joined(h, g, PutUint16(d.heading))
  BY DEF Joined
<1>7. Joined(p, h, <<0, 12>>)
  BY <1>1, <1>2, <1>3, <1>4, <1>5, <1>6 DEF Joined
<1>8. 0 \in Byte /\ 3 \in Byte /\ 12 \in Byte
  BY DEF Byte, Between
<1>9. /\ d.lat \in Int32 /\ d.lon \in Int32 /\ d.alt \in Int32
      /\ PutUint16(120) \in Bytes(2) /\ PutUint16(150) \in Bytes(2)
      /\ PutUint16(500) \in Bytes(2) /\ PutUint16(d.heading) \in Bytes(2)
  BY StateTypes, Uint16s, PutBytes
<1>10. <<3>> \in Bytes(1) /\ <<3>>[1] = 3 /\ <<0, 12>> \in Bytes(2)
  BY <1>8 DEF Bytes
<1>11. PICK x : x = <<3>>
  OBVIOUS
<1>12. PICK y : y = <<0, 12>>
  OBVIOUS
<1>13. x \in Bytes(1) /\ y \in Bytes(2) /\ Joined(e, c, x) /\ Joined(p, h, y)
  BY <1>1, <1>7, <1>10, <1>11, <1>12
<1>14. e \in Bytes(8) /\ Holds(e, 7, x)
  <2>1. e \in Bytes(7 + 1) /\ Holds(e, 7, x)
    BY <1>13, CatHolds, InBytes
  <2> QED  BY <2>1
<1>15. a \in Bytes(20) /\ Placed(a, 8, d) /\ Holds(a, 7, x)
  <2>1. a \in Bytes(8 + 12) /\ Placed(a, 8, d) /\ Holds(a, 0, e)
    BY <1>2, <1>9, <1>14, PlacedNew
  <2>2. x \in Bytes(1) /\ e \in Bytes(8) /\ a \in Bytes(20) /\ Holds(e, 7, x)
    BY <1>13, <1>14, <2>1
  <2>3. Holds(a, 0 + 7, x)
    BY <2>1, <2>2, HoldsWithin
  <2> QED  BY <2>1, <2>3
<1>16. b \in Bytes(22) /\ Placed(b, 8, d) /\ Holds(b, 7, x)
  <2>1. b \in Bytes(20 + 2)
    BY <1>3, <1>9, <1>15, CatHolds, InBytes
  <2> QED  BY <1>3, <1>9, <1>13, <1>15, <2>1, PlacedKept, HoldsKept
<1>17. f \in Bytes(24) /\ Placed(f, 8, d) /\ Holds(f, 7, x)
  <2>1. f \in Bytes(22 + 2)
    BY <1>4, <1>9, <1>16, CatHolds, InBytes
  <2> QED  BY <1>4, <1>9, <1>13, <1>16, <2>1, PlacedKept, HoldsKept
<1>18. g \in Bytes(26) /\ Placed(g, 8, d) /\ Holds(g, 7, x)
  <2>1. g \in Bytes(24 + 2)
    BY <1>5, <1>9, <1>17, CatHolds, InBytes
  <2> QED  BY <1>5, <1>9, <1>13, <1>17, <2>1, PlacedKept, HoldsKept
<1>19. /\ h \in Bytes(28) /\ Placed(h, 8, d) /\ Holds(h, 7, x)
       /\ Holds(h, 26, PutUint16(d.heading))
  <2>1. h \in Bytes(26 + 2) /\ Holds(h, 26, PutUint16(d.heading))
    BY <1>6, <1>9, <1>18, CatHolds, InBytes
  <2> QED  BY <1>6, <1>9, <1>13, <1>18, <2>1, PlacedKept, HoldsKept
<1>20. /\ p \in Bytes(30) /\ Placed(p, 8, d) /\ Holds(p, 7, x)
       /\ Holds(p, 26, PutUint16(d.heading))
  <2>1. p \in Bytes(28 + 2)
    BY <1>13, <1>19, CatHolds, InBytes
  <2>2. Placed(p, 8, d)
    BY <1>9, <1>13, <1>19, PlacedKept
  <2>3. Holds(p, 7, x)
    BY <1>13, <1>19, HoldsKept
  <2>4. Holds(p, 26, PutUint16(d.heading))
    BY <1>9, <1>13, <1>19, HoldsKept
  <2> QED  BY <2>1, <2>2, <2>3, <2>4
<1>21. At(p, 7) = 3
  BY <1>10, <1>11, <1>20 DEF Holds, At
<1> QED  BY <1>20, <1>21

(* What the decoder reads in the payload of d's message, before it checks  *)
(* the values.                                                             *)
Said(d, id) ==
  IF id \in {GlobalPositionID, GPSRawID}
  THEN [kind |-> "gps", lat |-> d.lat, lon |-> d.lon, alt |-> d.alt,
        heading |-> d.heading, fix |-> IF id = GPSRawID THEN 3 ELSE 0]
  ELSE Meant(d, id)

Describes(d, id, p) == p \in Bytes(FullLength[id]) /\ decodePayload(id, p) = Said(d, id)

LEMMA GlobalPositionDescribes ==
  ASSUME NEW d \in DroneState, NEW r \in Int, NEW v \in Bytes(6),
         NEW p, p = Cat(Cat(Cat(Cat(Cat(Cat(Clock(4), PutUint32(d.lat)), PutUint32(d.lon)),
                                    PutUint32(d.alt)), PutUint32(r)), v), PutUint16(d.heading))
  PROVE  Describes(d, GlobalPositionID, p)
<1>1. p \in Bytes(28) /\ Placed(p, 4, d) /\ Holds(p, 26, PutUint16(d.heading))
  BY GlobalPositionLayout
<1>2. Len(p) \in Nat /\ Len(p) >= 28
  BY <1>1, InBytes
<1>3. decodePayload(GlobalPositionID, p) = Position(p, 4, 8, 12, 26, 0)
  BY <1>2, DecodesFull DEF decodeGlobalPosition
<1>4. Position(p, 4, 4 + 4, 4 + 8, 26, 0)
        = [kind |-> "gps", lat |-> d.lat, lon |-> d.lon, alt |-> d.alt,
           heading |-> d.heading, fix |-> 0]
  BY <1>1, PositionRead
<1>5. GlobalPositionID # GPSRawID
  BY DEF GlobalPositionID, GPSRawID
<1> QED  BY <1>1, <1>3, <1>4, <1>5, Lengths DEF Describes, Said

LEMMA GPSRawDescribes ==
  ASSUME NEW d \in DroneState, NEW c \in Bytes(7),
         NEW p, p = Cat(Cat(Cat(Cat(Cat(Cat(Cat(Cat(Cat(c, << 3 >>),
                                   PutUint32(d.lat)), PutUint32(d.lon)), PutUint32(d.alt)),
                                   PutUint16(120)), PutUint16(150)), PutUint16(500)),
                                   PutUint16(d.heading)), <<0, 12>>)
  PROVE  Describes(d, GPSRawID, p)
<1>1. /\ p \in Bytes(30) /\ Placed(p, 8, d) /\ Holds(p, 26, PutUint16(d.heading))
      /\ At(p, 7) = 3
  BY GPSRawLayout
<1>2. Len(p) \in Nat /\ Len(p) >= 30
  BY <1>1, InBytes
<1>3. decodePayload(GPSRawID, p) = Position(p, 8, 12, 16, 26, 3)
  BY <1>1, <1>2, DecodesFull DEF decodeGPSRaw
<1>4. Position(p, 8, 8 + 4, 8 + 8, 26, 3)
        = [kind |-> "gps", lat |-> d.lat, lon |-> d.lon, alt |-> d.alt,
           heading |-> d.heading, fix |-> 3]
  BY <1>1, PositionRead
<1> QED  BY <1>1, <1>3, <1>4, Lengths DEF Describes, Said

LEMMA HeartbeatDescribes ==
  ASSUME NEW d \in DroneState
  PROVE  Describes(d, HeartbeatID, buildHeartbeat(d))
<1>1. PICK p : p = buildHeartbeat(d)
  OBVIOUS
<1>2. PICK base \in {1, 129} : base = (IF d.armed THEN 129 ELSE 1)
  BY SMT
<1>3. PICK a : a = <<2, 12, base, 4, 3>>
  OBVIOUS
<1>4. PICK n \in Int : n = d.mode * 65536 + 4 * 16777216
  BY StateTypes, SMT
<1>5. Joined(p, PutUint32(n), a)
  BY <1>1, <1>2, <1>3, <1>4, SMT DEF buildHeartbeat, Cat, Joined
<1>6. a \in Bytes(5) /\ a[3] = base
  <2>1. 2 \in Byte /\ 12 \in Byte /\ base \in Byte /\ 4 \in Byte /\ 3 \in Byte
    BY <1>2, SMT DEF Byte, Between
  <2> QED  BY <1>3, <2>1 DEF Bytes
<1>7. PutUint32(n) \in Bytes(4)
  BY PutBytes
<1>8. p \in Bytes(4 + 5) /\ Holds(p, 0, PutUint32(n)) /\ Holds(p, 4, a)
  <2>1. PICK x : x = PutUint32(n)
    OBVIOUS
  <2>2. x \in Bytes(4) /\ Joined(p, x, a)
    BY <1>5, <1>7, <2>1
  <2>3. p \in Bytes(4 + 5) /\ Holds(p, 0, x) /\ Holds(p, 4, a)
    BY <1>6, <2>2, CatHolds, InBytes
  <2> QED  BY <2>1, <2>3
<1>9. PutUint32(n)[3] = d.mode /\ PutUint32(n)[4] = 4
  <2>1. (n \div 65536) % 256 = d.mode /\ (n \div 16777216) % 256 = 4
    BY <1>4, StateTypes, SMT
  <2>2. /\ PutUint32(n)[3] = (n \div 65536) % 256
        /\ PutUint32(n)[4] = (n \div 16777216) % 256
    BY SMT DEF PutUint32
  <2> QED  BY <2>1, <2>2, SMT
<1>10. At(p, 2) = d.mode /\ At(p, 3) = 4 /\ At(p, 6) = base
  <2>1. DOMAIN PutUint32(n) = 1 .. 4 /\ DOMAIN a = 1 .. 5
    BY <1>6, <1>7 DEF Bytes
  <2>2. p[0 + 3] = PutUint32(n)[3] /\ p[0 + 4] = PutUint32(n)[4] /\ p[4 + 3] = a[3]
    BY <1>8, <2>1 DEF Holds
  <2> QED  BY <1>6, <1>9, <2>2 DEF At
<1>11. decodeFlightMode(d.mode, 4, base) = IF d.mode = 4 THEN "MISSION" ELSE "UNKNOWN"
  <2>1. base % 2 = 1 /\ d.mode \in {0, 4}
    BY <1>2, StateTypes
  <2> QED  BY <2>1, Missions DEF decodeFlightMode
<1>12. (base >= 128) = d.armed
  BY <1>2, StateTypes
<1>13. decodeHeartbeat(p) = Meant(d, HeartbeatID)
  BY <1>10, <1>11, <1>12 DEF decodeHeartbeat, Meant, HeartbeatID, GlobalPositionID, GPSRawID,
                             BatteryID, AttitudeID
<1>14. p \in Bytes(9) /\ Len(p) \in Nat /\ Len(p) >= 9
  BY <1>8, InBytes
<1>15. decodePayload(HeartbeatID, p) = decodeHeartbeat(p)
  BY <1>14, DecodesFull
<1>16. HeartbeatID \notin {GlobalPositionID, GPSRawID}
  BY DEF HeartbeatID, GlobalPositionID, GPSRawID
<1> QED  BY <1>1, <1>13, <1>14, <1>15, <1>16, Lengths DEF Describes, Said

LEMMA AttitudeDescribes ==
  ASSUME NEW d \in DroneState, NEW p, p = Cat(Clock(4), d.angles)
  PROVE  Describes(d, AttitudeID, p)
<1>1. PICK a : a = d.angles
  OBVIOUS
<1>2. a \in Bytes(24)
  BY <1>1, StateTypes
<1>3. p \in Bytes(4 + 24) /\ Holds(p, 4, a)
  <2>1. Joined(p, Clock(4), a)
    BY <1>1 DEF Joined
  <2>2. Clock(4) \in Bytes(4)
    BY ConstantBytes
  <2> QED  BY <1>2, <2>1, <2>2, CatHolds, InBytes
<1>4. Slice(p, 4, 4 + 24) = a
  <2>1. \A n : a \in Bytes(n) => Slice(p, 4, 4 + n) = a
    BY <1>3, HoldsSlice
  <2> QED  BY <1>2, <2>1
<1>5. p \in Bytes(28) /\ Len(p) \in Nat /\ Len(p) >= 28
  BY <1>3, InBytes
<1>6. decodePayload(AttitudeID, p) = [kind |-> "attitude", angles |-> d.angles]
  BY <1>1, <1>4, <1>5, DecodesFull DEF decodeAttitude
<1>7. Said(d, AttitudeID) = [kind |-> "attitude", angles |-> d.angles]
  BY DEF Said, Meant, HeartbeatID, GlobalPositionID, GPSRawID, BatteryID, AttitudeID
<1> QED  BY <1>5, <1>6, <1>7, Lengths DEF Describes

(* The sum over ten cells, of which four are there. *)
LEMMA CellSum ==
  ASSUME NEW p, NEW c \in Nat,
         \A i \in 0 .. 9 : CellVoltage(p, i) = IF i < 4 THEN c ELSE 0
  PROVE  decodeBatteryStatus(p)
           = [kind |-> "battery", voltage |-> 4 * c, remaining |-> Signed8(At(p, 35))]
<1> DEFINE Sums(g) == [n \in 0 .. 10 |-> IF n = 0 THEN 0 ELSE g[n - 1] + CellVoltage(p, n - 1)]
           sum == CHOOSE g : g = Sums(g)
<1>1. sum = Sums(sum)
  <2> DEFINE g == [n \in 0 .. 10 |-> IF n <= 4 THEN n * c ELSE 4 * c]
  <2>1. ASSUME NEW n \in 0 .. 10 PROVE g[n] = Sums(g)[n]
    <3>1. CASE n = 0
      BY <3>1
    <3>2. CASE n # 0
      <4>1. n - 1 \in 0 .. 9 /\ n - 1 \in 0 .. 10
        BY <3>2
      <4>2. g[n - 1] = (IF n - 1 <= 4 THEN (n - 1) * c ELSE 4 * c)
        BY <4>1
      <4>3. CellVoltage(p, n - 1) = IF n - 1 < 4 THEN c ELSE 0
        BY <4>1
      <4>4. (n - 1) * c + c = n * c
        BY <3>2
      <4>5. Sums(g)[n] = g[n - 1] + CellVoltage(p, n - 1)
        BY <3>2
      <4> QED  BY <3>2, <4>2, <4>3, <4>4, <4>5
    <3> QED  BY <3>1, <3>2
  <2>2. g = Sums(g)
    BY <2>1
  <2> HIDE DEF g, Sums
  <2> QED  BY <2>2
<1>2. decodeBatteryStatus(p)
        = [kind |-> "battery", voltage |-> sum[10], remaining |-> Signed8(At(p, 35))]
  BY DEF decodeBatteryStatus
<1> HIDE DEF sum
<1>3. /\ sum[0] = 0
      /\ \A n \in 0 .. 9 : sum[n + 1] = sum[n] + CellVoltage(p, n)
  BY <1>1
<1>4. /\ sum[1] = c /\ sum[2] = 2 * c /\ sum[3] = 3 * c /\ sum[4] = 4 * c
  BY <1>3
<1>5. sum[10] = 4 * c
  BY <1>3, <1>4
<1> QED  BY <1>2, <1>5

(* Four cells, eight that are not there, a current, and the charge. *)
LEMMA BatteryLayout ==
  ASSUME NEW z \in Bytes(10), NEW c \in Bytes(2), NEW o \in Bytes(12), NEW w \in Bytes(2),
         NEW y \in Bytes(3), NEW b \in Bytes(1),
         NEW p, p = Cat(Cat(Cat(Cat(Cat(Cat(Cat(Cat(z, c), c), c), c), o), w), y), b)
  PROVE  /\ p \in Bytes(36)
         /\ Holds(p, 10, c) /\ Holds(p, 12, c) /\ Holds(p, 14, c) /\ Holds(p, 16, c)
         /\ Holds(p, 18, o) /\ Holds(p, 35, b)
<1>1. PICK e1 : Joined(e1, z, c)
  BY DEF Joined
<1>2. PICK e2 : Joined(e2, e1, c)
  BY DEF Joined
<1>3. PICK e3 : Joined(e3, e2, c)
  BY DEF Joined
<1>4. PICK e4 : Joined(e4, e3, c)
  BY DEF Joined
<1>5. PICK e5 : Joined(e5, e4, o)
  BY DEF Joined
<1>6. PICK e6 : Joined(e6, e5, w)
  BY DEF Joined
<1>7. PICK e7 : Joined(e7, e6, y)
  BY DEF Joined
<1>8. Joined(p, e7, b)
  BY <1>1, <1>2, <1>3, <1>4, <1>5, <1>6, <1>7 DEF Joined
<1>11. e1 \in Bytes(10 + 2) /\ Holds(e1, 10, c)
  BY <1>1, CatHolds, InBytes
<1>12. e2 \in Bytes(12 + 2) /\ Holds(e2, 0, e1) /\ Holds(e2, 12, c)
  BY <1>2, <1>11, CatHolds, InBytes
<1>13. e3 \in Bytes(14 + 2) /\ Holds(e3, 0, e2) /\ Holds(e3, 14, c)
  BY <1>3, <1>12, CatHolds, InBytes
<1>14. e4 \in Bytes(16 + 2) /\ Holds(e4, 0, e3) /\ Holds(e4, 16, c)
  BY <1>4, <1>13, CatHolds, InBytes
<1>15. e5 \in Bytes(18 + 12) /\ Holds(e5, 0, e4) /\ Holds(e5, 18, o)
  BY <1>5, <1>14, CatHolds, InBytes
<1>16. e6 \in Bytes(30 + 2) /\ Holds(e6, 0, e5)
  BY <1>6, <1>15, CatHolds, InBytes
<1>17. e7 \in Bytes(32 + 3) /\ Holds(e7, 0, e6)
  BY <1>7, <1>16, CatHolds, InBytes
<1>18. p \in Bytes(35 + 1) /\ Holds(p, 0, e7) /\ Holds(p, 35, b)
  BY <1>8, <1>17, CatHolds, InBytes
<1>19. ASSUME NEW s, NEW t, NEW r, NEW k \in Nat, Holds(s, 0, t), Holds(t, k, r)
       PROVE  Holds(s, k, r)
  <2>1. Holds(s, 0 + k, r)
    BY <1>19, HoldsWithin
  <2> QED  BY <2>1
<1>20. Holds(p, 0, e5)
  BY <1>16, <1>17, <1>18, <1>19
<1>21. Holds(p, 0, e4) /\ Holds(p, 18, o)
  BY <1>15, <1>19, <1>20
<1>22. Holds(p, 0, e3) /\ Holds(p, 16, c)
  BY <1>14, <1>19, <1>21
<1>23. Holds(p, 0, e2) /\ Holds(p, 14, c)
  BY <1>13, <1>19, <1>22
<1>24. Holds(p, 0, e1) /\ Holds(p, 12, c)
  BY <1>12, <1>19, <1>23
<1>25. Holds(p, 10, c)
  BY <1>11, <1>19, <1>24
<1> QED  BY <1>18, <1>21, <1>22, <1>23, <1>24, <1>25

LEMMA BatteryDescribes ==
  ASSUME NEW d \in DroneState, NEW n \in Int,
         NEW p, p = Cat(Cat(Cat(Cat(Cat(Cat(Cat(Cat(Filled(10, 0), PutUint16(d.cell)),
                       PutUint16(d.cell)), PutUint16(d.cell)), PutUint16(d.cell)),
                       Filled(12, 255)), PutUint16(n)), Filled(3, 0)), <<d.battery>>)
  PROVE  Describes(d, BatteryID, p)
<1>1. /\ d.cell \in Uint16 /\ d.cell \in Nat /\ d.cell # 65535
      /\ d.battery \in Byte /\ d.battery \in Nat /\ d.battery <= 100
  <2>1. d.cell \in Between(0, 65534) /\ d.battery \in Between(0, 100)
    BY StateTypes
  <2> QED  BY <2>1, SMT DEF Uint16, Byte, Between
<1>2. PICK c : c = PutUint16(d.cell)
  OBVIOUS
<1>3. PICK o : o = Filled(12, 255)
  OBVIOUS
<1>4. PICK b : b = <<d.battery>>
  OBVIOUS
<1>5. PICK z : z = Filled(10, 0)
  OBVIOUS
<1>6. PICK w : w = PutUint16(n)
  OBVIOUS
<1>7. PICK y : y = Filled(3, 0)
  OBVIOUS
<1>8. p = Cat(Cat(Cat(Cat(Cat(Cat(Cat(Cat(z, c), c), c), c), o), w), y), b)
  BY <1>2, <1>3, <1>4, <1>5, <1>6, <1>7, Zenon
<1>9. z \in Bytes(10) /\ o \in Bytes(12) /\ y \in Bytes(3)
  BY <1>3, <1>5, <1>7, ConstantBytes
<1>10. c \in Bytes(2)
  BY <1>1, <1>2, Uint16s
<1>11. w \in Bytes(2)
  BY <1>6, PutBytes
<1>12. b \in Bytes(1) /\ DOMAIN b = {1} /\ b[1] = d.battery
  BY <1>1, <1>4 DEF Bytes
<1>13. /\ p \in Bytes(36)
       /\ Holds(p, 10, c) /\ Holds(p, 12, c) /\ Holds(p, 14, c) /\ Holds(p, 16, c)
       /\ Holds(p, 18, o) /\ Holds(p, 35, b)
  BY <1>8, <1>9, <1>10, <1>11, <1>12, BatteryLayout
<1>14. At(p, 35) = d.battery
  <2>1. \A i \in DOMAIN b : p[35 + i] = b[i]
    BY <1>13 DEF Holds
  <2>2. p[35 + 1] = b[1]
    BY <1>12, <2>1
  <2> QED  BY <1>12, <2>2 DEF At
<1>15. /\ Unsigned16(p, 10) = d.cell /\ Unsigned16(p, 12) = d.cell
       /\ Unsigned16(p, 14) = d.cell /\ Unsigned16(p, 16) = d.cell
  BY <1>1, <1>2, <1>13, Reads16
<1>16. \A i \in 1 .. 12 : p[18 + i] = 255
  <2>1. \A i \in DOMAIN o : p[18 + i] = o[i]
    BY <1>13 DEF Holds
  <2>2. DOMAIN o = 1 .. 12 /\ \A i \in 1 .. 12 : o[i] = 255
    BY <1>3 DEF Filled
  <2> QED  BY <2>1, <2>2
<1>17. /\ Unsigned16(p, 18) = 65535 /\ Unsigned16(p, 20) = 65535 /\ Unsigned16(p, 22) = 65535
       /\ Unsigned16(p, 24) = 65535 /\ Unsigned16(p, 26) = 65535 /\ Unsigned16(p, 28) = 65535
  BY <1>16, SMT DEF Unsigned16, At
<1>18. ASSUME NEW i \in 0 .. 9
       PROVE  CellVoltage(p, i) = IF i < 4 THEN d.cell ELSE 0
  <2>1. Unsigned16(p, 10 + 2 * i) = IF i < 4 THEN d.cell ELSE 65535
    BY <1>15, <1>17, SMT
  <2> QED  BY <1>1, <2>1, SMT DEF CellVoltage
<1>19. decodeBatteryStatus(p)
         = [kind |-> "battery", voltage |-> 4 * d.cell, remaining |-> Signed8(At(p, 35))]
  BY <1>1, <1>18, CellSum
<1>20. Signed8(At(p, 35)) = d.battery
  BY <1>1, <1>14, SMT DEF Signed8
<1>21. Len(p) \in Nat /\ Len(p) >= 36
  BY <1>13, InBytes
<1>22. decodePayload(BatteryID, p)
         = [kind |-> "battery", voltage |-> 4 * d.cell, remaining |-> d.battery]
  BY <1>19, <1>20, <1>21, DecodesFull
<1>23. Said(d, BatteryID)
         = [kind |-> "battery", voltage |-> 4 * d.cell, remaining |-> d.battery]
  BY DEF Said, Meant, HeartbeatID, GlobalPositionID, GPSRawID, BatteryID, AttitudeID
<1> QED  BY <1>13, <1>22, <1>23, Lengths DEF Describes
-----------------------------------------------------------------------------
(* The simulator's payloads, and the generator's for a drone like those it *)
(* flies.                                                                  *)

LEMMA SimulatorDescribes ==
  ASSUME NEW d \in DroneState, NEW id \in IDs
  PROVE  Describes(d, id, PayloadOf(d, id))
<1>1. CASE id = HeartbeatID
  BY <1>1, HeartbeatDescribes DEF PayloadOf, HeartbeatID, GlobalPositionID, GPSRawID,
                                  BatteryID, AttitudeID
<1>2. CASE id = GlobalPositionID
  <2>1. PICK v : v = Cat(Filled(4, 1), Filled(2, 0))
    OBVIOUS
  <2>2. v \in Bytes(6)
    <3>1. Joined(v, Filled(4, 1), Filled(2, 0))
      BY <2>1 DEF Joined
    <3>2. Filled(4, 1) \in Bytes(4) /\ Filled(2, 0) \in Bytes(2)
      BY ConstantBytes
    <3>3. v \in Bytes(4 + 2)
      BY <3>1, <3>2, CatHolds, InBytes
    <3> QED  BY <3>3
  <2>3. PICK r \in Int : r = d.alt - d.home
    BY StateTypes, Int32s
  <2>4. buildGlobalPosition(d)
          = Cat(Cat(Cat(Cat(Cat(Cat(Clock(4), PutUint32(d.lat)), PutUint32(d.lon)),
                            PutUint32(d.alt)), PutUint32(r)), v), PutUint16(d.heading))
    BY <2>1, <2>3, Zenon DEF buildGlobalPosition, Cat
  <2>5. Describes(d, GlobalPositionID, buildGlobalPosition(d))
    BY <2>2, <2>4, GlobalPositionDescribes
  <2> QED  BY <1>2, <2>5 DEF PayloadOf, HeartbeatID, GlobalPositionID, GPSRawID,
                             BatteryID, AttitudeID
<1>3. CASE id = AttitudeID
  <2>1. buildAttitude(d) = Cat(Clock(4), d.angles)
    BY DEF buildAttitude, Cat
  <2>2. Describes(d, AttitudeID, buildAttitude(d))
    BY <2>1, AttitudeDescribes
  <2> QED  BY <1>3, <2>2 DEF PayloadOf, HeartbeatID, GlobalPositionID, GPSRawID,
                             BatteryID, AttitudeID
<1>4. CASE id = BatteryID
  <2>1. buildBatteryStatus(d)
          = Cat(Cat(Cat(Cat(Cat(Cat(Cat(Cat(Filled(10, 0), PutUint16(d.cell)),
                PutUint16(d.cell)), PutUint16(d.cell)), PutUint16(d.cell)),
                Filled(12, 255)), PutUint16(50)), Filled(3, 0)), <<d.battery>>)
    BY Zenon DEF buildBatteryStatus, Cat
  <2>2. Describes(d, BatteryID, buildBatteryStatus(d))
    BY <2>1, BatteryDescribes
  <2> QED  BY <1>4, <2>2 DEF PayloadOf, HeartbeatID, GlobalPositionID, GPSRawID,
                             BatteryID, AttitudeID
<1>5. CASE id = GPSRawID
  <2>1. Clock(7) \in Bytes(7)
    BY ConstantBytes
  <2>2. buildGPSRaw(d)
          = Cat(Cat(Cat(Cat(Cat(Cat(Cat(Cat(Cat(Clock(7), <<3>>),
                PutUint32(d.lat)), PutUint32(d.lon)), PutUint32(d.alt)),
                PutUint16(120)), PutUint16(150)), PutUint16(500)),
                PutUint16(d.heading)), <<0, 12>>)
    BY Zenon DEF buildGPSRaw, Cat
  <2>3. Describes(d, GPSRawID, buildGPSRaw(d))
    BY <2>1, <2>2, GPSRawDescribes
  <2> QED  BY <1>5, <2>3 DEF PayloadOf, HeartbeatID, GlobalPositionID, GPSRawID,
                             BatteryID, AttitudeID
<1> QED  BY <1>1, <1>2, <1>3, <1>4, <1>5 DEF IDs

(* The payload that the generator writes of d's message. *)
RecordedPayload(d, id) ==
  CASE id = HeartbeatID      -> buildHB(d)
    [] id = GlobalPositionID -> buildGP(d)
    [] id = AttitudeID       -> buildAtt(d)
    [] id = BatteryID        -> buildBatt(d)
    [] id = GPSRawID         -> buildGPS(d)

Flown == {d \in DroneState : d.mode = 4 /\ d.home = 10000 /\ \A i \in 13 .. 24 : d.angles[i] = 0}

LEMMA GeneratorDescribes ==
  ASSUME NEW d \in Flown, NEW id \in IDs
  PROVE  Describes(d, id, RecordedPayload(d, id))
<1>0. d \in DroneState /\ d.mode = 4 /\ d.home = 10000
  BY DEF Flown
<1>1. CASE id = HeartbeatID
  <2>1. [d EXCEPT !.mode = 4] = d
    BY <1>0 DEF DroneState
  <2>2. buildHB(d) = buildHeartbeat(d)
    BY <2>1 DEF buildHB
  <2> QED  BY <1>0, <1>1, <2>2, HeartbeatDescribes
             DEF RecordedPayload, HeartbeatID, GlobalPositionID, GPSRawID, BatteryID, AttitudeID
<1>2. CASE id = GlobalPositionID
  <2>1. PICK r \in Int : r = d.alt - 10000
    BY <1>0, StateTypes, Int32s
  <2>2. Filled(6, 0) \in Bytes(6)
    BY ConstantBytes
  <2>3. buildGP(d)
          = Cat(Cat(Cat(Cat(Cat(Cat(Clock(4), PutUint32(d.lat)), PutUint32(d.lon)),
                            PutUint32(d.alt)), PutUint32(r)), Filled(6, 0)), PutUint16(d.heading))
    BY <2>1, SMT DEF buildGP, Cat
  <2>4. Describes(d, GlobalPositionID, buildGP(d))
    BY <1>0, <2>2, <2>3, GlobalPositionDescribes
  <2> QED  BY <1>2, <2>4
             DEF RecordedPayload, HeartbeatID, GlobalPositionID, GPSRawID, BatteryID, AttitudeID
<1>3. CASE id = AttitudeID
  <2>1. PICK a : a = d.angles
    OBVIOUS
  <2>2. a \in Bytes(24) /\ \A i \in 13 .. 24 : a[i] = 0
    BY <1>0, <2>1, StateTypes DEF Flown
  <2>3. PICK h : h = SubSeq(a, 1, 12)
    OBVIOUS
  <2>4. PICK z : z = Filled(12, 0)
    OBVIOUS
  <2>5. buildAtt(d) = (Clock(4) \o h) \o z
    BY <2>1, <2>3, <2>4, Zenon DEF buildAtt
  <2>6. /\ a \in Seq(Byte) /\ Len(a) >= 24 /\ Len(a) <= 24
    BY <2>2, InBytes
  <2>7. /\ h \in Seq(Byte) /\ Len(h) >= 12 /\ Len(h) <= 12
        /\ \A i \in 1 .. Len(h) : h[i] = a[i]
    <3>1. PICK k \in Nat : k = 12
      OBVIOUS
    <3>2. h = SubSeq(a, 1, k) /\ k <= Len(a)
      BY <2>3, <2>6, <3>1
    <3>3. h \in Seq(Byte) /\ Len(h) = k /\ \A i \in 1 .. k : h[i] = a[i]
      BY <2>6, <3>2
    <3> QED  BY <3>1, <3>3
  <2>8. z \in Seq(Byte) /\ Len(z) >= 12 /\ Len(z) <= 12 /\ \A i \in 1 .. Len(z) : z[i] = 0
    <3>1. 0 \in Byte
      BY ConstantBytes
    <3> QED  BY <2>4, <3>1 DEF Filled
  <2>9. h \o z = a
    <3>1. PICK c : c = h \o z
      OBVIOUS
    <3>2. c \in Seq(Byte) /\ Len(c) = Len(a)
      BY <2>6, <2>7, <2>8, <3>1
    <3>3. ASSUME NEW i \in 1 .. Len(a) PROVE c[i] = a[i]
      <4>1. CASE i <= 12
        BY <2>6, <2>7, <2>8, <3>1, <4>1
      <4>2. CASE i > 12
        <5>1. i \in 13 .. 24 /\ i - Len(h) \in 1 .. Len(z)
          BY <2>6, <2>7, <2>8, <4>2
        <5>2. c[i] = z[i - Len(h)]
          BY <2>6, <2>7, <2>8, <3>1, <5>1
        <5> QED  BY <2>2, <2>8, <5>1, <5>2
      <4> QED  BY <2>6, <4>1, <4>2
    <3> QED  BY <2>6, <3>1, <3>2, <3>3, SeqEqual
  <2>10. (Clock(4) \o h) \o z = Clock(4) \o (h \o z)
    <3>1. Clock(4) \in Seq(Byte)
      BY ConstantBytes, InBytes
    <3> QED  BY <2>7, <2>8, <3>1, ConcatAssociative
  <2>11. buildAtt(d) = Cat(Clock(4), d.angles)
    BY <2>1, <2>5, <2>9, <2>10, Zenon DEF Cat
  <2>12. Describes(d, AttitudeID, buildAtt(d))
    BY <1>0, <2>11, AttitudeDescribes
  <2> QED  BY <1>3, <2>12
             DEF RecordedPayload, HeartbeatID, GlobalPositionID, GPSRawID, BatteryID, AttitudeID
<1>4. CASE id = BatteryID
  <2>1. buildBatt(d)
          = Cat(Cat(Cat(Cat(Cat(Cat(Cat(Cat(Filled(10, 0), PutUint16(d.cell)),
                PutUint16(d.cell)), PutUint16(d.cell)), PutUint16(d.cell)),
                Filled(12, 255)), PutUint16(1500)), Filled(3, 0)), <<d.battery>>)
    BY Zenon DEF buildBatt, Cat
  <2>2. Describes(d, BatteryID, buildBatt(d))
    BY <1>0, <2>1, BatteryDescribes
  <2> QED  BY <1>4, <2>2
             DEF RecordedPayload, HeartbeatID, GlobalPositionID, GPSRawID, BatteryID, AttitudeID
<1>5. CASE id = GPSRawID
  <2>1. Filled(7, 0) \in Bytes(7)
    BY ConstantBytes
  <2>2. buildGPS(d)
          = Cat(Cat(Cat(Cat(Cat(Cat(Cat(Cat(Cat(Filled(7, 0), <<3>>),
                PutUint32(d.lat)), PutUint32(d.lon)), PutUint32(d.alt)),
                PutUint16(120)), PutUint16(150)), PutUint16(500)),
                PutUint16(d.heading)), <<0, 12>>)
    BY Zenon DEF buildGPS, Cat
  <2>3. Describes(d, GPSRawID, buildGPS(d))
    BY <1>0, <2>1, <2>2, GPSRawDescribes
  <2> QED  BY <1>5, <2>3
             DEF RecordedPayload, HeartbeatID, GlobalPositionID, GPSRawID, BatteryID, AttitudeID
<1> QED  BY <1>1, <1>2, <1>3, <1>4, <1>5 DEF IDs
-----------------------------------------------------------------------------
(* What the decoder answers to an undamaged frame.                         *)

(* Expected, of a drone, a message and the length of its payload. *)
Answer(d, id, length) ==
  LET short   == length < FullLength[id]
      refused == ~short /\ id \in {GlobalPositionID, GPSRawID} /\ ~InRange(d)
  IN  IF d.system \notin Between(1, 250) \/ refused THEN Rejected
      ELSE [kind |-> "event", system |-> d.system, id |-> id,
            payload |-> IF short THEN NilPayload ELSE Meant(d, id)]

LEMMA ExpectedAnswer == Expected = Answer(sent.drone, sent.id, sent.length)
BY DEF Expected, Answer

LEMMA ValidatesShort ==
  ASSUME NEW f
  PROVE  Validated(f, NilPayload) = Event(f, NilPayload)
BY DEF Validated, NilPayload

LEMMA ValidatesFull ==
  ASSUME NEW f, NEW d \in DroneState, NEW id \in IDs
  PROVE  Validated(f, Said(d, id))
           = IF id \in {GlobalPositionID, GPSRawID} /\ ~InRange(d) THEN Rejected
             ELSE Event(f, Meant(d, id))
<1>1. CASE id \in {GlobalPositionID, GPSRawID}
  <2>1. PICK fix : fix = IF id = GPSRawID THEN 3 ELSE 0
    OBVIOUS
  <2>2. PICK g : g = [kind |-> "gps", lat |-> d.lat, lon |-> d.lon, alt |-> d.alt,
                      heading |-> d.heading, fix |-> fix]
    OBVIOUS
  <2>3. Said(d, id) = g
    BY <1>1, <2>1, <2>2 DEF Said
  <2>4. g.kind = "gps" /\ g.lat = d.lat /\ g.lon = d.lon /\ g.alt = d.alt
    BY <2>2
  <2>5. ValidateGPS(g) <=> InRange(d)
    BY <2>4, SMT DEF ValidateGPS, InRange
  <2>6. Clamped(g) = [kind |-> "gps", lat |-> d.lat, lon |-> d.lon, alt |-> d.alt,
                      heading |-> d.heading % 36000, fix |-> fix]
    BY <2>2, SMT DEF Clamped
  <2>7. Meant(d, id) = Clamped(g)
    <3>1. Meant(d, id) = [kind |-> "gps", lat |-> d.lat, lon |-> d.lon, alt |-> d.alt,
                          heading |-> d.heading % 36000,
                          fix |-> IF id = GPSRawID THEN 3 ELSE 0]
      BY <1>1, SMT DEF Meant, HeartbeatID, GlobalPositionID, GPSRawID, BatteryID, AttitudeID
    <3> QED  BY <2>1, <2>6, <3>1, SMT
  <2>8. Validated(f, g) = IF ValidateGPS(g) THEN Event(f, Clamped(g)) ELSE Rejected
    BY <2>4 DEF Validated
  <2> QED  BY <1>1, <2>3, <2>5, <2>7, <2>8
<1>2. CASE id \notin {GlobalPositionID, GPSRawID}
  <2>1. Said(d, id) = Meant(d, id)
    BY <1>2 DEF Said
  <2>2. CASE id = BatteryID
    <3>1. PICK b : b = Meant(d, id)
      OBVIOUS
    <3>2. b.kind = "battery" /\ b.remaining = d.battery
      BY <1>2, <2>2, <3>1 DEF Meant, HeartbeatID, GlobalPositionID, GPSRawID, BatteryID, AttitudeID
    <3>3. d.battery \in Between(0, 100)
      BY StateTypes
    <3>4. ValidateBattery(b)
      BY <3>2, <3>3 DEF ValidateBattery, Between
    <3>5. Validated(f, b) = Event(f, b)
      BY <3>2, <3>4 DEF Validated
    <3> QED  BY <1>2, <2>1, <3>1, <3>5
  <2>3. CASE id # BatteryID
    <3>1. PICK b : b = Meant(d, id)
      OBVIOUS
    <3>2. b.kind \in {"heartbeat", "attitude"}
      BY <1>2, <2>3, <3>1
         DEF Meant, IDs, HeartbeatID, GlobalPositionID, GPSRawID, BatteryID, AttitudeID
    <3>3. Validated(f, b) = Event(f, b)
      BY <3>2 DEF Validated
    <3> QED  BY <1>2, <2>1, <3>1, <3>3
  <2> QED  BY <2>2, <2>3
<1> QED  BY <1>1, <1>2

LEMMA FrameAnswered ==
  ASSUME SixteenBits, NEW d \in DroneState, NEW n \in Byte, NEW id \in IDs,
         NEW full, Describes(d, id, full),
         NEW len \in Nat, len >= 1, len <= FullLength[id], NEW p \in Bytes(len),
         len = FullLength[id] => p = full,
         NEW f, f = buildFrame(d, n, id, p)
  PROVE  DecodePacket(f) = Answer(d, id, len)
<1>1. d.system \in Byte
  BY StateTypes
<1>2. FullLength[id] \in Nat /\ FullLength[id] <= 36
  BY Lengths DEF IDs
<1>3. len \in Byte
  BY <1>2 DEF Byte, Between
<1>4. At(f, 5) = d.system /\ MessageID(f) = id
  BY <1>1, <1>3, FrameLayout
<1>5. DecodePacket(f) = IF d.system \in Between(1, 250)
                        THEN Validated(f, decodePayload(id, p)) ELSE Rejected
  BY <1>1, <1>3, DecodesFrame
<1>6. Event(f, NilPayload) = [kind |-> "event", system |-> d.system, id |-> id,
                              payload |-> NilPayload]
  BY <1>4 DEF Event
<1>7. Event(f, Meant(d, id)) = [kind |-> "event", system |-> d.system, id |-> id,
                                payload |-> Meant(d, id)]
  BY <1>4 DEF Event
<1>8. CASE len < FullLength[id]
  <2>1. Len(p) \in Nat /\ Len(p) < FullLength[id]
    BY <1>8, InBytes
  <2>2. decodePayload(id, p) = NilPayload
    BY <2>1, DecodesShort
  <2>3. Validated(f, decodePayload(id, p)) = Event(f, NilPayload)
    BY <2>2, ValidatesShort
  <2> QED  BY <1>5, <1>6, <1>8, <2>3 DEF Answer
<1>9. CASE len = FullLength[id]
  <2>1. decodePayload(id, p) = Said(d, id)
    BY <1>9 DEF Describes
  <2>2. Validated(f, decodePayload(id, p))
          = IF id \in {GlobalPositionID, GPSRawID} /\ ~InRange(d) THEN Rejected
            ELSE Event(f, Meant(d, id))
    BY <2>1, ValidatesFull
  <2>3. ~(len < FullLength[id])
    BY <1>2, <1>9
  <2> QED  BY <1>5, <1>7, <2>2, <2>3 DEF Answer
<1> QED  BY <1>2, <1>8, <1>9

(* A payload without its trailing zeros is as long as it was only when it *)
(* had none.                                                              *)
LEMMA TrimmedPayload ==
  ASSUME NEW n \in Nat, n >= 1, NEW p \in Bytes(n)
  PROVE  \E k \in 1 .. n : Trimmed(p) \in Bytes(k) /\ (k = n => Trimmed(p) = p)
<1> DEFINE full == {i \in 1 .. Len(p) : i = 1 \/ p[i] # 0}
           Last(i) == i \in full /\ \A j \in full : j <= i
<1>1. p \in Seq(Byte) /\ Len(p) = n
  BY InBytes
<1>2. \E i : Last(i)
  <2>1. full \in SUBSET Int /\ full # {} /\ \A j \in full : j <= n
    BY <1>1
  <2>2. \E i \in full : \A j \in full : j <= i
    <3> DEFINE T == {m \in Nat : \A j \in full : j <= m}
    <3>1. n \in T
      BY <2>1
    <3>2. PICK m \in T : \A y \in T : ~(<<y, m>> \in OpToRel(<, Nat))
      BY <3>1, NatLessThanWellFounded, WFMin
    <3>3. m \in Nat /\ m >= 1
      <4>1. 1 \in full
        BY <1>1
      <4> QED  BY <3>2, <4>1
    <3>4. m - 1 \in Nat /\ <<m - 1, m>> \in OpToRel(<, Nat)
      BY <3>3 DEF OpToRel
    <3>5. m - 1 \notin T
      BY <3>2, <3>4
    <3>6. PICK j \in full : ~(j <= m - 1)
      BY <3>4, <3>5
    <3>7. j \in Int /\ j <= m
      BY <2>1, <3>2, <3>6
    <3>8. j = m
      BY <3>3, <3>6, <3>7
    <3> QED  BY <3>2, <3>6, <3>8
  <2> QED  BY <2>2
<1>3. PICK k : k = CHOOSE i \in full : \A j \in full : j <= i
  OBVIOUS
<1>4. k \in full
  BY <1>2, <1>3
<1>5. k \in 1 .. n
  BY <1>1, <1>4
<1>6. Trimmed(p) = SubSeq(p, 1, k)
  BY <1>3 DEF Trimmed
<1>7. SubSeq(p, 1, k) \in Seq(Byte) /\ Len(SubSeq(p, 1, k)) = k
  BY <1>1, <1>5
<1>8. k = n => SubSeq(p, 1, k) = p
  <2>1. SUFFICES ASSUME k = n PROVE SubSeq(p, 1, n) = p
    OBVIOUS
  <2>2. \A i \in 1 .. n : SubSeq(p, 1, n)[i] = p[i]
    BY <1>1
  <2> QED  BY <1>1, <1>7, <2>1, <2>2, SeqEqual
<1> QED  BY <1>5, <1>6, <1>7, <1>8, InBytes
-----------------------------------------------------------------------------
(* The flight of the generator and the capture it writes.                  *)

(* A function on 0 .. N whose values each come from the one before exists. *)
LEMMA Recursion ==
  ASSUME NEW X, NEW a \in X, NEW N \in Nat, NEW h \in [1 .. N -> [X -> X]]
  PROVE  \E f \in [0 .. N -> X] : f[0] = a /\ \A n \in 1 .. N : f[n] = h[n][f[n - 1]]
<1> DEFINE Steps(f, k) == f[0] = a /\ \A n \in 1 .. k : f[n] = h[n][f[n - 1]]
           P == {k \in Nat : k <= N => \E f \in [0 .. k -> X] : Steps(f, k)}
<1>1. 0 \in P
  <2>1. [n \in 0 .. 0 |-> a] \in [0 .. 0 -> X] /\ Steps([n \in 0 .. 0 |-> a], 0)
    OBVIOUS
  <2> QED  BY <2>1
<1>2. ASSUME NEW k \in Nat, k \in P PROVE k + 1 \in P
  <2>1. SUFFICES ASSUME k + 1 <= N
                 PROVE  \E f \in [0 .. (k + 1) -> X] : Steps(f, k + 1)
    OBVIOUS
  <2>2. PICK f \in [0 .. k -> X] : Steps(f, k)
    BY <1>2, <2>1
  <2>3. h[k + 1][f[k]] \in X
    BY <2>1
  <2> DEFINE g == [n \in 0 .. (k + 1) |-> IF n = k + 1 THEN h[k + 1][f[k]] ELSE f[n]]
  <2>4. g \in [0 .. (k + 1) -> X]
    BY <2>3
  <2>5. g[0] = a
    BY <2>2
  <2>6. ASSUME NEW n \in 1 .. (k + 1) PROVE g[n] = h[n][g[n - 1]]
    <3>1. n - 1 \in 0 .. k /\ g[n - 1] = f[n - 1]
      OBVIOUS
    <3>2. CASE n = k + 1
      BY <3>1, <3>2
    <3>3. CASE n # k + 1
      <4>1. n \in 1 .. k /\ g[n] = f[n]
        BY <3>3
      <4> QED  BY <2>2, <3>1, <4>1
    <3> QED  BY <3>2, <3>3
  <2> HIDE DEF g
  <2> QED  BY <2>4, <2>5, <2>6
<1>3. N \in P
  <2> HIDE DEF P
  <2> QED  BY <1>1, <1>2, NatSetInduction
<1> QED  BY <1>3

(* The generator's drone: between 10.0 and 50.4 m, 0 to 100 percent. *)
Generated ==
  {g \in [armed : BOOLEAN, alt : Int, battery : Int] :
     100 <= g.alt /\ g.alt <= 504 /\ 0 <= g.battery /\ g.battery <= 100}

LEMMA FlownTickType ==
  ASSUME NEW g \in Generated, NEW tick \in Nat
  PROVE  FlownTick(g, tick) \in Generated
<1>1. /\ g.armed \in BOOLEAN /\ g.alt \in Int /\ g.battery \in Int
      /\ 100 <= g.alt /\ g.alt <= 504 /\ 0 <= g.battery /\ g.battery <= 100
  BY DEF Generated
<1> DEFINE armed == g.armed \/ tick >= 30
           climbs == armed /\ g.alt < 500 /\ tick < 100
           sinks == armed /\ ~climbs /\ tick >= 500
           landed == sinks /\ g.alt - 3 <= 105
           drained == armed /\ ~landed /\ tick % 10 = 0 /\ g.battery > 0
           alt == CASE climbs -> g.alt + 5
                    [] landed -> 100
                    [] sinks /\ ~landed -> g.alt - 3
                    [] OTHER -> g.alt
           battery == IF drained THEN g.battery - 1 ELSE g.battery
<1>2. FlownTick(g, tick) = [armed |-> armed /\ ~landed, alt |-> alt, battery |-> battery]
  BY DEF FlownTick
<1>3. alt \in Int /\ 100 <= alt /\ alt <= 504
  BY <1>1
<1>4. battery \in Int /\ 0 <= battery /\ battery <= 100
  <2>1. drained => g.battery > 0
    OBVIOUS
  <2> HIDE DEF drained
  <2> QED  BY <1>1, <2>1
<1>5. (armed /\ ~landed) \in BOOLEAN
  OBVIOUS
<1> HIDE DEF armed, landed, alt, battery
<1> QED  BY <1>2, <1>3, <1>4, <1>5 DEF Generated

LEMMA FlightType == \A ticks \in 0 .. (LastTick + 1) : Flight[ticks] \in Generated
<1> DEFINE N == LastTick + 1
           h == [n \in 1 .. N |-> [g \in Generated |-> FlownTick(g, n - 1)]]
           Flights(f) ==
             [ticks \in 0 .. N |-> IF ticks = 0 THEN Ground ELSE FlownTick(f[ticks - 1], ticks - 1)]
<1>1. N \in Nat /\ Ground \in Generated
  BY ReplayAssumption DEF Ground, Generated
<1>2. h \in [1 .. N -> [Generated -> Generated]]
  <2>1. ASSUME NEW n \in 1 .. N, NEW g \in Generated PROVE FlownTick(g, n - 1) \in Generated
    <3>1. n - 1 \in Nat
      BY <1>1
    <3> QED  BY <3>1, FlownTickType
  <2> QED  BY <2>1
<1> HIDE DEF N
<1>3. PICK f \in [0 .. N -> Generated] :
        f[0] = Ground /\ \A n \in 1 .. N : f[n] = h[n][f[n - 1]]
  <2> HIDE DEF h, Flights
  <2> QED  BY <1>1, <1>2, Recursion
<1>4. f = Flights(f)
  <2>1. ASSUME NEW n \in 0 .. N
        PROVE  f[n] = IF n = 0 THEN Ground ELSE FlownTick(f[n - 1], n - 1)
    <3>1. CASE n = 0
      BY <1>3, <3>1
    <3>2. CASE n # 0
      <4>1. n \in 1 .. N /\ n - 1 \in 0 .. N
        BY <1>1, <3>2
      <4>2. f[n - 1] \in Generated
        BY <4>1
      <4> QED  BY <1>3, <3>2, <4>1, <4>2
    <3> QED  BY <3>1, <3>2
  <2> QED  BY <2>1
<1>5. Flight = CHOOSE g : g = Flights(g)
  BY Zenon DEF Flight, N
<1>6. Flight = Flights(Flight)
  <2> HIDE DEF Flights
  <2> QED  BY <1>4, <1>5
<1> DEFINE P == {k \in Nat : k <= N => Flight[k] \in Generated}
<1>7. 0 \in P
  BY <1>1, <1>6
<1>8. ASSUME NEW k \in Nat, k \in P PROVE k + 1 \in P
  <2>1. SUFFICES ASSUME k + 1 <= N PROVE Flight[k + 1] \in Generated
    OBVIOUS
  <2>2. Flight[k] \in Generated
    BY <1>1, <1>8, <2>1
  <2>3. k + 1 \in 0 .. N /\ (k + 1) - 1 = k
    BY <1>1, <2>1
  <2>4. Flight[k + 1] = FlownTick(Flight[k], k)
    <3>1. Flights(Flight)[k + 1] = FlownTick(Flight[(k + 1) - 1], (k + 1) - 1)
      BY <2>3
    <3> QED  BY <1>6, <2>3, <3>1
  <2> QED  BY <2>2, <2>4, FlownTickType
<1>9. \A k \in Nat : k \in P
  <2> HIDE DEF P
  <2> QED  BY <1>7, <1>8, NatSetInduction
<1> QED  BY <1>1, <1>9 DEF N

LEMMA MessageType == \A n \in Nat : MessageOf(n) \in IDs /\ n % 256 \in Byte
<1> SUFFICES ASSUME NEW n \in Nat PROVE MessageOf(n) \in IDs /\ n % 256 \in Byte
  OBVIOUS
<1>1. n % 5 \in {0, 1, 2, 3, 4}
  BY SMT
<1>2. PICK k \in {1, 2, 3, 4, 5} : k = 1 + (n % 5)
  BY <1>1
<1>3. MessageOf(n) = <<HeartbeatID, GlobalPositionID, AttitudeID, BatteryID, GPSRawID>>[k]
  BY <1>2 DEF MessageOf
<1> QED  BY <1>3, Digit DEF IDs

LEMMA RecordedDroneType ==
  ASSUME NEW tick \in 0 .. LastTick
  PROVE  RecordedDrone(tick) \in Flown
<1>1. PICK g \in Generated : g = Flight[tick + 1]
  BY ReplayAssumption, FlightType
<1>2. /\ g.armed \in BOOLEAN /\ g.alt \in Int /\ g.battery \in Int
      /\ 100 <= g.alt /\ g.alt <= 504 /\ 0 <= g.battery /\ g.battery <= 100
  BY DEF Generated
<1>3. Place.lat \in Int32 /\ Place.lon \in Int32 /\ Place.heading \in Uint16
  <2>1. Place \in [lat : Int32, lon : Int32, heading : Uint16]
    BY CaptureAssumption
  <2> QED  BY <2>1
<1>4. PICK angles : angles = [i \in 1 .. 24 |-> IF i <= 12 THEN 60 + i ELSE 0]
  OBVIOUS
<1>5. angles \in Bytes(24) /\ \A i \in 13 .. 24 : angles[i] = 0
  BY <1>4 DEF Bytes, Byte, Between
<1>6. PICK cell : cell = (16800 - 10 * (100 - g.battery)) \div 4
  OBVIOUS
<1>7. cell \in Between(0, 65534)
  BY <1>2, <1>6, SMT DEF Between
<1>8. 100 * g.alt \in Int32 /\ 10000 \in Int32 /\ 1 \in Byte /\ g.battery \in Between(0, 100)
  BY <1>2, SMT DEF Int32, Byte, Between
<1>9. RecordedDrone(tick)
        = [system |-> 1, armed |-> g.armed, mode |-> 4, lat |-> Place.lat, lon |-> Place.lon,
           alt |-> 100 * g.alt, home |-> 10000, heading |-> Place.heading, angles |-> angles,
           cell |-> cell, battery |-> g.battery]
  BY <1>1, <1>4, <1>6, SMT DEF RecordedDrone
<1>10. PICK d : d = RecordedDrone(tick)
  OBVIOUS
<1>11. d \in DroneState
  BY <1>2, <1>3, <1>5, <1>7, <1>8, <1>9, <1>10, SMT DEF DroneState
<1>12. d.mode = 4 /\ d.home = 10000 /\ d.angles = angles
  BY <1>9, <1>10, SMT
<1> QED  BY <1>5, <1>10, <1>11, <1>12 DEF Flown

LEMMA TicksType ==
  /\ Len(Ticks) \in Nat /\ DOMAIN Ticks = 1 .. Len(Ticks)
  /\ \A r \in DOMAIN Ticks : Ticks[r] \in 0 .. LastTick /\ Ticks[r] \in Nat
<1>1. FirstTick \in Nat /\ LastTick \in Nat /\ FirstTick <= LastTick + 1
  BY ReplayAssumption
<1>2. PICK n \in Nat : n = LastTick - FirstTick + 1
  BY <1>1
<1>3. Ticks = [r \in 1 .. n |-> FirstTick + r - 1]
  BY <1>2 DEF Ticks
<1>4. Len(Ticks) = n /\ DOMAIN Ticks = 1 .. n
  BY <1>3
<1>5. ASSUME NEW r \in 1 .. n PROVE Ticks[r] \in 0 .. LastTick /\ Ticks[r] \in Nat
  BY <1>1, <1>2, <1>3
<1> QED  BY <1>4, <1>5

LEMMA FrameAnswers ==
  ASSUME SixteenBits, NEW r \in DOMAIN Ticks
  PROVE  LET d  == RecordedDrone(Ticks[r])
             id == MessageOf(Ticks[r])
         IN  /\ Frames[r] \in Seq(Byte)
             /\ Len(Frames[r]) \in Nat /\ 21 <= Len(Frames[r]) /\ Len(Frames[r]) <= 48
             /\ DecodePacket(Frames[r]) = Answer(d, id, Len(Frames[r]) - 12)
<1>1. PICK tick \in Nat : tick = Ticks[r] /\ tick \in 0 .. LastTick
  BY TicksType
<1>2. PICK d \in Flown : d = RecordedDrone(tick)
  BY <1>1, RecordedDroneType
<1>3. PICK id \in IDs : id = MessageOf(tick)
  BY MessageType
<1>4. PICK n \in Byte : n = tick % 256
  BY MessageType
<1>5. PICK p : p = RecordedPayload(d, id)
  OBVIOUS
<1>6. Frames[r] = buildFrame(d, n, id, p)
  <2>1. Frames[r] = buildSimFrame(tick)
    BY <1>1 DEF Frames
  <2> QED  BY <1>2, <1>3, <1>4, <1>5, <2>1, Zenon DEF buildSimFrame, RecordedPayload
<1>7. d \in DroneState /\ d.system \in Byte
  BY StateTypes DEF Flown
<1>8. Describes(d, id, p)
  BY <1>5, GeneratorDescribes
<1>9. PICK len \in Nat : len = FullLength[id] /\ len >= 9 /\ len <= 36
  BY Lengths DEF IDs
<1>10. p \in Bytes(len) /\ len \in Byte
  BY <1>8, <1>9 DEF Describes, Byte, Between
<1>11. PICK f : f = Frames[r]
  OBVIOUS
<1>12. f = buildFrame(d, n, id, p)
  BY <1>6, <1>11
<1>13. f \in Bytes(len + 12)
  BY <1>7, <1>9, <1>10, <1>12, FrameLayout
<1>14. DecodePacket(f) = Answer(d, id, len)
  BY <1>7, <1>8, <1>9, <1>10, <1>12, FrameAnswered
<1>15. f \in Seq(Byte) /\ Len(f) = len + 12
  BY <1>13, InBytes
<1>16. Len(f) \in Nat /\ 21 <= Len(f) /\ Len(f) <= 48 /\ Len(f) - 12 = len
  BY <1>9, <1>15
<1> QED  BY <1>1, <1>2, <1>3, <1>11, <1>14, <1>15, <1>16
-----------------------------------------------------------------------------
(* FramesRoundTrip: the frame on the line is one that will be decoded to   *)
(* what its sender meant.                                                  *)
InFlight == wire # <<>> /\ ~hurt => DecodePacket(wire) = Expected

RoundTripInv ==
  /\ cycle \in Nat
  /\ recorded = Recorded
  /\ InFlight
  /\ FramesRoundTrip

LEMMA ExpectedAnswerNext == Expected' = Answer(sent'.drone, sent'.id, sent'.length)
BY DEF Expected, Answer

LEMMA SendRoundTrip ==
  ASSUME SixteenBits, RoundTripInv, NEW d \in Drones, Send(d), UNCHANGED toolVars
  PROVE  RoundTripInv'
<1>1. d \in DroneState
  BY MavlinkAssumption
<1>2. PICK id \in IDs : id = MessageOf(cycle)
  BY MessageType DEF RoundTripInv
<1>3. PICK n \in Byte : n = cycle % 256
  BY MessageType DEF RoundTripInv
<1>4. PICK full : full = PayloadOf(d, id)
  OBVIOUS
<1>5. Describes(d, id, full)
  BY <1>1, <1>4, SimulatorDescribes
<1>6. PICK p \in {full, Trimmed(full)} :
        /\ sent' = [kind |-> "message", drone |-> d, id |-> id, length |-> Len(p)]
        /\ wire' = buildFrame(d, n, id, p)
  BY <1>2, <1>3, <1>4 DEF Send
<1>7. PICK len \in Nat : len = FullLength[id] /\ len >= 9
  BY Lengths DEF IDs
<1>8. full \in Bytes(len)
  BY <1>5, <1>7 DEF Describes
<1>9. PICK k \in 1 .. len : p \in Bytes(k) /\ (k = len => p = full)
  <2>1. CASE p = full
    BY <1>7, <1>8, <2>1
  <2>2. CASE p = Trimmed(full)
    BY <1>7, <1>8, <2>2, TrimmedPayload
  <2> QED  BY <1>6, <2>1, <2>2
<1>10. k \in Nat /\ 1 <= k /\ k <= len /\ Len(p) = k
  BY <1>7, <1>9, InBytes
<1>11. DecodePacket(wire') = Answer(d, id, k)
  BY <1>1, <1>5, <1>6, <1>7, <1>9, <1>10, FrameAnswered
<1>12. Expected' = Answer(d, id, k)
  BY <1>6, <1>10, ExpectedAnswerNext
<1>13. cycle' \in Nat /\ event' = NoEvent /\ recorded' = recorded
  BY DEF Send, RoundTripInv, toolVars, fileVars
<1> QED  BY <1>11, <1>12, <1>13 DEF RoundTripInv, InFlight, FramesRoundTrip

LEMMA WriteRoundTrip ==
  ASSUME SixteenBits, RoundTripInv, Write
  PROVE  RoundTripInv'
<1>1. event' = NoEvent /\ cycle' = cycle /\ recorded' = recorded
  BY DEF Write, fileVars
<1>2. CASE hurt'
  BY <1>1, <1>2 DEF RoundTripInv, InFlight, FramesRoundTrip
<1>3. CASE ~hurt'
  <2>1. PICK r \in DOMAIN recorded :
          /\ hurt' = (wire' # recorded[r].frame)
          /\ sent' = [kind |-> "message", drone |-> recorded[r].drone,
                      id |-> recorded[r].id, length |-> Len(recorded[r].frame) - 12]
    BY <1>3 DEF Write
  <2>2. /\ r \in DOMAIN Ticks
        /\ recorded[r] = [at |-> Offset(r), frame |-> Frames[r],
                          drone |-> RecordedDrone(Ticks[r]), id |-> MessageOf(Ticks[r])]
    BY DEF RoundTripInv, Recorded
  <2>3. wire' = Frames[r]
    <3>1. wire' = recorded[r].frame
      BY <1>3, <2>1, Zenon
    <3>2. recorded[r].frame = Frames[r]
      BY <2>2
    <3> QED  BY <3>1, <3>2
  <2>4. DecodePacket(wire')
          = Answer(RecordedDrone(Ticks[r]), MessageOf(Ticks[r]), Len(Frames[r]) - 12)
    BY <2>2, <2>3, FrameAnswers
  <2>5. Expected'
          = Answer(RecordedDrone(Ticks[r]), MessageOf(Ticks[r]), Len(Frames[r]) - 12)
    BY <2>1, <2>2, ExpectedAnswerNext
  <2> QED  BY <1>1, <2>4, <2>5 DEF RoundTripInv, InFlight, FramesRoundTrip
<1> QED  BY <1>2, <1>3

LEMMA StepRoundTrip ==
  ASSUME SixteenBits, RoundTripInv, [ReplayNext]_allVars
  PROVE  RoundTripInv'
<1>1. CASE Line /\ UNCHANGED toolVars
  <2>1. hurt' = TRUE /\ cycle' = cycle /\ recorded' = recorded
    BY <1>1 DEF Line, FlipBit, Truncate, toolVars, fileVars
  <2> QED  BY <2>1 DEF RoundTripInv, InFlight, FramesRoundTrip
<1>2. ASSUME NEW d \in Drones, Send(d), UNCHANGED toolVars PROVE RoundTripInv'
  BY <1>2, SendRoundTrip
<1>3. CASE Receive /\ UNCHANGED toolVars
  <2>1. /\ event' = DecodePacket(wire) /\ wire' = <<>> /\ wire # <<>>
        /\ cycle' = cycle /\ sent' = sent /\ hurt' = hurt /\ recorded' = recorded
    BY <1>3 DEF Receive, toolVars, fileVars
  <2>2. Expected' = Expected
    BY <2>1, ExpectedAnswer, ExpectedAnswerNext
  <2> QED  BY <2>1, <2>2 DEF RoundTripInv, InFlight, FramesRoundTrip
<1>4. CASE Write
  BY <1>4, WriteRoundTrip
<1>5. CASE UNCHANGED <<vars, fileVars>>
  <2>1. /\ event' = event /\ wire' = wire /\ cycle' = cycle /\ sent' = sent /\ hurt' = hurt
        /\ recorded' = recorded
    BY <1>5 DEF vars, fileVars
  <2>2. Expected' = Expected
    BY <2>1, ExpectedAnswer, ExpectedAnswerNext
  <2> QED  BY <2>1, <2>2 DEF RoundTripInv, InFlight, FramesRoundTrip
<1>6. UNCHANGED allVars => UNCHANGED <<vars, fileVars>>
  BY DEF allVars, toolVars
<1>7. Open \/ Interrupted \/ ReadRecord \/ ReadFails \/ NextPass \/ Signal => UNCHANGED <<vars, fileVars>>
  BY DEF Open, Interrupted, ReadRecord, ReadFails, NextPass, Signal
<1> QED  BY <1>1, <1>2, <1>3, <1>4, <1>5, <1>6, <1>7 DEF ReplayNext, ToolStep

(* What arrives as it was sent is decoded to what its sender encoded: the  *)
(* simulator or the replay tool, with full payloads or cut ones, for every *)
(* state of a drone and every capture, whatever 16 bits the checksum of a  *)
(* frame is (simulator/main.go:316-452, replay/generate.go:107-190,        *)
(* parser.go:68-359, validate.go:9-50).                                    *)
THEOREM RoundTrip == SixteenBits /\ Spec => []FramesRoundTrip
<1>1. ASSUME ReplayInit PROVE RoundTripInv
  BY <1>1 DEF ReplayInit, Init, RoundTripInv, InFlight, FramesRoundTrip, NoEvent
<1>2. SixteenBits /\ RoundTripInv /\ [ReplayNext]_allVars => RoundTripInv'
  BY StepRoundTrip
<1>3. RoundTripInv => FramesRoundTrip
  BY DEF RoundTripInv
<1>4. SUFFICES ASSUME SixteenBits PROVE Spec => []FramesRoundTrip
  OBVIOUS
<1>5. RoundTripInv /\ [ReplayNext]_allVars => RoundTripInv'
  BY <1>2, <1>4
<1> QED  BY <1>1, <1>3, <1>5, PTL DEF Spec
-----------------------------------------------------------------------------
(* The capture: where its records are, and what is left of them in a file  *)
(* that was cut off or whose length field was damaged.                     *)

LEMMA FramesType ==
  ASSUME SixteenBits, NEW r \in 1 .. Len(Ticks)
  PROVE  /\ Frames[r] \in Seq(Byte) /\ Frames[r] \in Bytes(Len(Frames[r]))
         /\ Len(Frames[r]) \in Nat /\ 21 <= Len(Frames[r]) /\ Len(Frames[r]) <= 48
<1>1. r \in DOMAIN Ticks
  BY TicksType
<1> QED  BY <1>1, FrameAnswers, InBytes

(* A record reads as its length and its frame. *)
LEMMA RecordLayout ==
  ASSUME NEW n \in Nat, NEW f \in Bytes(n)
  PROVE  /\ Record(f) \in Bytes(6 + n)
         /\ Holds(Record(f), 4, PutUint16(n)) /\ Holds(Record(f), 6, f)
<1>1. PICK a : a = PutUint32(100000)
  OBVIOUS
<1>2. PICK b : b = PutUint16(n)
  OBVIOUS
<1>3. a \in Bytes(4) /\ b \in Bytes(2)
  BY <1>1, <1>2, PutBytes, SMT
<1>4. PICK h : Joined(h, a, b)
  BY DEF Joined
<1>5. PICK u : Joined(u, h, f)
  BY DEF Joined
<1>6. h \in Bytes(6) /\ Holds(h, 4, b)
  <2>1. h \in Bytes(4 + 2) /\ Holds(h, 4, b)
    BY <1>3, <1>4, CatHolds, InBytes
  <2> QED  BY <2>1
<1>7. u \in Bytes(6 + n) /\ Holds(u, 6, f)
  BY <1>5, <1>6, CatHolds, InBytes
<1>8. Holds(u, 4, b)
  BY <1>5, <1>6, HoldsKept
<1>9. Record(f) = u
  <2>1. Len(f) = n
    BY InBytes
  <2>2. Record(f) = Cat(Cat(a, b), f)
    BY <1>1, <1>2, <2>1, SMT DEF Record, Cat
  <2> QED  BY <1>4, <1>5, <2>2 DEF Joined
<1> QED  BY <1>2, <1>7, <1>8, <1>9

LEMMA WrittenType ==
  ASSUME SixteenBits
  PROVE  /\ Written[0] = <<>>
         /\ \A r \in 0 .. Len(Ticks) : Written[r] \in Seq(Byte)
         /\ \A r \in 1 .. Len(Ticks) : Joined(Written[r], Written[r - 1], Record(Frames[r]))
<1> DEFINE N == Len(Ticks)
           S == Seq(Byte)
           Files(w) == [r \in 0 .. N |->
                          IF r = 0 THEN <<>> ELSE w[r - 1] \o Record(Frames[r])]
           h == [r \in 1 .. N |-> [x \in S |-> Cat(x, Record(Frames[r]))]]
<1>1. N \in Nat /\ <<>> \in S
  BY TicksType
<1>2. \A r \in 1 .. N : Record(Frames[r]) \in S
  BY FramesType, RecordLayout, InBytes
<1>3. \A r \in 1 .. N : \A x \in S : Cat(x, Record(Frames[r])) \in S
  BY <1>2 DEF Cat
<1>4. h \in [1 .. N -> [S -> S]]
  BY <1>3
<1>5. \E f \in [0 .. N -> S] : f[0] = <<>> /\ \A n \in 1 .. N : f[n] = h[n][f[n - 1]]
  <2> HIDE DEF h, S, N
  <2> QED  BY <1>1, <1>4, Recursion
<1>6. PICK f \in [0 .. N -> S] : f[0] = <<>> /\ \A n \in 1 .. N : f[n] = h[n][f[n - 1]]
  BY <1>5
<1>7. \A n \in 1 .. N : f[n] = Cat(f[n - 1], Record(Frames[n]))
  <2> SUFFICES ASSUME NEW n \in 1 .. N PROVE f[n] = Cat(f[n - 1], Record(Frames[n]))
    OBVIOUS
  <2>1. f[n - 1] \in S
    BY <1>1
  <2> QED  BY <1>6, <2>1
<1>8. Files(f) = f
  <2>1. ASSUME NEW r \in 0 .. N PROVE Files(f)[r] = f[r]
    <3>1. CASE r = 0
      BY <1>6, <3>1
    <3>2. CASE r # 0
      <4>1. r \in 1 .. N
        BY <1>1, <3>2
      <4>2. Files(f)[r] = f[r - 1] \o Record(Frames[r])
        BY <3>2
      <4> QED  BY <1>7, <4>1, <4>2, Zenon DEF Cat
    <3> QED  BY <3>1, <3>2
  <2> QED  BY <2>1
<1>9. Written = CHOOSE w : w = Files(w)
  BY Zenon DEF Written
<1>10. Written = Files(Written)
  <2> HIDE DEF Files
  <2> QED  BY <1>8, <1>9
<1>11. Written[0] = <<>>
  BY <1>1, <1>10
<1>12. ASSUME NEW r \in 1 .. N PROVE Written[r] = Cat(Written[r - 1], Record(Frames[r]))
  <2>1. r \in 0 .. N /\ r # 0
    BY <1>1
  <2>2. Files(Written)[r] = Written[r - 1] \o Record(Frames[r])
    BY <2>1
  <2> QED  BY <1>10, <2>2, Zenon DEF Cat
<1> DEFINE P == {k \in Nat : k <= N => Written[k] \in S}
<1>13. 0 \in P
  BY <1>1, <1>11
<1>14. ASSUME NEW k \in Nat, k \in P PROVE k + 1 \in P
  <2>1. SUFFICES ASSUME k + 1 <= N PROVE Written[k + 1] \in S
    OBVIOUS
  <2>2. k + 1 \in 1 .. N /\ (k + 1) - 1 = k /\ Written[k] \in S
    BY <1>1, <1>14, <2>1
  <2>3. Written[k + 1] = Cat(Written[k], Record(Frames[k + 1]))
    BY <1>12, <2>2
  <2> QED  BY <1>3, <2>2, <2>3
<1>15. \A k \in Nat : k \in P
  <2> HIDE DEF P
  <2> QED  BY <1>13, <1>14, NatSetInduction
<1>16. \A r \in 0 .. N : Written[r] \in S
  BY <1>1, <1>15
<1> QED  BY <1>11, <1>12, <1>16 DEF Joined

(* Each record ends where the next one starts. *)
LEMMA Offsets ==
  ASSUME SixteenBits
  PROVE  /\ Offset(1) = 0
         /\ \A r \in 1 .. Len(Ticks) : /\ Offset(r) \in Nat
                                       /\ Offset(r + 1) = Offset(r) + 6 + Len(Frames[r])
         /\ Offset(Len(Ticks) + 1) = Len(Capture) /\ Len(Capture) \in Nat
         /\ Capture \in Seq(Byte)
<1>1. PICK n \in Nat : n = Len(Ticks)
  BY TicksType
<1>2. \A r \in 1 .. n + 1 : Offset(r) = Len(Written[r - 1]) /\ Written[r - 1] \in Seq(Byte)
  BY <1>1, WrittenType DEF Offset
<1>3. ASSUME NEW r \in 1 .. n
      PROVE  Offset(r) \in Nat /\ Offset(r + 1) = Offset(r) + 6 + Len(Frames[r])
  <2>1. PICK len \in Nat : len = Len(Frames[r]) /\ Frames[r] \in Bytes(len)
    BY <1>1, FramesType
  <2>2. PICK s, u, t : s = Written[r - 1] /\ u = Written[r] /\ t = Record(Frames[r])
    OBVIOUS
  <2>3. t \in Bytes(6 + len)
    BY <2>1, <2>2, RecordLayout
  <2>4. s \in Seq(Byte) /\ Joined(u, s, t)
    BY <1>1, <1>2, <2>2, WrittenType
  <2>5. Len(u) = Len(s) + (6 + len)
    BY <2>1, <2>3, <2>4, CatHolds, InBytes
  <2>6. Offset(r) = Len(s) /\ Len(s) \in Nat
    BY <1>2, <2>2, <2>4
  <2>7. Offset(r + 1) = Len(u)
    <3>1. (r + 1) - 1 = r
      OBVIOUS
    <3> QED  BY <2>2, <3>1 DEF Offset
  <2>8. PICK k \in Nat : k = Len(s)
    BY <2>6
  <2>9. Offset(r) = k /\ Offset(r + 1) = k + 6 + len
    BY <2>5, <2>6, <2>7, <2>8
  <2> QED  BY <2>1, <2>9
<1>4. Capture = Written[n] /\ Written[n] \in Seq(Byte) /\ Offset(n + 1) = Len(Written[n])
  <2>1. n \in 0 .. n /\ (n + 1) - 1 = n
    BY <1>1
  <2> QED  BY <1>1, <2>1, WrittenType DEF Capture, Offset
<1>5. Offset(1) = 0
  BY WrittenType DEF Offset
<1> QED  BY <1>1, <1>3, <1>4, <1>5

LEMMA OffsetsRise ==
  ASSUME SixteenBits, NEW q \in Nat, NEW r \in Nat, 1 <= q, q < r, r <= Len(Ticks) + 1
  PROVE  Offset(q) < Offset(r) /\ Offset(q + 1) <= Offset(r)
<1>1. PICK n \in Nat : n = Len(Ticks)
  BY TicksType
<1> DEFINE P == {k \in Nat : q + 1 + k <= n + 1 => Offset(q + 1) <= Offset(q + 1 + k)}
<1>2. ASSUME NEW k \in Nat, 1 <= k, k <= n
      PROVE  /\ Offset(k) \in Nat /\ Offset(k + 1) \in Nat
             /\ Offset(k) < Offset(k + 1)
  <2>1. PICK len \in Nat : len = Len(Frames[k])
    BY <1>1, <1>2, FramesType
  <2> QED  BY <1>1, <1>2, <2>1, Offsets
<1>3. 0 \in P
  <2>1. SUFFICES ASSUME q + 1 <= n + 1 PROVE Offset(q + 1) <= Offset(q + 1 + 0)
    OBVIOUS
  <2>2. Offset(q + 1) \in Nat /\ q + 1 + 0 = q + 1
    BY <1>2, <2>1
  <2> QED  BY <2>2
<1>4. ASSUME NEW k \in Nat, k \in P PROVE k + 1 \in P
  <2>1. SUFFICES ASSUME q + 1 + (k + 1) <= n + 1
                 PROVE  Offset(q + 1) <= Offset(q + 1 + (k + 1))
    OBVIOUS
  <2>2. PICK j \in Nat : j = q + 1 + k
    OBVIOUS
  <2>3. j <= n /\ 1 <= j /\ j + 1 = q + 1 + (k + 1)
    BY <2>1, <2>2
  <2>4. Offset(q + 1) <= Offset(j)
    BY <1>4, <2>2, <2>3
  <2>5. Offset(j) \in Nat /\ Offset(j + 1) \in Nat /\ Offset(j) < Offset(j + 1)
    BY <1>2, <2>3
  <2>6. Offset(q + 1) \in Nat
    BY <1>1, <1>2
  <2> QED  BY <2>3, <2>4, <2>5, <2>6
<1>5. \A k \in Nat : k \in P
  <2> HIDE DEF P
  <2> QED  BY <1>3, <1>4, NatSetInduction
<1>6. PICK k \in Nat : q + 1 + k = r
  <2>1. r - (q + 1) \in Nat /\ q + 1 + (r - (q + 1)) = r
    OBVIOUS
  <2> QED  BY <2>1
<1>7. Offset(q + 1) <= Offset(r)
  <2>1. k \in P
    BY <1>5
  <2> QED  BY <1>1, <1>6, <2>1
<1>8. Offset(q) \in Nat /\ Offset(q + 1) \in Nat /\ Offset(q) < Offset(q + 1)
  BY <1>1, <1>2
<1>9. Offset(r) \in Nat
  <2>1. PICK j \in Nat : j + 1 = r /\ 1 <= j /\ j <= n
    <3>1. r - 1 \in Nat /\ (r - 1) + 1 = r /\ 1 <= r - 1 /\ r - 1 <= n
      BY <1>1
    <3> QED  BY <3>1
  <2> QED  BY <1>2, <2>1
<1> QED  BY <1>7, <1>8, <1>9

(* The capture has every record where it was written. *)
LEMMA CaptureHolds ==
  ASSUME SixteenBits, NEW r \in 1 .. Len(Ticks)
  PROVE  Holds(Capture, Offset(r), Record(Frames[r]))
<1>1. PICK n \in Nat : n = Len(Ticks)
  BY TicksType
<1> DEFINE P == {k \in Nat : r + k <= n => Holds(Written[r + k], Offset(r), Record(Frames[r]))}
<1>2. ASSUME NEW k \in 1 .. n
      PROVE  /\ Written[k - 1] \in Seq(Byte) /\ \E len \in Nat : Record(Frames[k]) \in Bytes(len)
             /\ Joined(Written[k], Written[k - 1], Record(Frames[k]))
  <2>1. Written[k - 1] \in Seq(Byte) /\ Joined(Written[k], Written[k - 1], Record(Frames[k]))
    BY <1>1, WrittenType
  <2>2. PICK len \in Nat : Frames[k] \in Bytes(len)
    BY <1>1, FramesType
  <2>3. Record(Frames[k]) \in Bytes(6 + len) /\ 6 + len \in Nat
    BY <2>2, RecordLayout
  <2> QED  BY <2>1, <2>3
<1>3. 0 \in P
  <2>1. PICK s, u, t : s = Written[r - 1] /\ u = Written[r] /\ t = Record(Frames[r])
    OBVIOUS
  <2>2. s \in Seq(Byte) /\ t \in Seq(Byte) /\ Joined(u, s, t)
    BY <1>1, <1>2, <2>1, InBytes
  <2>3. Holds(u, Len(s), t)
    BY <2>2, CatHolds
  <2>4. Offset(r) = Len(s) /\ r + 0 = r
    BY <2>1 DEF Offset
  <2> QED  BY <2>1, <2>3, <2>4
<1>4. ASSUME NEW k \in Nat, k \in P PROVE k + 1 \in P
  <2>1. SUFFICES ASSUME r + (k + 1) <= n
                 PROVE  Holds(Written[r + (k + 1)], Offset(r), Record(Frames[r]))
    OBVIOUS
  <2>2. PICK j \in Nat : j = r + (k + 1)
    OBVIOUS
  <2>3. j \in 1 .. n /\ j - 1 = r + k /\ r + k <= n
    BY <2>1, <2>2
  <2>4. Holds(Written[j - 1], Offset(r), Record(Frames[r]))
    BY <1>4, <2>3
  <2>5. Holds(Written[j], Offset(r), Record(Frames[r]))
    BY <1>2, <2>3, <2>4, HoldsKept
  <2> QED  BY <2>2, <2>5
<1>5. \A k \in Nat : k \in P
  <2> HIDE DEF P
  <2> QED  BY <1>3, <1>4, NatSetInduction
<1>6. n - r \in P /\ r + (n - r) = n
  <2>1. n - r \in Nat /\ r + (n - r) = n
    BY <1>1
  <2> HIDE DEF P
  <2> QED  BY <1>5, <2>1
<1> QED  BY <1>1, <1>6 DEF Capture

(* What a file has before byte j is there in every file that agrees with   *)
(* it that far.                                                            *)
LEMMA HoldsBefore ==
  ASSUME NEW s, NEW k, NEW t, Holds(s, k, t), NEW j \in Nat, k + Len(t) <= j,
         NEW u \in Seq(Byte), j <= Len(u), \A i \in 1 .. j : u[i] = s[i]
  PROVE  Holds(u, k, t)
<1>1. t \in Seq(Byte) /\ k \in Nat /\ Len(t) \in Nat
  BY DEF Holds
<1>2. k + Len(t) <= Len(u)
  BY <1>1
<1>3. ASSUME NEW i \in DOMAIN t PROVE u[k + i] = t[i]
  <2>1. k + i \in 1 .. j
    BY <1>1
  <2> QED  BY <2>1 DEF Holds
<1> QED  BY <1>1, <1>2, <1>3 DEF Holds

(* A set of numbers with everything below its members is an interval. *)
LEMMA Prefix ==
  ASSUME NEW n \in Nat, NEW S, S \subseteq 1 .. n,
         \A q, r \in 1 .. n : q < r /\ r \in S => q \in S
  PROVE  Cardinality(S) \in 0 .. n /\ S = 1 .. Cardinality(S)
<1> DEFINE P == {k \in Nat : k <= n => \E j \in 0 .. k : S \cap (1 .. k) = 1 .. j}
<1>1. 0 \in P
  <2>1. 0 \in 0 .. 0 /\ S \cap (1 .. 0) = 1 .. 0
    OBVIOUS
  <2> QED  BY <2>1
<1>2. ASSUME NEW k \in Nat, k \in P PROVE k + 1 \in P
  <2>1. SUFFICES ASSUME k + 1 <= n
                 PROVE  \E j \in 0 .. (k + 1) : S \cap (1 .. k + 1) = 1 .. j
    OBVIOUS
  <2>2. CASE k + 1 \in S
    <3>1. \A q \in 1 .. k + 1 : q \in S
      BY <2>1, <2>2
    <3>2. S \cap (1 .. k + 1) = 1 .. k + 1
      BY <3>1
    <3> QED  BY <3>2
  <2>3. CASE k + 1 \notin S
    <3>1. PICK j \in 0 .. k : S \cap (1 .. k) = 1 .. j
      BY <1>2, <2>1
    <3>2. S \cap (1 .. k + 1) = S \cap (1 .. k)
      BY <2>3
    <3> QED  BY <3>1, <3>2
  <2> QED  BY <2>2, <2>3
<1>3. n \in P
  <2> HIDE DEF P
  <2> QED  BY <1>1, <1>2, NatSetInduction
<1>4. PICK j \in 0 .. n : S \cap (1 .. n) = 1 .. j
  BY <1>3
<1>5. S = 1 .. j
  BY <1>4
<1>6. Cardinality(1 .. j) = j
  BY <1>4, FS_Interval
<1> QED  BY <1>4, <1>5, <1>6

LEMMA ReadLengths == \A n : n \in 1 .. 300 <=> n \in Nat /\ 1 <= n /\ n <= 300
<1>1. \A top \in Nat : \A n : n \in 1 .. top <=> n \in Nat /\ 1 <= n /\ n <= top
  OBVIOUS
<1>2. 300 \in Nat
  OBVIOUS
<1> QED  BY <1>1, <1>2, Zenon

(* Record k of the flight is in file f, and a pass that comes to it ends.  *)
Intact(f, k) ==
  /\ Offset(k) + 6 + Len(Frames[k]) <= Len(f)
  /\ Unsigned16(f, Offset(k) + 4) = Len(Frames[k])
  /\ Slice(f, Offset(k) + 6, Offset(k) + 6 + Len(Frames[k])) = Frames[k]

EndsAt(f, k) ==
  \/ Len(f) < Offset(k) + 6
  \/ /\ Unsigned16(f, Offset(k) + 4) \in 1 .. 300
     /\ Len(f) < Offset(k) + 6 + Unsigned16(f, Offset(k) + 4)

LEMMA HoldsRecord ==
  ASSUME SixteenBits, NEW r \in 1 .. Len(Ticks), NEW j \in Nat, Offset(r + 1) <= j,
         NEW f \in Seq(Byte), j <= Len(f), \A i \in 1 .. j : f[i] = Capture[i]
  PROVE  Intact(f, r)
<1>1. PICK len \in Nat : len = Len(Frames[r]) /\ Frames[r] \in Bytes(len) /\ len <= 48
  BY FramesType
<1>2. PICK t : t = Record(Frames[r])
  OBVIOUS
<1>3. /\ t \in Bytes(6 + len) /\ Holds(t, 4, PutUint16(len)) /\ Holds(t, 6, Frames[r])
  BY <1>1, <1>2, RecordLayout
<1>4. PICK k \in Nat : k = Offset(r) /\ Offset(r + 1) = k + 6 + len
  BY <1>1, Offsets
<1>5. Len(t) = 6 + len
  BY <1>3, InBytes
<1>6. Holds(Capture, k, t)
  BY <1>2, <1>4, CaptureHolds
<1>7. k + Len(t) <= j
  BY <1>4, <1>5
<1>8. Holds(f, k, t)
  BY <1>6, <1>7, HoldsBefore
<1>9. Holds(f, k + 4, PutUint16(len)) /\ Holds(f, k + 6, Frames[r])
  BY <1>3, <1>8, HoldsWithin
<1>10. len \in Uint16
  BY <1>1, SMT DEF Uint16, Between
<1>11. Unsigned16(f, k + 4) = len
  BY <1>4, <1>9, <1>10, Reads16
<1>12. Slice(f, k + 6, k + 6 + len) = Frames[r]
  <2>1. PICK e, x : e = k + 6 /\ x = Frames[r]
    OBVIOUS
  <2>2. Holds(f, e, x) /\ x \in Bytes(len)
    BY <1>1, <1>9, <2>1
  <2>3. Slice(f, e, e + len) = x
    BY <2>2, HoldsSlice
  <2>4. e + len = k + 6 + len
    BY <2>1
  <2> QED  BY <2>1, <2>3, <2>4
<1>13. k + 6 + len <= Len(f)
  BY <1>4
<1> QED  BY <1>1, <1>4, <1>11, <1>12, <1>13 DEF Intact

LEMMA HoldsLength ==
  ASSUME SixteenBits, NEW r \in 1 .. Len(Ticks), NEW j \in Nat, Offset(r) + 6 <= j,
         NEW f \in Seq(Byte), j <= Len(f), \A i \in 1 .. j : f[i] = Capture[i]
  PROVE  Unsigned16(f, Offset(r) + 4) = Len(Frames[r])
<1>1. PICK len \in Nat : len = Len(Frames[r]) /\ Frames[r] \in Bytes(len) /\ len <= 48
  BY FramesType
<1>2. PICK t : t = Record(Frames[r])
  OBVIOUS
<1>3. Holds(t, 4, PutUint16(len))
  BY <1>1, <1>2, RecordLayout
<1>4. PICK k \in Nat : k = Offset(r)
  BY Offsets
<1>5. Holds(Capture, k, t)
  BY <1>2, <1>4, CaptureHolds
<1>6. Holds(Capture, k + 4, PutUint16(len))
  BY <1>3, <1>5, HoldsWithin
<1>7. PutUint16(len) \in Bytes(2)
  BY PutBytes
<1>8. (k + 4) + Len(PutUint16(len)) <= j
  <2>1. Len(PutUint16(len)) <= 2
    BY <1>7, InBytes
  <2> QED  BY <1>4, <1>7, <2>1, InBytes
<1>9. Holds(f, k + 4, PutUint16(len))
  BY <1>6, <1>8, HoldsBefore
<1>10. len \in Uint16
  BY <1>1, SMT DEF Uint16, Between
<1> QED  BY <1>1, <1>4, <1>9, <1>10, Reads16

(* What is left in the file, of the records that damage counts as intact.  *)
FileInv ==
  /\ file \in Seq(Byte)
  /\ damage.kind \in {"cut", "length"} /\ damage.intact \in 0 .. Len(Ticks)
  /\ \A k \in 1 .. damage.intact : Intact(file, k)
  /\ damage.kind = "cut" => EndsAt(file, damage.intact + 1)

LEMMA CutFile ==
  ASSUME SixteenBits, NEW n \in 0 .. Len(Capture), CutTo(n)
  PROVE  FileInv
<1>1. PICK last \in Nat : last = Len(Ticks)
  BY TicksType
<1>2. Len(Capture) \in Nat /\ Capture \in Seq(Byte) /\ n \in Nat /\ n <= Len(Capture)
  BY Offsets
<1>3. PICK S : S = {r \in DOMAIN Ticks : Offset(r + 1) <= n}
  OBVIOUS
<1>4. file = SubSeq(Capture, 1, n) /\ damage = [kind |-> "cut", intact |-> Cardinality(S)]
  BY <1>3 DEF CutTo
<1>5. file \in Seq(Byte) /\ Len(file) = n /\ \A i \in 1 .. n : file[i] = Capture[i]
  BY <1>2, <1>4
<1>6. S \subseteq 1 .. last
  BY <1>1, <1>3, TicksType
<1>7. ASSUME NEW q \in 1 .. last, NEW r \in 1 .. last, q < r, r \in S
      PROVE  q \in S
  <2>1. Offset(q + 1) \in Nat /\ Offset(r + 1) \in Nat /\ Offset(r + 1) <= n
    <3>1. PICK a \in Nat, b \in Nat : a = Len(Frames[q]) /\ b = Len(Frames[r])
      BY <1>1, FramesType
    <3>2. Offset(q + 1) = Offset(q) + 6 + a /\ Offset(r + 1) = Offset(r) + 6 + b
      BY <1>1, <3>1, Offsets
    <3>3. Offset(q) \in Nat /\ Offset(r) \in Nat
      BY <1>1, Offsets
    <3>4. Offset(r + 1) <= n
      BY <1>3, <1>7
    <3> QED  BY <3>2, <3>3, <3>4
  <2>2. Offset(q + 1) < Offset(r + 1)
    <3>1. q + 1 < r + 1 /\ 1 <= q + 1 /\ r + 1 <= last + 1
      BY <1>7
    <3> QED  BY <1>1, <3>1, OffsetsRise
  <2>3. Offset(q + 1) <= n
    BY <1>2, <2>1, <2>2
  <2> QED  BY <1>1, <1>3, <2>3, TicksType
<1>8. PICK m \in 0 .. last : m = Cardinality(S) /\ S = 1 .. m
  BY <1>6, <1>7, Prefix
<1>9. ASSUME NEW k \in 1 .. m PROVE Intact(file, k)
  <2>1. k \in 1 .. Len(Ticks) /\ Offset(k + 1) <= n
    BY <1>1, <1>3, <1>8
  <2> QED  BY <1>2, <1>5, <2>1, HoldsRecord
<1>10. EndsAt(file, m + 1)
  <2>1. CASE m = last
    <3>1. Offset(m + 1) = Len(Capture)
      BY <1>1, <2>1, Offsets
    <3>2. Len(file) < Offset(m + 1) + 6
      BY <1>2, <1>5, <3>1
    <3> QED  BY <3>2 DEF EndsAt
  <2>2. CASE m # last
    <3>1. m + 1 \in 1 .. last /\ m + 1 \notin S
      <4>1. m \in Nat /\ m < last
        BY <1>1, <2>2
      <4>2. m + 1 \in 1 .. last /\ m + 1 \notin 1 .. m
        BY <1>1, <4>1
      <4> QED  BY <1>8, <4>2, Zenon
    <3>2. PICK r \in 1 .. Len(Ticks) : r = m + 1
      BY <1>1, <3>1
    <3>3. PICK len \in Nat : len = Len(Frames[r]) /\ 21 <= len /\ len <= 48
      BY FramesType
    <3>4. PICK k \in Nat : k = Offset(r) /\ Offset(r + 1) = k + 6 + len
      BY <3>3, Offsets
    <3>5. n < k + 6 + len
      <4>1. ~(Offset(r + 1) <= n)
        BY <1>3, <3>1, <3>2, TicksType
      <4> QED  BY <1>2, <3>4, <4>1
    <3>6. CASE n < k + 6
      BY <1>5, <3>2, <3>4, <3>6 DEF EndsAt
    <3>7. CASE k + 6 <= n
      <4>1. Unsigned16(file, Offset(r) + 4) = Len(Frames[r])
        <5>1. Offset(r) + 6 <= n /\ n <= Len(file)
          BY <1>2, <1>5, <3>4, <3>7
        <5> QED  BY <1>5, <5>1, HoldsLength
      <4>2. len \in 1 .. 300
        <5>1. len \in Nat /\ 1 <= len /\ len <= 300
          BY <3>3
        <5> QED  BY <5>1, ReadLengths, Zenon
      <4> QED  BY <1>5, <3>2, <3>3, <3>4, <3>5, <4>1, <4>2 DEF EndsAt
    <3> QED  BY <1>2, <3>6, <3>7
  <2> QED  BY <2>1, <2>2
<1>11. damage.kind = "cut" /\ damage.intact = m
  BY <1>4, <1>8
<1> QED  BY <1>1, <1>5, <1>9, <1>10, <1>11 DEF FileInv

LEMMA MisreadFile ==
  ASSUME SixteenBits, NEW r \in 1 .. Len(Ticks), NEW n \in Uint16, Misreads(r, n)
  PROVE  FileInv
<1>1. Len(Capture) \in Nat /\ Capture \in Seq(Byte) /\ Offset(r) \in Nat
  BY Offsets
<1>2. PICK k \in Nat : k = Offset(r)
  BY <1>1
<1>3. n % 256 \in Byte /\ n \div 256 \in Byte
  <2>1. n \in Int /\ 0 <= n /\ n <= 65535
    BY SMT DEF Uint16, Between
  <2>2. PICK q \in Int, b \in Byte : q = n \div 256 /\ b = n % 256 /\ n = 256 * q + b
    BY <2>1, Digit
  <2>3. q \in Byte
    BY <2>1, <2>2, SMT DEF Byte, Between
  <2> QED  BY <2>2, <2>3
<1>4. PICK a \in Byte, b \in Byte : a = n % 256 /\ b = n \div 256
  BY <1>3
<1>5. file = [Capture EXCEPT ![k + 5] = a, ![k + 6] = b]
  BY <1>2, <1>4 DEF Misreads
<1>6. file \in Seq(Byte) /\ Len(file) = Len(Capture)
  <2>1. PICK len \in Nat : len = Len(Capture)
    BY <1>1
  <2>2. Capture \in [1 .. len -> Byte]
    BY <1>1, <2>1
  <2>3. file \in [1 .. len -> Byte]
    BY <1>5, <2>2
  <2>4. file \in Seq(Byte)
    BY <2>1, <2>3
  <2>5. DOMAIN file = 1 .. len
    BY <2>3
  <2> QED  BY <2>1, <2>4, <2>5
<1>7. ASSUME NEW i \in 1 .. Len(Capture), i <= k PROVE file[i] = Capture[i]
  <2>1. i \in DOMAIN Capture /\ i # k + 5 /\ i # k + 6
    BY <1>1, <1>7
  <2> QED  BY <1>5, <2>1
<1>8. k <= Len(Capture)
  <2>1. r \in Nat /\ 1 <= r /\ r < Len(Ticks) + 1 /\ Len(Ticks) + 1 \in Nat
    BY TicksType
  <2>2. Offset(r) < Offset(Len(Ticks) + 1)
    BY <2>1, OffsetsRise
  <2> QED  BY <1>1, <1>2, <2>2, Offsets
<1>9. ASSUME NEW q \in 1 .. (r - 1) PROVE Intact(file, q)
  <2>1. q \in Nat /\ 1 <= q /\ q < r /\ r \in Nat /\ r <= Len(Ticks) + 1 /\ q \in 1 .. Len(Ticks)
    BY TicksType
  <2>2. Offset(q + 1) <= k
    BY <1>2, <2>1, OffsetsRise
  <2>3. k <= Len(file) /\ \A i \in 1 .. k : file[i] = Capture[i]
    BY <1>1, <1>6, <1>7, <1>8
  <2> QED  BY <1>6, <2>1, <2>2, <2>3, HoldsRecord
<1>10. damage.kind = "length" /\ damage.intact = r - 1
  BY DEF Misreads
<1>11. r - 1 \in 0 .. Len(Ticks)
  BY TicksType
<1> QED  BY <1>6, <1>9, <1>10, <1>11 DEF FileInv
-----------------------------------------------------------------------------
(* ReplaysInOrder: the tool is at the record behind the last one it wrote, *)
(* as long as there is an intact one or nothing but the end of the file;   *)
(* behind a damaged length field it may be anywhere.                       *)
ToolType ==
  /\ tool \in [pc : {"open", "read", "write", "passed", "exited"}, pos : Nat,
               length : Nat, loop : BOOLEAN]
  /\ wrote \in Seq(Nat)

AtRecord ==
  Len(wrote) < damage.intact \/ damage.kind = "cut" => tool.pos = Offset(Len(wrote) + 1)

InOrderInv ==
  /\ recorded = Recorded
  /\ FileInv
  /\ ToolType
  /\ ReplaysInOrder
  /\ tool.pc \in {"read", "write"} => AtRecord
  /\ tool.pc = "write" =>
       /\ damage.kind = "cut" => Len(wrote) < damage.intact
       /\ Len(wrote) < damage.intact => tool.length = Len(Frames[Len(wrote) + 1])

LEMMA InitInOrder ==
  ASSUME SixteenBits, ReplayInit
  PROVE  InOrderInv
<1>1. wrote = <<>> /\ recorded = Recorded /\ tool.pc \in {"open", "exited"} /\ ToolType
  <2>1. CASE sender = "simulator"
    <3>1. wrote = <<>> /\ recorded = Recorded
          /\ tool = [pc |-> "exited", pos |-> 0, length |-> 0, loop |-> FALSE]
      BY <2>1 DEF ReplayInit
    <3> QED  BY <3>1 DEF ToolType
  <2>2. CASE sender # "simulator"
    <3>1. wrote = <<>> /\ recorded = Recorded
          /\ tool \in [pc : {"open"}, pos : {0}, length : {0}, loop : BOOLEAN]
      BY <2>2 DEF ReplayInit
    <3> QED  BY <3>1 DEF ToolType
  <2> QED  BY <2>1, <2>2
<1>2. FileInv
  <2>1. ASSUME NEW n \in Cuts, CutTo(n) PROVE FileInv
    <3>1. n \in 0 .. Len(Capture)
      BY CaptureAssumption
    <3> QED  BY <2>1, <3>1, CutFile
  <2>2. ASSUME NEW r \in DOMAIN Ticks, NEW n \in BadLengths(Len(Frames[r])), Misreads(r, n)
        PROVE  FileInv
    <3>1. r \in DOMAIN Frames /\ r \in 1 .. Len(Ticks)
      BY TicksType DEF Frames
    <3>2. n \in Uint16
      BY <3>1, CaptureAssumption
    <3> QED  BY <2>2, <3>1, <3>2, MisreadFile
  <2>3. ASSUME CutTo(0) PROVE FileInv
    <3>1. 0 \in 0 .. Len(Capture)
      BY Offsets
    <3> QED  BY <2>3, <3>1, CutFile
  <2> QED  BY <2>1, <2>2, <2>3 DEF ReplayInit
<1>3. ReplaysInOrder
  <2>1. damage.intact \in Nat
    BY <1>2, TicksType DEF FileInv
  <2> QED  BY <1>1, <2>1 DEF ReplaysInOrder
<1> QED  BY <1>1, <1>2, <1>3 DEF InOrderInv

LEMMA OpenInOrder ==
  ASSUME SixteenBits, InOrderInv, Open
  PROVE  InOrderInv'
<1>1. /\ wrote' = <<>> /\ recorded' = recorded /\ file' = file /\ damage' = damage
      /\ tool' \in [pc : {"read", "exited"}, pos : Nat, length : Nat, loop : BOOLEAN]
      /\ tool'.pc = "read" => tool'.pos = 0
  <2>1. tool \in [pc : {"open", "read", "write", "passed", "exited"}, pos : Nat,
                  length : Nat, loop : BOOLEAN]
    BY DEF InOrderInv, ToolType
  <2>2. CASE tool' = [tool EXCEPT !.pc = "read", !.pos = 0]
    <3>1. /\ tool' \in [pc : {"read", "exited"}, pos : Nat, length : Nat, loop : BOOLEAN]
          /\ tool'.pos = 0
      BY <2>1, <2>2
    <3> QED  BY <3>1 DEF Open, fileVars
  <2>3. CASE tool' = [tool EXCEPT !.pc = "exited"]
    <3>1. /\ tool' \in [pc : {"read", "exited"}, pos : Nat, length : Nat, loop : BOOLEAN]
          /\ tool'.pc = "exited"
      BY <2>1, <2>3
    <3> QED  BY <3>1 DEF Open, fileVars
  <2> QED  BY <2>2, <2>3 DEF Open
<1>2. FileInv'
  BY <1>1 DEF InOrderInv, FileInv, Intact, EndsAt
<1>3. ToolType'
  BY <1>1 DEF ToolType
<1>4. damage.intact \in Nat
  BY TicksType DEF InOrderInv, FileInv
<1>5. ReplaysInOrder'
  BY <1>1, <1>4 DEF ReplaysInOrder
<1>6. tool'.pc = "read" => AtRecord'
  BY <1>1, Offsets DEF AtRecord
<1>7. tool'.pc # "write"
  BY <1>1
<1> QED  BY <1>1, <1>2, <1>3, <1>5, <1>6, <1>7 DEF InOrderInv

(* The tool stops: nothing is written, and no more of the file is read. *)
LEMMA StopInOrder ==
  ASSUME InOrderInv, NEW pc \in {"open", "exited"}, tool' = [tool EXCEPT !.pc = pc],
         UNCHANGED <<recorded, file, damage, wrote>>
  PROVE  InOrderInv'
<1>1. tool'.pc = pc /\ ToolType'
  BY DEF InOrderInv, ToolType
<1>2. FileInv'
  BY DEF InOrderInv, FileInv, Intact, EndsAt
<1>3. ReplaysInOrder'
  BY <1>1 DEF InOrderInv, ReplaysInOrder
<1> QED  BY <1>1, <1>2, <1>3 DEF InOrderInv

LEMMA StutterInOrder ==
  ASSUME InOrderInv, UNCHANGED <<recorded, file, damage, tool, wrote>>
  PROVE  InOrderInv'
<1>1. FileInv' /\ ToolType' /\ ReplaysInOrder' /\ (AtRecord' <=> AtRecord)
  BY DEF InOrderInv, FileInv, Intact, EndsAt, ToolType, ReplaysInOrder, AtRecord
<1> QED  BY <1>1 DEF InOrderInv

LEMMA ReadInOrder ==
  ASSUME SixteenBits, InOrderInv, ReadRecord
  PROVE  InOrderInv'
<1>1. /\ tool.pc = "read" /\ recorded' = recorded /\ file' = file /\ damage' = damage
      /\ wrote' = wrote
  BY DEF ReadRecord, fileVars
<1>2. FileInv' /\ recorded' = Recorded
  BY <1>1 DEF InOrderInv, FileInv, Intact, EndsAt
<1>3. tool \in [pc : {"open", "read", "write", "passed", "exited"}, pos : Nat,
                length : Nat, loop : BOOLEAN]
  BY DEF InOrderInv, ToolType
<1>4. PICK n \in Nat : n = Len(wrote)
  BY DEF InOrderInv, ToolType
<1>5. PICK m \in 0 .. Len(Ticks) : m = damage.intact
  BY DEF InOrderInv, FileInv
<1>6. PICK p \in Nat, size \in Nat : p = tool.pos /\ size = Len(file)
  BY <1>3 DEF InOrderInv, FileInv
<1>7. PICK len : len = LengthRead /\ len = Unsigned16(file, p + 4)
  BY <1>6 DEF LengthRead
<1>8. \/ size - p < 6 /\ tool' = [tool EXCEPT !.pc = "passed"]
      \/ ~(size - p < 6) /\ len \notin 1 .. 300 /\ tool' = [tool EXCEPT !.pos = @ + 6]
      \/ /\ ~(size - p < 6) /\ len \in 1 .. 300 /\ size - p < 6 + len
         /\ tool' = [tool EXCEPT !.pc = "passed"]
      \/ /\ ~(size - p < 6) /\ len \in 1 .. 300 /\ ~(size - p < 6 + len)
         /\ tool' = [tool EXCEPT !.pc = "write", !.length = len]
  <2>1. PICK left : left = Remaining /\ left = size - p
    BY <1>6, Zenon DEF Remaining
  <2>2. tool' = IF left < 6 THEN [tool EXCEPT !.pc = "passed"]
                ELSE IF len \notin 1 .. 300 THEN [tool EXCEPT !.pos = @ + 6]
                ELSE IF left < 6 + len THEN [tool EXCEPT !.pc = "passed"]
                ELSE [tool EXCEPT !.pc = "write", !.length = len]
    BY <1>7, <2>1, Zenon DEF ReadRecord
  <2>3. \/ left < 6 /\ tool' = [tool EXCEPT !.pc = "passed"]
        \/ ~(left < 6) /\ len \notin 1 .. 300 /\ tool' = [tool EXCEPT !.pos = @ + 6]
        \/ /\ ~(left < 6) /\ len \in 1 .. 300 /\ left < 6 + len
           /\ tool' = [tool EXCEPT !.pc = "passed"]
        \/ /\ ~(left < 6) /\ len \in 1 .. 300 /\ ~(left < 6 + len)
           /\ tool' = [tool EXCEPT !.pc = "write", !.length = len]
    BY <2>2, Zenon
  <2> QED  BY <2>1, <2>3, Zenon
<1>9. tool' \in [pc : {"read", "write", "passed"}, pos : Nat, length : Nat, loop : BOOLEAN]
  <2>1. CASE tool' = [tool EXCEPT !.pc = "passed"]
    BY <1>3, <2>1
  <2>2. CASE tool' = [tool EXCEPT !.pos = @ + 6]
    BY <1>1, <1>3, <2>2
  <2>3. CASE len \in 1 .. 300 /\ tool' = [tool EXCEPT !.pc = "write", !.length = len]
    <3>1. len \in Nat
      BY <2>3, ReadLengths, Zenon
    <3>2. tool' = [tool EXCEPT !.pc = "write", !.length = len]
      BY <2>3, Zenon
    <3> QED  BY <1>3, <3>1, <3>2
  <2> QED  BY <1>8, <2>1, <2>2, <2>3, Zenon
<1>10. ToolType'
  BY <1>1, <1>9 DEF InOrderInv, ToolType
<1>11. CASE n < m
  <2>1. p = Offset(n + 1)
    BY <1>1, <1>4, <1>5, <1>6, <1>11 DEF InOrderInv, AtRecord
  <2>2. PICK r \in 1 .. Len(Ticks) : r = n + 1 /\ r \in 1 .. m
    <3>1. n + 1 \in 1 .. m /\ n + 1 \in 1 .. Len(Ticks)
      BY <1>5, <1>11, TicksType
    <3> QED  BY <3>1
  <2>3. PICK l \in Nat : l = Len(Frames[r]) /\ 21 <= l /\ l <= 48
    BY FramesType
  <2>4. p + 6 + l <= size /\ len = l
    BY <1>5, <1>6, <1>7, <2>1, <2>2, <2>3 DEF InOrderInv, FileInv, Intact
  <2>5. ~(size - p < 6) /\ ~(size - p < 6 + len)
    <3>1. p + 6 + l <= size
      BY <2>4
    <3>2. ~(size - p < 6) /\ ~(size - p < 6 + l)
      BY <3>1
    <3> QED  BY <2>4, <3>2, Zenon
  <2>6. len \in 1 .. 300
    <3>1. len \in Nat /\ 1 <= len /\ len <= 300
      BY <2>3, <2>4
    <3> QED  BY <3>1, ReadLengths, Zenon
  <2>7. tool' = [tool EXCEPT !.pc = "write", !.length = len]
    BY <1>8, <2>5, <2>6, Zenon
  <2>8. tool'.pc = "write" /\ tool'.pos = p /\ tool'.length = l
    BY <1>3, <1>6, <2>4, <2>7
  <2>9. AtRecord'
    BY <1>1, <1>4, <2>1, <2>8 DEF AtRecord
  <2>10. ReplaysInOrder'
    BY <1>1, <2>8 DEF InOrderInv, ReplaysInOrder
  <2> QED  BY <1>1, <1>2, <1>4, <1>5, <1>10, <1>11, <2>2, <2>3, <2>8, <2>9, <2>10 DEF InOrderInv
<1>12. CASE ~(n < m) /\ damage.kind = "cut"
  <2>1. n = m
    BY <1>4, <1>5, <1>12 DEF InOrderInv, ReplaysInOrder
  <2>2. p = Offset(m + 1)
    BY <1>1, <1>4, <1>6, <1>12, <2>1 DEF InOrderInv, AtRecord
  <2>3. size < p + 6 \/ (len \in 1 .. 300 /\ size < p + 6 + len)
    <3>1. EndsAt(file, m + 1)
      BY <1>5, <1>12 DEF InOrderInv, FileInv
    <3> QED  BY <1>6, <1>7, <2>2, <3>1, Zenon DEF EndsAt
  <2>4. size - p < 6 \/ (len \in 1 .. 300 /\ size - p < 6 + len)
    <3>1. CASE size < p + 6
      BY <3>1
    <3>2. CASE len \in 1 .. 300 /\ size < p + 6 + len
      <4>1. len \in Nat /\ size < p + 6 + len
        BY <3>2, ReadLengths, Zenon
      <4>2. size - p < 6 + len
        BY <4>1
      <4> QED  BY <3>2, <4>2, Zenon
    <3> QED  BY <2>3, <3>1, <3>2, Zenon
  <2>5. tool' = [tool EXCEPT !.pc = "passed"]
    BY <1>8, <2>4, Zenon
  <2>6. tool'.pc = "passed"
    BY <1>3, <2>5
  <2>7. ReplaysInOrder'
    BY <1>1, <1>4, <1>5, <2>1, <2>6 DEF InOrderInv, ReplaysInOrder
  <2> QED  BY <1>1, <1>2, <1>10, <2>6, <2>7 DEF InOrderInv
<1>13. CASE ~(n < m) /\ damage.kind # "cut"
  <2>1. ReplaysInOrder'
    BY <1>1, <1>4, <1>5, <1>13 DEF InOrderInv, ReplaysInOrder
  <2>2. AtRecord'
    BY <1>1, <1>4, <1>5, <1>13 DEF AtRecord
  <2> QED  BY <1>1, <1>2, <1>4, <1>5, <1>10, <1>13, <2>1, <2>2 DEF InOrderInv
<1> QED  BY <1>11, <1>12, <1>13

LEMMA WriteInOrder ==
  ASSUME SixteenBits, InOrderInv, Write
  PROVE  InOrderInv'
<1>1. tool.pc = "write" /\ recorded' = recorded /\ file' = file /\ damage' = damage
  BY DEF Write, fileVars
<1>2. FileInv' /\ recorded' = Recorded
  BY <1>1 DEF InOrderInv, FileInv, Intact, EndsAt
<1>3. tool \in [pc : {"open", "read", "write", "passed", "exited"}, pos : Nat,
                length : Nat, loop : BOOLEAN]
  BY DEF InOrderInv, ToolType
<1>4. PICK n \in Nat : n = Len(wrote)
  BY DEF InOrderInv, ToolType
<1>5. PICK m \in 0 .. Len(Ticks) : m = damage.intact
  BY DEF InOrderInv, FileInv
<1>6. PICK p \in Nat, len \in Nat : p = tool.pos /\ len = tool.length
  BY <1>3
<1>7. PICK starts, first :
        /\ starts = {r \in DOMAIN recorded : recorded[r].at = p}
        /\ first = CHOOSE r \in {q \in DOMAIN recorded : recorded[q].at = tool.pos} : TRUE
        /\ starts # {} => first \in starts
  <2> DEFINE S == {r \in DOMAIN recorded : recorded[r].at = tool.pos}
  <2>1. S # {} => (CHOOSE r \in S : TRUE) \in S
    <3> HIDE DEF S
    <3> QED  BY Zenon
  <2> QED  BY <1>6, <2>1, Zenon
<1>8. starts = {r \in 1 .. Len(Ticks) : Offset(r) = p}
  <2>1. DOMAIN recorded = 1 .. Len(Ticks)
    BY TicksType DEF InOrderInv, Recorded
  <2>2. \A r \in 1 .. Len(Ticks) : recorded[r].at = Offset(r)
    BY TicksType DEF InOrderInv, Recorded
  <2> QED  BY <1>7, <2>1, <2>2
<1>9. /\ wire' = Slice(file, p + 6, (p + 6) + len)
      /\ wrote' = Append(wrote, IF hurt' THEN 0 ELSE first)
      /\ tool' = [tool EXCEPT !.pc = "read", !.pos = (p + 6) + len]
      /\ starts = {} => hurt' = TRUE
      /\ starts # {} => \E r \in starts : hurt' = (wire' # recorded[r].frame)
  <2>1. wire' = Slice(file, tool.pos + 6, (tool.pos + 6) + tool.length)
    BY Zenon DEF Write
  <2>2. wrote' = Append(wrote, IF hurt' THEN 0 ELSE first)
    BY <1>6, <1>7, Zenon DEF Write
  <2>3. tool' = [tool EXCEPT !.pc = "read", !.pos = (tool.pos + 6) + tool.length]
    BY Zenon DEF Write
  <2>4. starts = {} => hurt' = TRUE
    BY <1>6, <1>7, Zenon DEF Write
  <2>5. starts # {} => \E r \in starts : hurt' = (wire' # recorded[r].frame)
    BY <1>6, <1>7, Zenon DEF Write
  <2> QED  BY <1>6, <2>1, <2>2, <2>3, <2>4, <2>5, Zenon
<1>10. PICK x : x = IF hurt' THEN 0 ELSE first
  OBVIOUS
<1>11. x \in Nat /\ wrote' = Append(wrote, x)
  <2>1. CASE hurt'
    BY <1>9, <1>10, <2>1
  <2>2. CASE ~hurt'
    <3>1. starts # {}
      BY <1>9, <2>2
    <3>2. x \in starts
      BY <1>7, <1>10, <2>2, <3>1, Zenon
    <3> QED  BY <1>8, <1>9, <1>10, <3>2
  <2> QED  BY <2>1, <2>2
<1>12. /\ tool'.pc = "read" /\ tool'.pos = (p + 6) + len
       /\ tool' \in [pc : {"read"}, pos : Nat, length : Nat, loop : BOOLEAN]
  <2>1. PICK end \in Nat : end = (p + 6) + len
    OBVIOUS
  <2>2. tool' = [tool EXCEPT !.pc = "read", !.pos = end]
    BY <1>9, <2>1, Zenon
  <2> QED  BY <1>3, <2>1, <2>2
<1>13. /\ wrote' \in Seq(Nat) /\ Len(wrote') = n + 1 /\ wrote'[n + 1] = x
       /\ \A k \in 1 .. n : wrote'[k] = wrote[k]
  BY <1>4, <1>11 DEF InOrderInv, ToolType
<1>14. \A k \in 1 .. n : k <= m => wrote[k] = k
  <2>1. DOMAIN wrote = 1 .. n
    BY <1>4 DEF InOrderInv, ToolType
  <2> QED  BY <1>5, <2>1 DEF InOrderInv, ReplaysInOrder
<1>15. ToolType'
  BY <1>12, <1>13 DEF ToolType
<1>16. CASE n < m
  <2>1. p = Offset(n + 1) /\ len = Len(Frames[n + 1])
    BY <1>1, <1>4, <1>5, <1>6, <1>16 DEF InOrderInv, AtRecord
  <2>2. PICK r \in 1 .. Len(Ticks) : r = n + 1 /\ r \in 1 .. m
    <3>1. n + 1 \in 1 .. m /\ n + 1 \in 1 .. Len(Ticks)
      BY <1>5, <1>16, TicksType
    <3> QED  BY <3>1
  <2>3. \A q \in starts : q = r
    <3> SUFFICES ASSUME NEW q \in 1 .. Len(Ticks), Offset(q) = Offset(r) PROVE q = r
      BY <1>8, <2>1, <2>2
    <3>1. Offset(q) \in Nat
      BY Offsets
    <3>2. CASE q < r
      <4>1. Offset(q) < Offset(r)
        BY <3>2, TicksType, OffsetsRise
      <4> QED  BY <3>1, <4>1
    <3>3. CASE r < q
      <4>1. Offset(r) < Offset(q)
        BY <3>3, TicksType, OffsetsRise
      <4> QED  BY <3>1, <4>1
    <3> QED  BY <3>2, <3>3
  <2>4. r \in starts
    BY <1>8, <2>1, <2>2
  <2>5. hurt' = (wire' # recorded[r].frame)
    BY <1>9, <2>3, <2>4
  <2>6. recorded[r].frame = Frames[r]
    BY TicksType DEF InOrderInv, Recorded
  <2>7. wire' = Frames[r]
    <3>1. Intact(file, r)
      BY <1>5, <2>2 DEF InOrderInv, FileInv
    <3>2. Slice(file, p + 6, (p + 6) + len) = Frames[r]
      BY <2>1, <2>2, <3>1 DEF Intact
    <3> QED  BY <1>9, <3>2
  <2>8. ~hurt'
    BY <2>5, <2>6, <2>7, Zenon
  <2>9. x = n + 1
    <3>1. x \in starts
      BY <1>7, <1>10, <2>4, <2>8, Zenon
    <3> QED  BY <2>2, <2>3, <3>1
  <2>10. (p + 6) + len = Offset(n + 2)
    <3>1. Offset(r + 1) = Offset(r) + 6 + len
      BY <2>1, <2>2, Offsets
    <3>2. r + 1 = n + 2
      BY <2>2
    <3> QED  BY <2>1, <2>2, <3>1, <3>2
  <2>11. AtRecord'
    BY <1>12, <1>13, <2>10 DEF AtRecord
  <2>12. ReplaysInOrder'
    <3>1. ASSUME NEW k \in 1 .. n + 1, k <= m PROVE wrote'[k] = k
      <4>1. CASE k = n + 1
        BY <1>13, <2>9, <4>1
      <4>2. CASE k # n + 1
        <5>1. k \in 1 .. n
          BY <4>2
        <5> QED  BY <1>13, <1>14, <3>1, <5>1
      <4> QED  BY <4>1, <4>2
    <3> QED  BY <1>1, <1>5, <1>12, <1>13, <1>16, <3>1 DEF ReplaysInOrder
  <2> QED  BY <1>2, <1>12, <1>15, <2>11, <2>12 DEF InOrderInv
<1>17. CASE ~(n < m)
  <2>1. damage.kind # "cut"
    BY <1>1, <1>4, <1>5, <1>17 DEF InOrderInv
  <2>2. AtRecord'
    BY <1>1, <1>5, <1>13, <1>17, <2>1 DEF AtRecord
  <2>3. ReplaysInOrder'
    <3>1. ASSUME NEW k \in 1 .. n + 1, k <= m PROVE wrote'[k] = k
      <4>1. k \in 1 .. n
        BY <1>17, <3>1
      <4> QED  BY <1>13, <1>14, <3>1, <4>1
    <3> QED  BY <1>1, <1>5, <1>12, <1>13, <2>1, <3>1 DEF ReplaysInOrder
  <2> QED  BY <1>2, <1>12, <1>15, <2>2, <2>3 DEF InOrderInv
<1> QED  BY <1>16, <1>17

LEMMA StepInOrder ==
  ASSUME SixteenBits, InOrderInv, [ReplayNext]_allVars
  PROVE  InOrderInv'
<1>1. CASE Open
  BY <1>1, OpenInOrder
<1>2. CASE Interrupted \/ ReadFails
  BY <1>2, StopInOrder DEF Interrupted, ReadFails, fileVars
<1>3. CASE ReadRecord
  BY <1>3, ReadInOrder
<1>4. CASE Write
  BY <1>4, WriteInOrder
<1>5. CASE NextPass
  <2>1. PICK pc \in {"open", "exited"} : tool' = [tool EXCEPT !.pc = pc]
    BY <1>5 DEF NextPass
  <2> QED  BY <1>5, <2>1, StopInOrder DEF NextPass, fileVars
<1>6. CASE Signal \/ UNCHANGED toolVars
  BY <1>6, StutterInOrder DEF Signal, toolVars, fileVars
<1>7. UNCHANGED allVars => UNCHANGED toolVars
  BY DEF allVars
<1> QED  BY <1>1, <1>2, <1>3, <1>4, <1>5, <1>6, <1>7 DEF ReplayNext, ToolStep

LEMMA AlwaysInOrder == SixteenBits /\ Spec => []InOrderInv
<1>1. SUFFICES ASSUME SixteenBits PROVE Spec => []InOrderInv
  OBVIOUS
<1>2. ReplayInit => InOrderInv
  BY <1>1, InitInOrder
<1>3. InOrderInv /\ [ReplayNext]_allVars => InOrderInv'
  BY <1>1, StepInOrder
<1> QED  BY <1>2, <1>3, PTL DEF Spec

(* A pass of the replay tool writes the frames of the capture one by one   *)
(* in their order, every one that the file still holds in full and, of a   *)
(* file cut off anywhere, nothing else; up to a damaged length field it    *)
(* does the same, for every flight, every capture of it and every damage   *)
(* (replay/main.go:80-180, generate.go:52-110).                            *)
THEOREM InOrder == SixteenBits /\ Spec => []ReplaysInOrder
<1>1. InOrderInv => ReplaysInOrder
  BY DEF InOrderInv
<1> QED  BY <1>1, AlwaysInOrder, PTL
-----------------------------------------------------------------------------
(* DamageIsDetected, for the datagrams of the simulator.                   *)

(* Hypothesis: bytes that differ in one place have different checksums (a  *)
(* CRC of 16 bits finds every burst of up to 16 bits, crc.go:3-8).         *)
FindsOneByte ==
  \A s, t \in Seq(Byte), seed \in Byte :
    /\ Len(s) = Len(t)
    /\ \E i \in DOMAIN s : s[i] # t[i] /\ \A j \in DOMAIN s : j # i => s[j] = t[j]
    => Checksum(s, seed) # Checksum(t, seed)

Bits == {1, 2, 4, 8, 16, 32, 64, 128}

Flipped(b, bit) == IF (b \div bit) % 2 = 1 THEN b - bit ELSE b + bit

LEMMA FlippedByte ==
  ASSUME NEW b \in Byte, NEW bit \in Bits
  PROVE  /\ Flipped(b, bit) \in Byte /\ Flipped(b, bit) # b
         /\ Flipped(b, bit) = b + bit \/ Flipped(b, bit) = b - bit
<1>1. b \in Int /\ 0 <= b /\ b <= 255
  BY DEF Byte, Between
<1>2. PICK c : c = Flipped(b, bit)
  OBVIOUS
<1>3. ASSUME NEW k \in Bits, bit = k PROVE c \in Int /\ 0 <= c /\ c <= 255
  <2>1. CASE k = 1
    BY <1>1, <1>2, <1>3, <2>1, SMT DEF Flipped
  <2>2. CASE k = 2
    BY <1>1, <1>2, <1>3, <2>2, SMT DEF Flipped
  <2>3. CASE k = 4
    BY <1>1, <1>2, <1>3, <2>3, SMT DEF Flipped
  <2>4. CASE k = 8
    BY <1>1, <1>2, <1>3, <2>4, SMT DEF Flipped
  <2>5. CASE k = 16
    BY <1>1, <1>2, <1>3, <2>5, SMT DEF Flipped
  <2>6. CASE k = 32
    BY <1>1, <1>2, <1>3, <2>6, SMT DEF Flipped
  <2>7. CASE k = 64
    BY <1>1, <1>2, <1>3, <2>7, SMT DEF Flipped
  <2>8. CASE k = 128
    BY <1>1, <1>2, <1>3, <2>8, SMT DEF Flipped
  <2> QED  BY <2>1, <2>2, <2>3, <2>4, <2>5, <2>6, <2>7, <2>8 DEF Bits
<1>4. c = b + bit \/ c = b - bit
  BY <1>2 DEF Flipped
<1>5. c # b
  BY <1>1, <1>4 DEF Bits
<1> QED  BY <1>2, <1>3, <1>4, <1>5 DEF Byte, Between

(* No two messages with a payload have numbers that differ by one bit. *)
LEMMA IDsFarApart ==
  ASSUME NEW a \in IDs, NEW bit \in Bits
  PROVE  a + bit \notin IDs /\ a - bit \notin IDs
BY DEF IDs, Bits, HeartbeatID, GlobalPositionID, AttitudeID, BatteryID, GPSRawID

(* What damage leaves of a frame has no payload that is decoded, unless    *)
(* the length byte was made smaller.                                       *)
Exposed(u, len) == ~Parses(u) \/ MessageID(u) \notin IDs \/ At(u, 1) < len

LEMMA TruncatedFrame ==
  ASSUME SixteenBits, NEW d, d.system \in Byte, NEW n \in Byte, NEW id \in IDs,
         NEW len \in Byte, NEW p \in Bytes(len), len >= 1,
         NEW f, f = buildFrame(d, n, id, p), NEW k \in 1 .. Len(f) - 1
  PROVE  Exposed(SubSeq(f, 1, k), len)
<1>1. len \in Nat /\ f \in Bytes(len + 12) /\ f[2] = len /\ f[3] = 0
  BY FrameLayout DEF Byte, Between
<1>2. f \in Seq(Byte) /\ Len(f) = len + 12
  BY <1>1, InBytes
<1>3. k \in Nat /\ 1 <= k /\ k < len + 12
  BY <1>1, <1>2
<1>4. PICK u : u = SubSeq(f, 1, k)
  OBVIOUS
<1>5. Len(u) = k /\ \A j \in 1 .. k : u[j] = f[j]
  BY <1>2, <1>3, <1>4
<1>6. CASE k < 12
  BY <1>3, <1>4, <1>5, <1>6 DEF Parses, Exposed
<1>7. CASE k >= 12
  <2>1. u[2] = len /\ u[3] = 0
    BY <1>1, <1>3, <1>5, <1>7
  <2>2. FrameSize(u) = len + 12
    BY <1>1, <2>1 DEF FrameSize, PayloadEnd, At
  <2>3. ~(Len(u) >= FrameSize(u))
    BY <1>1, <1>3, <1>5, <2>2
  <2> QED  BY <1>4, <2>3 DEF Parses, Exposed
<1> QED  BY <1>3, <1>6, <1>7

LEMMA SequenceOfBytes ==
  ASSUME NEW n \in Nat, NEW s \in [1 .. n -> Byte]
  PROVE  s \in Bytes(n)
<1>1. s \in Seq(Byte)
  OBVIOUS
<1>2. Len(s) = n
  BY <1>1
<1> QED  BY <1>1, <1>2 DEF Bytes

LEMMA FlippedFrame ==
  ASSUME SixteenBits, FindsOneByte, NEW d, d.system \in Byte, NEW n \in Byte, NEW id \in IDs,
         NEW len \in Byte, NEW p \in Bytes(len), len >= 1,
         NEW f, f = buildFrame(d, n, id, p), NEW i \in DOMAIN f, NEW bit \in Bits,
         NEW u, u = [f EXCEPT ![i] = Flipped(@, bit)]
  PROVE  Exposed(u, len)
<1>1. /\ len \in Nat /\ f \in Bytes(len + 12) /\ Parses(f) /\ MessageID(f) = id
      /\ f[2] = len /\ f[3] = 0 /\ f[8] = id /\ f[9] = 0 /\ f[10] = 0
  BY FrameLayout DEF Byte, Between
<1>2. PICK size \in Nat : size = len + 12
  BY <1>1
<1>3. f \in Bytes(size) /\ f \in Seq(Byte) /\ Len(f) = size /\ DOMAIN f = 1 .. size
  BY <1>1, <1>2, InBytes
<1>4. i \in Nat /\ 1 <= i /\ i <= size
  BY <1>3
<1>5. PICK b \in Byte : b = f[i]
  BY <1>3
<1>6. PICK c \in Byte : c = Flipped(b, bit) /\ c # b /\ (c = b + bit \/ c = b - bit)
  BY FlippedByte
<1>7. u[i] = c /\ \A j \in 1 .. size : j # i => u[j] = f[j]
  BY <1>3, <1>5, <1>6
<1>8. u \in Bytes(size)
  <2>1. f \in [1 .. size -> Byte]
    BY <1>3
  <2>2. u = [f EXCEPT ![i] = c]
    BY <1>5, <1>6
  <2>3. u \in [1 .. size -> Byte]
    BY <2>1, <2>2
  <2> QED  BY <2>3, SequenceOfBytes
<1>9. u \in Seq(Byte) /\ Len(u) = size
  BY <1>8, InBytes
<1>10. CASE i = 1
  <2>1. At(f, 0) = 253
    BY <1>1, Zenon DEF Parses
  <2>2. At(u, 0) # 253
    BY <1>5, <1>6, <1>7, <1>10, <2>1 DEF At
  <2> QED  BY <2>2 DEF Parses, Exposed
<1>11. CASE i = 2
  <2>1. u[2] = c /\ u[3] = 0 /\ b = len
    BY <1>1, <1>2, <1>5, <1>7, <1>11
  <2>2. CASE c < len
    BY <2>1, <2>2 DEF Exposed, At
  <2>3. CASE ~(c < len)
    <3>1. c \in Nat /\ c > len
      BY <1>1, <1>6, <2>1, <2>3 DEF Byte, Between
    <3>2. FrameSize(u) = c + 12
      BY <2>1, <3>1 DEF FrameSize, PayloadEnd, At
    <3>3. ~(Len(u) >= FrameSize(u))
      BY <1>1, <1>2, <1>9, <3>1, <3>2
    <3> QED  BY <3>3 DEF Parses, Exposed
  <2> QED  BY <2>2, <2>3
<1>12. CASE i = 8 \/ i = 9 \/ i = 10
  <2>1. /\ b \in Int /\ c \in Int /\ 0 <= c /\ id \in Int /\ 0 <= id
        /\ \A a \in IDs : a \in Int /\ a <= 255
    BY SeedBytes DEF Byte, Between
  <2>2. MessageID(u) = (u[8] + 256 * u[9]) + 65536 * u[10]
    BY SMT DEF MessageID, Unsigned16, At
  <2>3. CASE i = 8
    <3>1. u[8] = c /\ u[9] = 0 /\ u[10] = 0 /\ b = id
      BY <1>1, <1>2, <1>5, <1>7, <2>3
    <3>2. MessageID(u) = c
      BY <2>1, <2>2, <3>1
    <3>3. c \notin IDs
      BY <1>6, <3>1, IDsFarApart
    <3> QED  BY <3>2, <3>3 DEF Exposed
  <2>4. CASE i = 9
    <3>1. u[8] = id /\ u[9] = c /\ u[10] = 0 /\ b = 0
      BY <1>1, <1>2, <1>5, <1>7, <2>4
    <3>2. MessageID(u) > 255
      BY <1>6, <2>1, <2>2, <3>1, SMT
    <3>3. MessageID(u) \notin IDs
      BY <2>1, <3>2
    <3> QED  BY <3>3 DEF Exposed
  <2>5. CASE i = 10
    <3>1. u[8] = id /\ u[9] = 0 /\ u[10] = c /\ b = 0
      BY <1>1, <1>2, <1>5, <1>7, <2>5
    <3>2. MessageID(u) > 255
      BY <1>6, <2>1, <2>2, <3>1, SMT
    <3>3. MessageID(u) \notin IDs
      BY <2>1, <3>2
    <3> QED  BY <3>3 DEF Exposed
  <2> QED  BY <1>12, <2>3, <2>4, <2>5
<1>13. CASE i = 3 \/ (4 <= i /\ i <= 7) \/ i > 10
  <2>1. SUFFICES ASSUME Parses(u) PROVE FALSE
    BY DEF Exposed
  <2>2. u[2] = len /\ u[8] = id /\ u[9] = 0 /\ u[10] = 0
    BY <1>1, <1>2, <1>7, <1>13
  <2>3. PICK k \in Nat : k = 9 + len
    BY <1>1
  <2>4. PayloadEnd(u) = 1 + k /\ PayloadEnd(f) = 1 + k
    BY <1>1, <2>2, <2>3 DEF PayloadEnd, At
  <2>5. MessageID(u) = id
    BY <2>2, SeedBytes, SMT DEF MessageID, Unsigned16, At, Byte, Between
  <2>6. PICK s, t : s = Slice(f, 1, 1 + k) /\ t = Slice(u, 1, 1 + k)
    OBVIOUS
  <2>7. id \in DOMAIN crcSeed /\ crcSeed[id] \in Byte
    BY Seeds, SeedBytes
  <2>8. Checksum(s, crcSeed[id]) = Unsigned16(f, 1 + k)
    <3>1. ChecksumValid(f)
      BY <1>1, Zenon DEF Parses
    <3> QED  BY <1>1, <2>4, <2>6, <2>7, <3>1, Zenon DEF ChecksumValid
  <2>9. Checksum(t, crcSeed[id]) = Unsigned16(u, 1 + k)
    <3>1. ChecksumValid(u)
      BY <2>1, Zenon DEF Parses
    <3> QED  BY <2>4, <2>5, <2>6, <2>7, <3>1, Zenon DEF ChecksumValid
  <2>10. 1 + k <= size /\ size = k + 3
    BY <1>1, <1>2, <2>3
  <2>11. /\ s \in Bytes(k) /\ t \in Bytes(k)
         /\ \A j \in 1 .. k : s[j] = f[1 + j] /\ t[j] = u[1 + j]
    <3>1. size \in Nat /\ 1 \in Nat /\ k \in Nat
      BY <1>2
    <3>2. ASSUME NEW v \in Bytes(size)
          PROVE  /\ Slice(v, 1, 1 + k) \in Bytes(k)
                 /\ \A j \in 1 .. k : Slice(v, 1, 1 + k)[j] = v[1 + j]
      BY <2>10, <3>1, SliceBytes, ZenonT(60)
    <3> QED  BY <1>3, <1>8, <2>6, <3>2, Zenon
  <2>12. /\ s \in Seq(Byte) /\ t \in Seq(Byte) /\ Len(s) = k /\ Len(t) = k
         /\ DOMAIN s = 1 .. k /\ DOMAIN t = 1 .. k
    BY <2>11, InBytes
  <2>13. Unsigned16(f, 1 + k) = f[k + 2] + 256 * f[k + 3]
    BY DEF Unsigned16, At
  <2>14. Unsigned16(u, 1 + k) = u[k + 2] + 256 * u[k + 3]
    BY DEF Unsigned16, At
  <2>15. k + 2 \in 1 .. size /\ k + 3 \in 1 .. size
    BY <2>10
  <2>16. CASE i <= k + 1
    <3>1. u[k + 2] = f[k + 2] /\ u[k + 3] = f[k + 3]
      BY <1>4, <1>7, <2>15, <2>16
    <3>2. Checksum(s, crcSeed[id]) = Checksum(t, crcSeed[id])
      BY <2>8, <2>9, <2>13, <2>14, <3>1
    <3>3. PICK h \in 1 .. k : 1 + h = i
      <4>1. i - 1 \in 1 .. k /\ 1 + (i - 1) = i
        BY <1>4, <1>13, <2>16
      <4> QED  BY <4>1
    <3>4. s[h] # t[h]
      BY <1>5, <1>6, <1>7, <2>11, <3>3
    <3>5. ASSUME NEW j \in 1 .. k, j # h PROVE s[j] = t[j]
      <4>1. 1 + j \in 1 .. size /\ 1 + j # i
        BY <2>10, <3>3, <3>5
      <4> QED  BY <1>7, <2>11, <4>1
    <3> QED  BY <2>7, <2>12, <3>2, <3>3, <3>4, <3>5 DEF FindsOneByte
  <2>17. CASE i > k + 1
    <3>1. ASSUME NEW j \in 1 .. k PROVE s[j] = t[j]
      <4>1. 1 + j \in 1 .. size /\ 1 + j # i
        BY <1>4, <2>10, <2>17
      <4> QED  BY <1>7, <2>11, <4>1
    <3>2. s = t
      BY <2>12, <3>1, SeqEqual
    <3>3. u[k + 2] + 256 * u[k + 3] = f[k + 2] + 256 * f[k + 3]
      BY <2>8, <2>9, <2>13, <2>14, <3>2
    <3>4. PICK x \in Byte, y \in Byte : x = f[k + 2] /\ y = f[k + 3]
      BY <1>3, <2>15
    <3>5. /\ b \in Int /\ 0 <= b /\ b <= 255 /\ c \in Int /\ 0 <= c /\ c <= 255
          /\ x \in Int /\ 0 <= x /\ x <= 255 /\ y \in Int /\ 0 <= y /\ y <= 255
      BY DEF Byte, Between
    <3>6. CASE i = k + 2
      <4>1. u[k + 2] = c /\ u[k + 3] = y /\ b = x
        BY <1>5, <1>7, <2>15, <3>4, <3>6
      <4> QED  BY <1>6, <3>3, <3>4, <3>5, <4>1
    <3>7. CASE i = k + 3
      <4>1. u[k + 2] = x /\ u[k + 3] = c /\ b = y
        BY <1>5, <1>7, <2>15, <3>4, <3>7
      <4> QED  BY <1>6, <3>3, <3>4, <3>5, <4>1
    <3> QED  BY <1>4, <2>10, <2>17, <3>6, <3>7
  <2> QED  BY <1>4, <2>16, <2>17
<1>14. i = 1 \/ i = 2 \/ (i = 8 \/ i = 9 \/ i = 10) \/ (i = 3 \/ (4 <= i /\ i <= 7) \/ i > 10)
  BY <1>4
<1> QED  BY <1>10, <1>11, <1>12, <1>13, <1>14

LEMMA ExposedDecodes ==
  ASSUME NEW u, NEW len, Exposed(u, len), ~(At(u, 1) < len)
  PROVE  DecodePacket(u) = Rejected \/ DecodePacket(u).payload.kind = "raw"
<1>1. CASE ~Parses(u)
  BY <1>1 DEF DecodePacket
<1>2. CASE MessageID(u) \notin IDs
  <2>1. PICK id, p : id = MessageID(u) /\ p = Slice(u, 10, PayloadEnd(u))
    OBVIOUS
  <2>2. decodePayload(id, p) = [kind |-> "raw"]
    BY <1>2, <2>1, Lengths
       DEF decodePayload, IDs, HeartbeatID, GlobalPositionID, AttitudeID, BatteryID, GPSRawID
  <2>3. PICK r : r = [kind |-> "raw"]
    OBVIOUS
  <2>4. r.kind = "raw" /\ decodePayload(id, p) = r
    BY <2>2, <2>3
  <2>5. Validated(u, r) = Event(u, r)
    BY <2>4 DEF Validated
  <2>6. DecodePacket(u) = Rejected \/ DecodePacket(u) = Event(u, r)
    BY <2>1, <2>4, <2>5, Zenon DEF DecodePacket
  <2> QED  BY <2>4, <2>6 DEF Event
<1> QED  BY <1>1, <1>2 DEF Exposed

(* A datagram of the simulator is a frame, or what damage left of one. *)
IsFrame(w, len) ==
  /\ len \in Byte /\ len >= 1
  /\ \E d \in DroneState, n \in Byte, id \in IDs, p \in Bytes(len) : w = buildFrame(d, n, id, p)

DamageInv ==
  /\ cycle \in Nat
  /\ sender = "simulator" => tool.pc = "exited"
  /\ sender = "simulator" /\ wire # <<>> =>
       IF hurt THEN Exposed(wire, sent.length) ELSE IsFrame(wire, sent.length)

LEMMA SendDamage ==
  ASSUME DamageInv, NEW d \in Drones, Send(d), UNCHANGED toolVars
  PROVE  DamageInv'
<1>1. d \in DroneState
  BY MavlinkAssumption
<1>2. PICK id \in IDs : id = MessageOf(cycle)
  BY MessageType DEF DamageInv
<1>3. PICK n \in Byte : n = cycle % 256
  BY MessageType DEF DamageInv
<1>4. PICK full : full = PayloadOf(d, id)
  OBVIOUS
<1>5. PICK p \in {full, Trimmed(full)} :
        /\ sent' = [kind |-> "message", drone |-> d, id |-> id, length |-> Len(p)]
        /\ wire' = buildFrame(d, n, id, p)
  BY <1>2, <1>3, <1>4 DEF Send
<1>6. PICK len \in Nat : len = FullLength[id] /\ len >= 9 /\ len <= 36
  BY Lengths DEF IDs
<1>7. full \in Bytes(len)
  BY <1>1, <1>4, <1>6, SimulatorDescribes DEF Describes
<1>8. PICK k \in 1 .. len : p \in Bytes(k)
  <2>1. CASE p = full
    BY <1>6, <1>7, <2>1
  <2>2. CASE p = Trimmed(full)
    BY <1>6, <1>7, <2>2, TrimmedPayload
  <2> QED  BY <1>5, <2>1, <2>2
<1>9. k \in Byte /\ k >= 1 /\ Len(p) = k
  <2>1. k \in Int /\ 1 <= k /\ k <= 36
    BY <1>6
  <2>2. k \in Byte
    BY <2>1, SMT DEF Byte, Between
  <2> QED  BY <1>8, <2>1, <2>2, InBytes
<1>10. sent'.length = k
  BY <1>5, <1>9
<1>11. IsFrame(wire', k)
  BY <1>1, <1>5, <1>8, <1>9, Zenon DEF IsFrame
<1>12. cycle' \in Nat /\ ~hurt' /\ sender' = sender /\ tool' = tool
  BY DEF Send, DamageInv, toolVars, fileVars
<1> QED  BY <1>10, <1>11, <1>12 DEF DamageInv

LEMMA LineDamage ==
  ASSUME SixteenBits, FindsOneByte, DamageInv, Line, UNCHANGED toolVars
  PROVE  DamageInv'
<1>1. /\ cycle' = cycle /\ sender' = sender /\ tool' = tool /\ sent' = sent
      /\ ~hurt /\ hurt' = TRUE /\ wire # <<>>
  BY DEF Line, FlipBit, Truncate, toolVars, fileVars
<1>2. SUFFICES ASSUME sender = "simulator" PROVE Exposed(wire', sent.length)
  BY <1>1 DEF DamageInv
<1>3. IsFrame(wire, sent.length)
  BY <1>1, <1>2 DEF DamageInv
<1>4. PICK len, f : len \in Byte /\ len = sent.length /\ f = wire
  BY <1>3 DEF IsFrame
<1>5. PICK d \in DroneState, n \in Byte, id \in IDs, p \in Bytes(len) : f = buildFrame(d, n, id, p)
  BY <1>3, <1>4 DEF IsFrame
<1>6. len >= 1 /\ d.system \in Byte
  BY <1>3, <1>4, StateTypes DEF IsFrame
<1>7. ASSUME NEW i \in DOMAIN f, NEW bit \in Bits, FlipBit(i, bit)
      PROVE  Exposed(wire', sent.length)
  <2>1. wire' = [f EXCEPT ![i] = Flipped(@, bit)]
    BY <1>4, <1>7, Zenon DEF FlipBit, Flipped
  <2> QED  BY <1>4, <1>5, <1>6, <2>1, FlippedFrame
<1>8. ASSUME NEW k, Truncate(k)
      PROVE  Exposed(wire', sent.length)
  <2>1. k \in 1 .. Len(f) - 1 /\ wire' = SubSeq(f, 1, k)
    BY <1>4, <1>8 DEF Truncate
  <2> QED  BY <1>4, <1>5, <1>6, <2>1, TruncatedFrame
<1> QED  BY <1>4, <1>7, <1>8 DEF Line, Bits

LEMMA StepDamage ==
  ASSUME SixteenBits, FindsOneByte, DamageInv, [ReplayNext]_allVars
  PROVE  DamageInv'
<1>1. CASE Line /\ UNCHANGED toolVars
  BY <1>1, LineDamage
<1>2. ASSUME NEW d \in Drones, Send(d), UNCHANGED toolVars PROVE DamageInv'
  BY <1>2, SendDamage
<1>3. CASE Receive /\ UNCHANGED toolVars
  <2>1. wire' = <<>> /\ cycle' = cycle /\ sender' = sender /\ tool' = tool
    BY <1>3 DEF Receive, toolVars, fileVars
  <2> QED  BY <2>1 DEF DamageInv
<1>4. CASE ToolStep
  <2>1. tool.pc # "exited" /\ sender' = sender /\ cycle' = cycle
    BY <1>4 DEF ToolStep, Open, Interrupted, ReadRecord, ReadFails, Write, NextPass, vars, fileVars
  <2> QED  BY <2>1 DEF DamageInv
<1>5. CASE Signal
  <2>1. /\ wire' = wire /\ cycle' = cycle /\ sender' = sender /\ tool' = tool /\ hurt' = hurt
        /\ sent' = sent
    BY <1>5 DEF Signal, vars, fileVars
  <2> QED  BY <2>1 DEF DamageInv
<1>6. CASE UNCHANGED allVars
  <2>1. /\ wire' = wire /\ cycle' = cycle /\ sender' = sender /\ tool' = tool /\ hurt' = hurt
        /\ sent' = sent
    BY <1>6 DEF allVars, vars, toolVars, fileVars
  <2> QED  BY <2>1 DEF DamageInv
<1> QED  BY <1>1, <1>2, <1>3, <1>4, <1>5, <1>6 DEF ReplayNext

(* A datagram of the simulator in which the line turned over one bit, or   *)
(* which it cut off, is rejected or a message without a payload, whatever  *)
(* the drone's state is, if the checksum finds bytes that differ in one    *)
(* place; but for a bit of the length byte that makes it smaller, when the *)
(* checksum is compared with two bytes of the payload, which may happen to *)
(* agree with it (parser.go:107-163, crc.go:3-43).                         *)
THEOREM DamageDetected ==
  SixteenBits /\ FindsOneByte /\ Spec =>
    [][Receive /\ sender = "simulator" /\ ~(At(wire, 1) < sent.length)
         => DamageIsDetected']_allVars
<1>1. SUFFICES ASSUME SixteenBits, FindsOneByte
               PROVE  Spec => [][Receive /\ sender = "simulator" /\ ~(At(wire, 1) < sent.length)
                                   => DamageIsDetected']_allVars
  OBVIOUS
<1>2. ReplayInit => DamageInv
  BY DEF ReplayInit, Init, DamageInv
<1>3. DamageInv /\ [ReplayNext]_allVars => DamageInv'
  BY <1>1, StepDamage
<1>4. DamageInv /\ [ReplayNext]_allVars
        => [Receive /\ sender = "simulator" /\ ~(At(wire, 1) < sent.length)
              => DamageIsDetected']_allVars
  <2>1. SUFFICES ASSUME DamageInv, Receive, sender = "simulator", hurt,
                        ~(At(wire, 1) < sent.length), event'.kind = "event"
                 PROVE  event'.payload.kind = "raw"
    BY DEF Receive, DamageIsDetected
  <2>2. event' = DecodePacket(wire) /\ Exposed(wire, sent.length)
    BY <2>1 DEF Receive, DamageInv
  <2>3. event' # Rejected
    BY <2>1 DEF Rejected
  <2> QED  BY <2>1, <2>2, <2>3, ExposedDecodes
<1> QED  BY <1>2, <1>3, <1>4, PTL DEF Spec
-----------------------------------------------------------------------------
(* TypeOK of Mavlink, for both senders.                                    *)

Payloads == {"nil", "raw", "heartbeat", "gps", "battery", "attitude"}

LEMMA PayloadType ==
  ASSUME NEW id, NEW p \in Seq(Byte)
  PROVE  /\ decodePayload(id, p).kind \in Payloads
         /\ decodePayload(id, p).kind = "gps" => Clamped(decodePayload(id, p)).kind = "gps"
<1>1. Len(p) \in Nat
  OBVIOUS
<1>2. CASE id \notin IDs
  <2>1. decodePayload(id, p) = [kind |-> "raw"]
    BY <1>2, Lengths
       DEF decodePayload, IDs, HeartbeatID, GlobalPositionID, AttitudeID, BatteryID, GPSRawID
  <2> QED  BY <2>1 DEF Payloads
<1>3. CASE id \in IDs /\ Len(p) < FullLength[id]
  BY <1>1, <1>3, DecodesShort DEF Payloads, NilPayload
<1>4. CASE id \in IDs /\ ~(Len(p) < FullLength[id])
  <2>1. CASE id = HeartbeatID
    <3>1. decodePayload(id, p) = decodeHeartbeat(p)
      BY <1>1, <1>4, <2>1, Lengths, DecodesFull
    <3> QED  BY <3>1 DEF decodeHeartbeat, Payloads
  <2>2. CASE id = GlobalPositionID
    <3>1. decodePayload(id, p) = decodeGlobalPosition(p)
      BY <1>1, <1>4, <2>2, Lengths, DecodesFull
    <3> QED  BY <3>1 DEF decodeGlobalPosition, Position, Clamped, Payloads
  <2>3. CASE id = GPSRawID
    <3>1. decodePayload(id, p) = decodeGPSRaw(p)
      BY <1>1, <1>4, <2>3, Lengths, DecodesFull
    <3> QED  BY <3>1 DEF decodeGPSRaw, Position, Clamped, Payloads
  <2>4. CASE id = BatteryID
    <3>1. decodePayload(id, p) = decodeBatteryStatus(p)
      BY <1>1, <1>4, <2>4, Lengths, DecodesFull
    <3> QED  BY <3>1 DEF decodeBatteryStatus, Payloads
  <2>5. CASE id = AttitudeID
    <3>1. decodePayload(id, p) = decodeAttitude(p)
      BY <1>1, <1>4, <2>5, Lengths, DecodesFull
    <3> QED  BY <3>1 DEF decodeAttitude, Payloads
  <2> QED  BY <1>4, <2>1, <2>2, <2>3, <2>4, <2>5 DEF IDs
<1> QED  BY <1>2, <1>3, <1>4

LEMMA EventType ==
  ASSUME NEW u \in Seq(Byte), NEW e, e = DecodePacket(u)
  PROVE  \/ e = Rejected
         \/ e.kind = "event" /\ e.system \in Between(1, 250) /\ e.payload.kind \in Payloads
<1>1. SUFFICES ASSUME Parses(u), ValidateSystemID(At(u, 5))
               PROVE  \/ e = Rejected
                      \/ e.kind = "event" /\ e.system \in Between(1, 250)
                           /\ e.payload.kind \in Payloads
  BY DEF DecodePacket
<1>2. PICK id, q : id = MessageID(u) /\ q = Slice(u, 10, PayloadEnd(u))
  OBVIOUS
<1>3. PICK b \in Byte, size \in Nat : b = u[2] /\ size = Len(u) /\ size >= 12
  <2>1. Len(u) >= 12 /\ Len(u) \in Nat
    BY <1>1 DEF Parses
  <2> QED  BY <2>1
<1>4. q \in Seq(Byte)
  <2>1. PayloadEnd(u) = 10 + b /\ b \in Nat
    BY <1>3 DEF PayloadEnd, At, Byte, Between
  <2>2. size >= FrameSize(u)
    BY <1>1, <1>3 DEF Parses
  <2>3. 10 + b <= size
    BY <1>3, <2>1, <2>2 DEF FrameSize
  <2>4. size \in Nat /\ u \in Bytes(size) /\ 10 \in Nat
    BY <1>3, InBytes
  <2>5. Slice(u, 10, 10 + b) \in Bytes(b)
    BY <2>1, <2>3, <2>4, SliceBytes, Zenon
  <2> QED  BY <1>2, <2>1, <2>5, InBytes
<1>5. PICK p : p = decodePayload(id, q)
  OBVIOUS
<1>6. p.kind \in Payloads /\ (p.kind = "gps" => Clamped(p).kind = "gps")
  BY <1>4, <1>5, PayloadType
<1>7. e = Validated(u, p)
  BY <1>1, <1>2, <1>5 DEF DecodePacket
<1>8. e = Rejected \/ e = Event(u, p) \/ (p.kind = "gps" /\ e = Event(u, Clamped(p)))
  BY <1>7 DEF Validated
<1> QED  BY <1>1, <1>6, <1>8 DEF Event, ValidateSystemID, Payloads

(* The frame that is about to be written is in the file. *)
TypeInv ==
  /\ TypeOK
  /\ tool.pc = "write" => tool.pos + 6 + tool.length <= Len(file)

LEMMA SendType ==
  ASSUME SixteenBits, TypeInv, NEW d \in Drones, Send(d), UNCHANGED toolVars
  PROVE  TypeInv'
<1>1. d \in DroneState /\ d.system \in Byte /\ MaxFrames \in Nat
  BY MavlinkAssumption, StateTypes
<1>2. cycle \in Nat /\ cycle < MaxFrames
  BY <1>1 DEF TypeInv, TypeOK, Send
<1>3. PICK id \in IDs : id = MessageOf(cycle)
  BY <1>2, MessageType
<1>4. PICK n \in Byte : n = cycle % 256
  BY <1>2, MessageType
<1>5. PICK full : full = PayloadOf(d, id)
  OBVIOUS
<1>6. PICK p \in {full, Trimmed(full)} :
        /\ sent' = [kind |-> "message", drone |-> d, id |-> id, length |-> Len(p)]
        /\ wire' = buildFrame(d, n, id, p)
  BY <1>3, <1>4, <1>5 DEF Send
<1>7. PICK len \in Nat : len = FullLength[id] /\ len >= 9 /\ len <= 36
  BY Lengths DEF IDs
<1>8. full \in Bytes(len)
  BY <1>1, <1>5, <1>7, SimulatorDescribes DEF Describes
<1>9. PICK k \in 1 .. len : p \in Bytes(k)
  <2>1. CASE p = full
    BY <1>7, <1>8, <2>1
  <2>2. CASE p = Trimmed(full)
    BY <1>7, <1>8, <2>2, TrimmedPayload
  <2> QED  BY <1>6, <2>1, <2>2
<1>10. k \in Byte /\ k >= 1
  <2>1. k \in Int /\ 1 <= k /\ k <= 36
    BY <1>7
  <2> QED  BY <2>1, SMT DEF Byte, Between
<1>11. wire' \in Seq(Byte)
  BY <1>1, <1>6, <1>9, <1>10, FrameLayout, InBytes
<1>12. cycle' \in 0 .. MaxFrames /\ hurt' = FALSE /\ event' = NoEvent
  BY <1>1, <1>2 DEF Send
<1>13. tool' = tool /\ file' = file
  BY DEF toolVars, fileVars
<1> QED  BY <1>6, <1>11, <1>12, <1>13 DEF TypeInv, TypeOK, NoEvent

LEMMA LineType ==
  ASSUME TypeInv, Line, UNCHANGED toolVars
  PROVE  TypeInv'
<1>1. /\ cycle' = cycle /\ sent' = sent /\ event' = event /\ hurt' = TRUE
      /\ tool' = tool /\ file' = file
  BY DEF Line, FlipBit, Truncate, toolVars, fileVars
<1>2. PICK f : f = wire /\ f \in Seq(Byte)
  BY DEF TypeInv, TypeOK
<1>3. ASSUME NEW i \in DOMAIN f, NEW bit \in Bits, FlipBit(i, bit)
      PROVE  wire' \in Seq(Byte)
  <2>1. wire' = [f EXCEPT ![i] = Flipped(@, bit)]
    BY <1>2, <1>3, Zenon DEF FlipBit, Flipped
  <2>2. f[i] \in Byte
    BY <1>2
  <2>3. PICK c \in Byte : c = Flipped(f[i], bit)
    BY <2>2, FlippedByte
  <2>4. wire' = [f EXCEPT ![i] = c]
    BY <2>1, <2>3
  <2> QED  BY <1>2, <2>4
<1>4. ASSUME NEW k, Truncate(k)
      PROVE  wire' \in Seq(Byte)
  <2>1. k \in 1 .. Len(f) - 1 /\ wire' = SubSeq(f, 1, k)
    BY <1>2, <1>4 DEF Truncate
  <2> QED  BY <1>2, <2>1
<1>5. wire' \in Seq(Byte)
  BY <1>2, <1>3, <1>4 DEF Line, Bits
<1> QED  BY <1>1, <1>5 DEF TypeInv, TypeOK

LEMMA WriteType ==
  ASSUME InOrderInv, TypeInv, Write
  PROVE  TypeInv'
<1>1. PICK p \in Nat, len \in Nat, size \in Nat :
        /\ p = tool.pos /\ len = tool.length /\ size = Len(file) /\ file \in Bytes(size)
  BY InBytes DEF InOrderInv, ToolType, FileInv
<1>2. wire' = Slice(file, p + 6, (p + 6) + len)
  BY <1>1, Zenon DEF Write
<1>3. PICK from \in Nat : from = p + 6
  OBVIOUS
<1>4. from + len <= size
  BY <1>1, <1>3 DEF Write, TypeInv
<1>5. Slice(file, from, from + len) \in Bytes(len)
  BY <1>1, <1>4, SliceBytes, Zenon
<1>6. wire' \in Seq(Byte)
  BY <1>2, <1>3, <1>5, InBytes
<1>7. sent'.kind \in {"none", "message", "fragment"} /\ hurt' \in BOOLEAN
  <2>1. \/ hurt' = TRUE /\ sent' = [kind |-> "fragment"]
        \/ \E r : /\ hurt' = (wire' # recorded[r].frame)
                  /\ sent' = [kind |-> "message", drone |-> recorded[r].drone,
                              id |-> recorded[r].id, length |-> Len(recorded[r].frame) - 12]
    BY Zenon DEF Write
  <2>2. CASE hurt' = TRUE /\ sent' = [kind |-> "fragment"]
    BY <2>2
  <2>3. ASSUME NEW r, hurt' = (wire' # recorded[r].frame),
               sent' = [kind |-> "message", drone |-> recorded[r].drone,
                        id |-> recorded[r].id, length |-> Len(recorded[r].frame) - 12]
        PROVE  sent'.kind \in {"none", "message", "fragment"} /\ hurt' \in BOOLEAN
    <3>1. hurt' \in BOOLEAN
      BY <2>3, Zenon
    <3>2. sent'.kind = "message"
      BY <2>3
    <3> QED  BY <3>1, <3>2
  <2> QED  BY <2>1, <2>2, <2>3, Zenon
<1>8. tool'.pc # "write"
  <2>1. tool' = [tool EXCEPT !.pc = "read", !.pos = (tool.pos + 6) + tool.length]
    BY Zenon DEF Write
  <2> QED  BY <2>1 DEF InOrderInv, ToolType
<1>9. cycle' = cycle /\ event' = NoEvent
  BY DEF Write
<1> QED  BY <1>6, <1>7, <1>8, <1>9 DEF TypeInv, TypeOK, NoEvent

LEMMA ReadType ==
  ASSUME InOrderInv, TypeInv, ReadRecord
  PROVE  TypeInv'
<1>1. UNCHANGED <<cycle, sent, wire, hurt, event, file>>
  BY DEF ReadRecord, vars, fileVars
<1>2. ASSUME tool'.pc = "write" PROVE tool'.pos + 6 + tool'.length <= Len(file)
  <2>1. PICK p \in Nat, size \in Nat : p = tool.pos /\ size = Len(file)
    BY DEF InOrderInv, ToolType, FileInv
  <2>2. PICK len : len = LengthRead
    OBVIOUS
  <2>3. tool \in [pc : {"open", "read", "write", "passed", "exited"}, pos : Nat,
                  length : Nat, loop : BOOLEAN] /\ tool.pc = "read"
    BY DEF ReadRecord, InOrderInv, ToolType
  <2>4. PICK left : left = Remaining /\ left = size - p
    BY <2>1, Zenon DEF Remaining
  <2>5. \/ tool' = [tool EXCEPT !.pc = "passed"]
        \/ tool' = [tool EXCEPT !.pos = @ + 6]
        \/ /\ len \in 1 .. 300 /\ ~(left < 6 + len)
           /\ tool' = [tool EXCEPT !.pc = "write", !.length = len]
    BY <2>2, <2>4, Zenon DEF ReadRecord
  <2>6. len \in 1 .. 300 /\ ~(left < 6 + len)
        /\ tool' = [tool EXCEPT !.pc = "write", !.length = len]
    <3>1. tool' # [tool EXCEPT !.pc = "passed"] /\ tool' # [tool EXCEPT !.pos = @ + 6]
      BY <1>2, <2>3
    <3> QED  BY <2>5, <3>1, Zenon
  <2>7. len \in Nat
    BY <2>6, ReadLengths, Zenon
  <2>8. tool'.pos = p /\ tool'.length = len
    BY <2>1, <2>3, <2>6, <2>7
  <2>9. p + 6 + len <= size
    <3>1. ~(left < 6 + len)
      BY <2>6, Zenon
    <3> QED  BY <2>4, <2>7, <3>1
  <2> QED  BY <2>1, <2>8, <2>9
<1> QED  BY <1>1, <1>2 DEF TypeInv, TypeOK

LEMMA StepType ==
  ASSUME SixteenBits, InOrderInv, TypeInv, [ReplayNext]_allVars
  PROVE  TypeInv'
<1>1. CASE Line /\ UNCHANGED toolVars
  BY <1>1, LineType
<1>2. ASSUME NEW d \in Drones, Send(d), UNCHANGED toolVars PROVE TypeInv'
  BY <1>2, SendType
<1>3. CASE Receive /\ UNCHANGED toolVars
  <2>1. /\ event' = DecodePacket(wire) /\ wire' = <<>> /\ cycle' = cycle /\ sent' = sent
        /\ hurt' = hurt /\ tool' = tool /\ file' = file
    BY <1>3 DEF Receive, toolVars, fileVars
  <2>2. PICK e : e = DecodePacket(wire)
    OBVIOUS
  <2>3. \/ e = Rejected
        \/ e.kind = "event" /\ e.system \in Between(1, 250) /\ e.payload.kind \in Payloads
    BY <2>2, EventType DEF TypeInv, TypeOK
  <2> QED  BY <2>1, <2>2, <2>3 DEF TypeInv, TypeOK, Rejected, Payloads
<1>4. CASE ReadRecord
  BY <1>4, ReadType
<1>5. CASE Write
  BY <1>5, WriteType
<1>6. CASE Open \/ Interrupted \/ ReadFails \/ NextPass
  <2>1. UNCHANGED <<cycle, sent, wire, hurt, event, file>>
    BY <1>6 DEF Open, Interrupted, ReadFails, NextPass, vars, fileVars
  <2>2. tool'.pc # "write"
    <3>1. tool \in [pc : {"open", "read", "write", "passed", "exited"}, pos : Nat,
                    length : Nat, loop : BOOLEAN]
      BY DEF InOrderInv, ToolType
    <3> QED  BY <1>6, <3>1 DEF Open, Interrupted, ReadFails, NextPass
  <2> QED  BY <2>1, <2>2 DEF TypeInv, TypeOK
<1>7. CASE Signal \/ UNCHANGED allVars
  <2>1. UNCHANGED <<cycle, sent, wire, hurt, event, file, tool>>
    BY <1>7 DEF Signal, allVars, toolVars, vars, fileVars
  <2> QED  BY <2>1 DEF TypeInv, TypeOK
<1> QED  BY <1>1, <1>2, <1>3, <1>4, <1>5, <1>6, <1>7 DEF ReplayNext, ToolStep

(* What is on the line is bytes, and an event is of a vehicle 1 to 250     *)
(* with one of the payloads the decoder knows, whatever a damaged datagram *)
(* or capture holds (parser.go:107-359, validate.go:9-50).                 *)
THEOREM Typing == SixteenBits /\ Spec => []TypeOK
<1>1. SUFFICES ASSUME SixteenBits PROVE Spec => []TypeOK
  OBVIOUS
<1>2. ReplayInit => TypeInv
  <2> SUFFICES ASSUME ReplayInit PROVE TypeInv
    OBVIOUS
  <2>1. tool.pc # "write"
    BY <1>1, InitInOrder DEF ReplayInit
  <2>2. TypeOK
    <3>1. /\ cycle = 0 /\ sent = [kind |-> "none"] /\ wire = <<>> /\ hurt = FALSE
          /\ event = NoEvent
      BY DEF ReplayInit, Init
    <3>2. 0 \in 0 .. MaxFrames /\ <<>> \in Seq(Byte)
      BY MavlinkAssumption
    <3> QED  BY <3>1, <3>2 DEF TypeOK, NoEvent
  <2> QED  BY <2>1, <2>2 DEF TypeInv
<1>3. InOrderInv /\ TypeInv /\ [ReplayNext]_allVars => TypeInv'
  BY <1>1, StepType
<1>4. TypeInv => TypeOK
  BY DEF TypeInv
<1>5. Spec => []InOrderInv
  BY <1>1, AlwaysInOrder
<1> QED  BY <1>2, <1>3, <1>4, <1>5, PTL DEF Spec
=============================================================================
