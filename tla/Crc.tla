--------------------------------- MODULE Crc ---------------------------------
(***************************************************************************)
(* The checksum of the frames (internal/mavlink/crc.go), on unsigned       *)
(* numbers of 8 and 16 bits, and the published one it should be.           *)
(***************************************************************************)
EXTENDS Integers, Sequences, Bitwise

(* Mutant: the shifted byte is not masked. *)
MutCrcAccumulateUnmasked(b, crc) ==
  LET low == b ^^ (crc % 256)
      tmp == low ^^ (low * 16)
  IN  (crc \div 256) ^^ (((tmp * 256) ^^ ((tmp * 8) ^^ (tmp \div 16))) % 65536)

crcAccumulate(b, crc) ==
  LET low == b ^^ (crc % 256)
      tmp == low ^^ ((low * 16) % 256)
  IN  (crc \div 256) ^^ ((tmp * 256) ^^ ((tmp * 8) ^^ (tmp \div 16)))

crcCalculate(buf, seed) ==
  LET crc[i \in 0 .. Len(buf)] ==
        IF i = 0 THEN 65535 ELSE crcAccumulate(buf[i], crc[i - 1])
  IN  crcAccumulate(seed, crc[Len(buf)])
-----------------------------------------------------------------------------
(* The published CRC-16/MCRF4XX: a byte enters the register, which is then *)
(* divided bit by bit, least significant first; 33800 is 0x8408, the       *)
(* reflected polynomial 0x1021 of crc.go:4.                                *)
StandardBit(reg) == (reg \div 2) ^^ (IF reg % 2 = 1 THEN 33800 ELSE 0)

Division ==
  [low \in 0 .. 255 |->
     LET reg[i \in 0 .. 8] == IF i = 0 THEN low ELSE StandardBit(reg[i - 1])
     IN  reg[8]]

StandardByte(crc, b) == (crc \div 256) ^^ Division[(crc % 256) ^^ b]

StandardCrc(buf) ==
  LET crc[i \in 0 .. Len(buf)] ==
        IF i = 0 THEN 65535 ELSE StandardByte(crc[i - 1], buf[i])
  IN  crc[Len(buf)]
=============================================================================
