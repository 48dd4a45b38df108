------------------------------- MODULE Checksum -------------------------------
(* usMBCRC16 of common/CommonTools.cpp: the checksum of a Modbus frame, a   *)
(* sequence of bytes, by two tables of 256 bytes each.  A byte is the set   *)
(* of its bits that are one, so that ^ is a difference of sets.             *)
(* A behaviour makes a frame, byte by byte, and calls the function.         *)
EXTENDS Integers, Sequences

CONSTANTS FrameBytes, MaxFrame   \* frames: any first byte, then these; length

ASSUME FrameAssumption == FrameBytes \subseteq 0 .. 255 /\ MaxFrame \in Nat

VARIABLES
  frame,
  pucFrame,   \* the position of the next byte, 0 before the call
  usLen,      \* the bytes that are left
  crc         \* <<ucCRCHi, ucCRCLo>>

frameVars == <<frame, pucFrame, usLen, crc>>

AucCRCHi == <<
  0, 193, 129, 64, 1, 192, 128, 65, 1, 192, 128, 65, 0, 193, 129, 64, 1, 192,
  128, 65, 0, 193, 129, 64, 0, 193, 129, 64, 1, 192, 128, 65, 1, 192, 128, 65,
  0, 193, 129, 64, 0, 193, 129, 64, 1, 192, 128, 65, 0, 193, 129, 64, 1, 192,
  128, 65, 1, 192, 128, 65, 0, 193, 129, 64, 1, 192, 128, 65, 0, 193, 129, 64,
  0, 193, 129, 64, 1, 192, 128, 65, 0, 193, 129, 64, 1, 192, 128, 65, 1, 192,
  128, 65, 0, 193, 129, 64, 0, 193, 129, 64, 1, 192, 128, 65, 1, 192, 128, 65,
  0, 193, 129, 64, 1, 192, 128, 65, 0, 193, 129, 64, 0, 193, 129, 64, 1, 192,
  128, 65, 1, 192, 128, 65, 0, 193, 129, 64, 0, 193, 129, 64, 1, 192, 128, 65,
  0, 193, 129, 64, 1, 192, 128, 65, 1, 192, 128, 65, 0, 193, 129, 64, 0, 193,
  129, 64, 1, 192, 128, 65, 1, 192, 128, 65, 0, 193, 129, 64, 1, 192, 128, 65,
  0, 193, 129, 64, 0, 193, 129, 64, 1, 192, 128, 65, 0, 193, 129, 64, 1, 192,
  128, 65, 1, 192, 128, 65, 0, 193, 129, 64, 1, 192, 128, 65, 0, 193, 129, 64,
  0, 193, 129, 64, 1, 192, 128, 65, 1, 192, 128, 65, 0, 193, 129, 64, 0, 193,
  129, 64, 1, 192, 128, 65, 0, 193, 129, 64, 1, 192, 128, 65, 1, 192, 128, 65,
  0, 193, 129, 64 >>

AucCRCLo == <<
  0, 192, 193, 1, 195, 3, 2, 194, 198, 6, 7, 199, 5, 197, 196, 4, 204, 12, 13,
  205, 15, 207, 206, 14, 10, 202, 203, 11, 201, 9, 8, 200, 216, 24, 25, 217,
  27, 219, 218, 26, 30, 222, 223, 31, 221, 29, 28, 220, 20, 212, 213, 21, 215,
  23, 22, 214, 210, 18, 19, 211, 17, 209, 208, 16, 240, 48, 49, 241, 51, 243,
  242, 50, 54, 246, 247, 55, 245, 53, 52, 244, 60, 252, 253, 61, 255, 63, 62,
  254, 250, 58, 59, 251, 57, 249, 248, 56, 40, 232, 233, 41, 235, 43, 42, 234,
  238, 46, 47, 239, 45, 237, 236, 44, 228, 36, 37, 229, 39, 231, 230, 38, 34,
  226, 227, 35, 225, 33, 32, 224, 160, 96, 97, 161, 99, 163, 162, 98, 102,
  166, 167, 103, 165, 101, 100, 164, 108, 172, 173, 109, 175, 111, 110, 174,
  170, 106, 107, 171, 105, 169, 168, 104, 120, 184, 185, 121, 187, 123, 122,
  186, 190, 126, 127, 191, 125, 189, 188, 124, 180, 116, 117, 181, 119, 183,
  182, 118, 114, 178, 179, 115, 177, 113, 112, 176, 80, 144, 145, 81, 147, 83,
  82, 146, 150, 86, 87, 151, 85, 149, 148, 84, 156, 92, 93, 157, 95, 159, 158,
  94, 90, 154, 155, 91, 153, 89, 88, 152, 136, 72, 73, 137, 75, 139, 138, 74,
  78, 142, 143, 79, 141, 77, 76, 140, 68, 132, 133, 69, 135, 71, 70, 134, 130,
  66, 67, 131, 65, 129, 128, 64 >>

-----------------------------------------------------------------------------
Weights == <<1, 2, 4, 8, 16, 32, 64, 128>>
Bits(n) == {i \in 0 .. 7 : (n \div Weights[i + 1]) % 2 = 1}

Weight(byte, i) == IF i \in byte THEN Weights[i + 1] ELSE 0
Number(byte) ==
  Weight(byte, 0) + Weight(byte, 1) + Weight(byte, 2) + Weight(byte, 3)
    + Weight(byte, 4) + Weight(byte, 5) + Weight(byte, 6) + Weight(byte, 7)

Xor(a, b) == (a \ b) \cup (b \ a)

(* The tables count from 0.                                                 *)
(* Mutant: the byte meets the high half of the register.                   *)
CrcStepHigh(register, byte) ==
  LET iIndex == Number(Xor(register[1], byte))
  IN  <<Bits(AucCRCLo[iIndex + 1]), Xor(register[2], Bits(AucCRCHi[iIndex + 1]))>>

CrcStep(register, byte) ==
  LET iIndex == Number(Xor(register[2], byte))
  IN  <<Bits(AucCRCLo[iIndex + 1]), Xor(register[1], Bits(AucCRCHi[iIndex + 1]))>>

FrameInit == frame = <<>> /\ pucFrame = 0 /\ usLen = 0 /\ crc = <<0 .. 7, 0 .. 7>>

MoreFrame ==
  /\ pucFrame = 0 /\ Len(frame) < MaxFrame
  /\ \E n \in IF frame = <<>> THEN 0 .. 255 ELSE FrameBytes : frame' = Append(frame, Bits(n))
  /\ UNCHANGED <<pucFrame, usLen, crc>>

(* usLen has eight bits: of a longer frame only the rest is read.          *)
UsMBCRC16 ==
  /\ pucFrame = 0 /\ pucFrame' = 1
  /\ usLen' = Len(frame) % 256
  /\ UNCHANGED <<frame, crc>>

ReadByte ==
  /\ usLen # 0 /\ usLen' = usLen - 1
  /\ crc' = CrcStep(crc, frame[pucFrame]) /\ pucFrame' = pucFrame + 1
  /\ UNCHANGED frame

CrcDone == pucFrame # 0 /\ usLen = 0

FrameNext == MoreFrame \/ UsMBCRC16 \/ ReadByte

FrameSpec == FrameInit /\ [][FrameNext]_frameVars

-----------------------------------------------------------------------------
(* The definition of the Modbus checksum: the bytes are shifted, lowest    *)
(* bit first, into a register of sixteen bits, all set at first, and the   *)
(* polynomial 0xA001 is added for every bit that leaves it set.             *)
Polynomial == {0, 13, 15}

ShiftBit(register) ==
  Xor({i \in 0 .. 15 : i + 1 \in register}, IF 0 \in register THEN Polynomial ELSE {})

ShiftBits(register) == ShiftBit(ShiftBit(ShiftBit(ShiftBit(register))))

ShiftByte(register, byte) == ShiftBits(ShiftBits(Xor(register, byte)))

ModbusCrc(bytes, n) ==
  LET register[i \in 0 .. n] ==
        IF i = 0 THEN 0 .. 15 ELSE ShiftByte(register[i - 1], bytes[i])
  IN  register[n]

(* The two halves as one register of sixteen bits.                          *)
Register(halves) == {i \in 0 .. 15 : i \in halves[2] \/ i - 8 \in halves[1]}

(* The tables give the register that the polynomial defines, byte by byte, *)
(* to the last that usLen can count.                                        *)
TablesArePolynomial ==
  /\ pucFrame # 0 => Register(crc) = ModbusCrc(frame, pucFrame - 1)
  /\ CrcDone => pucFrame - 1 = Len(frame) % 256

(* A frame that is sent with its checksum, low byte first, checks to zero. *)
SentFramesCheck == CrcStep(CrcStep(crc, crc[2]), crc[1]) = <<{}, {}>>

(* What a checksum is for: a frame that was changed in one byte, or in two *)
(* that follow each other, has another one.                                 *)
Changed(i, m, n) ==
  [j \in DOMAIN frame |-> IF j = i THEN Bits(m) ELSE IF j = i + 1 THEN Bits(n) ELSE frame[j]]

BurstsAreDetected ==
  CrcDone =>
    \A i \in 1 .. pucFrame - 1, m, n \in FrameBytes :
      (\E j \in 1 .. pucFrame - 1 : Changed(i, m, n)[j] # frame[j]) =>
        ModbusCrc(Changed(i, m, n), pucFrame - 1) # Register(crc)

(* The checksum is the one of the Modbus protocol, and does what one is     *)
(* for.                                                                     *)
ChecksumIsModbus == TablesArePolynomial /\ SentFramesCheck /\ BurstsAreDetected
=============================================================================
