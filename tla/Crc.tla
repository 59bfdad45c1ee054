--------------------------------- MODULE Crc ---------------------------------
(***************************************************************************)
(* CRC16 as frameparser/crc.go and config/tool.go compute it, with the two *)
(* tables they hold, and the bitwise definition of CRC-16/MODBUS (start    *)
(* 0xFFFF, polynomial 0x8005 reflected, no final xor) to compare it with.  *)
(***************************************************************************)
EXTENDS Integers, Sequences

Byte == 0..255
Word == 0..65535

\* The halves of a byte, xored digit by digit: w is the weight of a digit.
Bit(n, w) == (n \div w) % 2
Differ(a, b, w) == IF Bit(a, w) = Bit(b, w) THEN 0 ELSE w
NibbleXor ==
  [a \in 0..15 |-> [b \in 0..15 |->
     Differ(a, b, 1) + Differ(a, b, 2) + Differ(a, b, 4) + Differ(a, b, 8)]]

Xor(a, b) == 16 * NibbleXor[a \div 16][b \div 16] + NibbleXor[a % 16][b % 16]

auchCRCHi == <<
  0, 193, 129, 64, 1, 192, 128, 65, 1, 192, 128, 65, 0, 193, 129, 64, 1, 192,
  128, 65, 0, 193, 129, 64, 0, 193, 129, 64, 1, 192, 128, 65, 1, 192, 128, 65,
  0, 193, 129, 64, 0, 193, 129, 64, 1, 192, 128, 65, 0, 193, 129, 64, 1, 192,
  128, 65, 1, 192, 128, 65, 0, 193, 129, 64, 1, 192, 128, 65, 0, 193, 129, 64,
  0, 193, 129, 64, 1, 192, 128, 65, 0, 193, 129, 64, 1, 192, 128, 65, 1, 192,
  128, 65, 0, 193, 129, 64, 0, 193, 129, 64, 1, 192, 128, 65, 1, 192, 128, 65,
  0, 193, 129, 64, 1, 192, 128, 65, 0, 193, 129, 64, 0, 193, 129, 64, 1, 192,
  128, 65, 1, 192, 128, 65, 0, 193, 129, 64, 0, 193, 129, 64, 1, 192, 128, 65,
  0, 193, 129, 64, 1, 192, 128, 65, 1, 192, 128, 65, 0, 193, 129, 64, 0, 193,
  129, 64, 1, 192, 128, 65, 1, 192, 128, 65, 0, 193, 129, 64, 1, 192, 128, 65,
  0, 193, 129, 64, 0, 193, 129, 64, 1, 192, 128, 65, 0, 193, 129, 64, 1, 192,
  128, 65, 1, 192, 128, 65, 0, 193, 129, 64, 1, 192, 128, 65, 0, 193, 129, 64,
  0, 193, 129, 64, 1, 192, 128, 65, 1, 192, 128, 65, 0, 193, 129, 64, 0, 193,
  129, 64, 1, 192, 128, 65, 0, 193, 129, 64, 1, 192, 128, 65, 1, 192, 128, 65,
  0, 193, 129, 64 >>

auchCRCLo == <<
  0, 192, 193, 1, 195, 3, 2, 194, 198, 6, 7, 199, 5, 197, 196, 4, 204, 12, 13,
  205, 15, 207, 206, 14, 10, 202, 203, 11, 201, 9, 8, 200, 216, 24, 25, 217,
  27, 219, 218, 26, 30, 222, 223, 31, 221, 29, 28, 220, 20, 212, 213, 21, 215,
  23, 22, 214, 210, 18, 19, 211, 17, 209, 208, 16, 240, 48, 49, 241, 51, 243,
  242, 50, 54, 246, 247, 55, 245, 53, 52, 244, 60, 252, 253, 61, 255, 63, 62,
  254, 250, 58, 59, 251, 57, 249, 248, 56, 40, 232, 233, 41, 235, 43, 42, 234,
  238, 46, 47, 239, 45, 237, 236, 44, 228, 36, 37, 229, 39, 231, 230, 38, 34,
  226, 227, 35, 225, 33, 32, 224, 160, 96, 97, 161, 99, 163, 162, 98, 102,
  166, 167, 103, 165, 101, 100, 164, 108, 172, 173, 109, 175, 111, 110, 174,
  170, 106, 107, 171, 105, 169, 168, 104, 120, 184, 185, 121, 187, 123, 122,
  186, 190, 126, 127, 191, 125, 189, 188, 124, 180, 116, 117, 181, 119, 183,
  182, 118, 114, 178, 179, 115, 177, 113, 112, 176, 80, 144, 145, 81, 147, 83,
  82, 146, 150, 86, 87, 151, 85, 149, 148, 84, 156, 92, 93, 157, 95, 159, 158,
  94, 90, 154, 155, 91, 153, 89, 88, 152, 136, 72, 73, 137, 75, 139, 138, 74,
  78, 142, 143, 79, 141, 77, 76, 140, 68, 132, 133, 69, 135, 71, 70, 134, 130,
  66, 67, 131, 65, 129, 128, 64 >>

-----------------------------------------------------------------------------
(* The program.                                                            *)

\* Mutant: the bytes of the register are not swapped on the way.
Step_noSwap(c, b) ==
  LET idx == Xor(c % 256, b) + 1
  IN  256 * auchCRCHi[idx] + Xor(c \div 256, auchCRCLo[idx])

\* One byte: by the table entries (1-based here) of the byte and crcLo.
Step(c, b) ==
  LET idx == Xor(c % 256, b) + 1
  IN  256 * auchCRCLo[idx] + Xor(c \div 256, auchCRCHi[idx])

\* c is crcHi and crcLo as one number; both start as 0xFF.
CRC16(data) ==
  LET step(b) == [c \in Word |-> Step(c, b)]
      crc[n \in 0..Len(data)] == IF n = 0 THEN 65535 ELSE step(data[n])[crc[n - 1]]
  IN  crc[Len(data)]

-----------------------------------------------------------------------------
(* The definition it stands for.                                           *)

Xor16(a, b) == 256 * Xor(a \div 256, b \div 256) + Xor(a % 256, b % 256)

Polynomial == 40961   \* 0xA001

\* Eight shifts to the right, each with the polynomial for the digit that falls out.
Shift(c) == IF c % 2 = 1 THEN Xor16(c \div 2, Polynomial) ELSE c \div 2
Shift8(c) ==
  LET shift == [d \in Word |-> Shift(d)]
  IN  shift[shift[shift[shift[shift[shift[shift[shift[c]]]]]]]]

BitwiseCRC(data) ==
  LET step(b) == [c \in Word |-> Shift8(Xor16(c, b))]
      crc[n \in 0..Len(data)] == IF n = 0 THEN 65535 ELSE step(data[n])[crc[n - 1]]
  IN  crc[Len(data)]
=============================================================================
