------------------------------- MODULE Checksum -------------------------------
(***************************************************************************)
(* The checksum of a file on its way through the file import              *)
(* (src/CTA/migration/gRPC/EosImportFiles.cpp): getNextBatch() turns the   *)
(* CHECKSUM column into the four bytes of the FileMdProto with             *)
(* convertChecksum(uint32_t), and saveFailedFiles() turns the bytes back   *)
(* into the number it writes to CTAFILESFAILED with                        *)
(* convertChecksum(const std::string &).  The bytes are plain char, which  *)
(* is signed or unsigned depending on the build: signedChar is that        *)
(* choice.                                                                 *)
(*                                                                         *)
(* The operators take the byte base B (256 in the code: 0xFF is B - 1, a   *)
(* shift by 8 is a product or quotient by B, the word is B^4), so that TLC *)
(* can run the same algorithm on every value of a smaller byte; the        *)
(* theorem at the end is for B = 256.                                      *)
(***************************************************************************)
EXTENDS Integers, TLAPS

CONSTANT ByteBits   \* bits per byte in the runs of TLC

ASSUME ByteBitsAssumption == ByteBits \in Nat \ {0}

\* The value of a uint32_t with bytes of base B.
Word(B) == B * B * B * B

\* Storing the byte value b (0..B-1) in a char: negative from B/2 up when
\* char is signed.
Char(B, b, sgn) == IF sgn /\ b >= B \div 2 THEN b - B ELSE b

\* Mutant: the cast to unsigned char forgotten, a signed char added as is.
UCharSignExtended(B, c) == c

\* static_cast<unsigned char>(c).
UChar(B, c) == c % B

\* Mutant: the bytes stored from i = 0 up, least significant first.
ToBytesLittleEndian(B, x, sgn) ==
  LET x1 == x \div B
      x2 == x1 \div B
      x3 == x2 \div B
      d3 == x % B
      d2 == x1 % B
      d1 == x2 % B
      d0 == x3 % B
  IN  <<Char(B, d3, sgn), Char(B, d2, sgn), Char(B, d1, sgn), Char(B, d0, sgn)>>

\* convertChecksum(uint32_t adler32): for i = 3 down to 0,
\* bytes[i] = adler32 & 0xFF, then adler32 >>= 8.
ToBytes(B, x, sgn) ==
  LET x1 == x \div B
      x2 == x1 \div B
      x3 == x2 \div B
      d3 == x % B
      d2 == x1 % B
      d1 == x2 % B
      d0 == x3 % B
  IN  <<Char(B, d0, sgn), Char(B, d1, sgn), Char(B, d2, sgn), Char(B, d3, sgn)>>

\* One iteration of convertChecksum(const std::string &): adler32 <<= 8;
\* adler32 += static_cast<unsigned char>(bytes[i]), in uint32_t.
Shift(B, acc, c) == (((acc * B) % Word(B)) + UChar(B, c)) % Word(B)

\* convertChecksum(const std::string &bytes), for i = 0 to 3.
FromBytes(B, s) == Shift(B, Shift(B, Shift(B, Shift(B, 0, s[1]), s[2]), s[3]), s[4])

-----------------------------------------------------------------------------
Base == 2^ByteBits

VARIABLES
  signedChar, \* the build's char is signed
  dbValue,    \* the CHECKSUM column of the row
  proto,      \* the bytes of file.checksum().value(), or <<>> before
  saved       \* the CHECKSUM saveFailedFiles() writes, or -1 before

vars == <<signedChar, dbValue, proto, saved>>

Init ==
  /\ signedChar \in BOOLEAN
  /\ dbValue \in 0..Word(Base) - 1
  /\ proto = <<>>
  /\ saved = -1

\* getNextBatch(): file.mutable_checksum()->set_value(convertChecksum(
\* m_selectFilesDbRset.columnUint64("CHECKSUM"))).
ReadRow ==
  /\ proto = <<>>
  /\ proto' = ToBytes(Base, dbValue, signedChar)
  /\ UNCHANGED <<signedChar, dbValue, saved>>

\* saveFailedFiles(): stmt.bindUint64(":CHECKSUM",
\* convertChecksum(file_it->checksum().value())).
SaveRow ==
  /\ proto # <<>> /\ saved = -1
  /\ saved' = FromBytes(Base, proto)
  /\ UNCHANGED <<signedChar, dbValue, proto>>

Next == ReadRow \/ SaveRow

Spec == Init /\ [][Next]_vars

-----------------------------------------------------------------------------
TypeOK ==
  /\ signedChar \in BOOLEAN
  /\ dbValue \in 0..Word(Base) - 1
  /\ proto \in {<<>>} \cup [1..4 -> -Base..Base - 1]
  /\ saved \in {-1} \cup 0..Word(Base) - 1

(***************************************************************************)
(* A failed file is recorded with the checksum it was read with, whether   *)
(* char is signed or not: the two convertChecksum() are inverse.           *)
(***************************************************************************)
RoundTrip == saved # -1 => saved = dbValue

-----------------------------------------------------------------------------
(***************************************************************************)
(* Proofs for the code's bytes, B = 256.                                   *)
(***************************************************************************)

\* Reading back with static_cast<unsigned char> the char a byte value was
\* stored in gives the byte value, for signed and for unsigned char.
LEMMA UCharOfChar ==
  ASSUME NEW b \in 0..255, NEW sgn \in BOOLEAN
  PROVE  UChar(256, Char(256, b, sgn)) = b
BY DEF UChar, Char

\* convertChecksum(const std::string &) undoes convertChecksum(uint32_t)
\* for every uint32_t and either signedness of char: the checksum
\* saveFailedFiles() writes is the one getNextBatch() read.
THEOREM ChecksumRoundTrip ==
  ASSUME NEW x \in Nat, x < Word(256), NEW sgn \in BOOLEAN
  PROVE  FromBytes(256, ToBytes(256, x, sgn)) = x
<1> DEFINE x1 == x \div 256
           x2 == x1 \div 256
           x3 == x2 \div 256
           d3 == x % 256
           d2 == x1 % 256
           d1 == x2 % 256
           d0 == x3 % 256
           s  == ToBytes(256, x, sgn)
<1> USE DEF x1, x2, x3, d0, d1, d2, d3
<1>1. x < 256 * 256 * 256 * 256
  BY DEF Word
<1>2. x = x1 * 256 + d3 /\ d3 \in 0..255 /\ x1 \in Nat /\ x1 < 256 * 256 * 256
  BY <1>1
<1>3. x1 = x2 * 256 + d2 /\ d2 \in 0..255 /\ x2 \in Nat /\ x2 < 256 * 256
  BY <1>2
<1>4. x2 = x3 * 256 + d1 /\ d1 \in 0..255 /\ x3 \in 0..255
  BY <1>3
<1>5. d0 = x3
  BY <1>4
<1>6. /\ UChar(256, s[1]) = d0 /\ UChar(256, s[2]) = d1
      /\ UChar(256, s[3]) = d2 /\ UChar(256, s[4]) = d3
  BY <1>2, <1>3, <1>4, <1>5, UCharOfChar DEF s, ToBytes
<1>7. Shift(256, 0, s[1]) = x3
  BY <1>4, <1>5, <1>6 DEF Shift, Word
<1>8. Shift(256, x3, s[2]) = x2
  BY <1>4, <1>6 DEF Shift, Word
<1>9. Shift(256, x2, s[3]) = x1
  BY <1>3, <1>6 DEF Shift, Word
<1>10. Shift(256, x1, s[4]) = x
  BY <1>2, <1>6 DEF Shift, Word
<1>11. QED
  BY <1>7, <1>8, <1>9, <1>10 DEF FromBytes

(***************************************************************************)
(* The invariant behind RoundTrip: the bytes held are those of the row,    *)
(* and a saved checksum was computed from them.                            *)
(***************************************************************************)
IInv ==
  /\ signedChar \in BOOLEAN
  /\ dbValue \in Nat /\ dbValue < Word(Base)
  /\ proto = <<>> \/ proto = ToBytes(Base, dbValue, signedChar)
  /\ saved = -1 \/ (proto # <<>> /\ saved = dbValue)

\* With the code's 8-bit char, the bytes are those of base 256.
LEMMA BaseOfCode ==
  ASSUME ByteBits = 8
  PROVE  Base = 256
BY DEF Base

\* With the code's 8-bit char, IInv holds in every state.
LEMMA CodeIInv ==
  ASSUME ByteBits = 8
  PROVE  Spec => []IInv
<1>1. Init => IInv
  BY BaseOfCode DEF Init, IInv, Word
<1>2. IInv /\ [Next]_vars => IInv'
  <2> SUFFICES ASSUME IInv, [Next]_vars PROVE IInv'
    OBVIOUS
  <2>1. CASE ReadRow
    BY <2>1 DEF ReadRow, IInv
  <2>2. CASE SaveRow
    <3>1. proto = ToBytes(Base, dbValue, signedChar)
      BY <2>2 DEF SaveRow, IInv
    <3>2. FromBytes(Base, proto) = dbValue
      BY <3>1, BaseOfCode, ChecksumRoundTrip DEF IInv
    <3>3. QED
      BY <2>2, <3>2 DEF SaveRow, IInv
  <2>3. CASE UNCHANGED vars
    BY <2>3 DEF vars, IInv
  <2>4. QED
    BY <2>1, <2>2, <2>3 DEF Next
<1>3. QED
  BY <1>1, <1>2, PTL DEF Spec

\* With the code's 8-bit char, every failed file that saveFailedFiles()
\* records carries the checksum getNextBatch() read for it (RoundTrip).
THEOREM CodeRoundTrip ==
  ASSUME ByteBits = 8
  PROVE  Spec => []RoundTrip
<1>1. IInv => RoundTrip
  BY DEF IInv, RoundTrip
<1>2. QED
  BY <1>1, CodeIInv, PTL

\* The bytes convertChecksum(uint32_t) produces fit in a char, signed or
\* unsigned.
LEMMA ToBytesType ==
  ASSUME NEW x \in Nat, NEW sgn \in BOOLEAN
  PROVE  ToBytes(256, x, sgn) \in [1..4 -> -256..255]
BY DEF ToBytes, Char

\* With the code's 8-bit char, every state of the import has the types of
\* TypeOK.
THEOREM CodeTypeCorrect ==
  ASSUME ByteBits = 8
  PROVE  Spec => []TypeOK
<1>1. IInv => TypeOK
  <2> SUFFICES ASSUME IInv PROVE TypeOK
    OBVIOUS
  <2>1. proto \in {<<>>} \cup [1..4 -> -Base..Base - 1]
    <3>1. Base = 256
      BY BaseOfCode
    <3>2. CASE proto = <<>>
      BY <3>2
    <3>3. CASE proto = ToBytes(256, dbValue, signedChar)
      <4>1. ToBytes(256, dbValue, signedChar) \in [1..4 -> -256..255]
        BY ToBytesType DEF IInv
      <4>2. [1..4 -> -256..255] = [1..4 -> -Base..Base - 1]
        BY <3>1
      <4>3. QED
        BY <3>3, <4>1, <4>2
    <3>4. QED
      BY <3>1, <3>2, <3>3 DEF IInv
  <2>2. QED
    BY <2>1, BaseOfCode DEF IInv, TypeOK, Word
<1>2. QED
  BY <1>1, CodeIInv, PTL

====
