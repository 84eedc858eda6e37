------------------------- MODULE UtilCompressProofs -------------------------
(***************************************************************************)
(* The byte buffers, masks, shifts, tables and tree of util-compress.cpp   *)
(* implement the code of HuffmanCode, for every input.  The argument: a    *)
(* push leaves the bits already written alone, writes those of the value   *)
(* and keeps zeros behind them, so that the buffer is the sequence of      *)
(* codewords; and the decoder's node is the beginning of a codeword that   *)
(* stands where the last symbol ended.                                     *)
(***************************************************************************)
EXTENDS UtilCompress, SequenceLemmas, TLAPS

(* The state of HuffmanCode: the marks of the codewords written, the bits, *)
(* the bit the decoder's codeword begins at and the symbols decoded.       *)
Marks    == [i \in 1 .. bytes |-> Ends[i]]
Content  == BitsOf(bf)
Position == bitPosition - Len(n)
Decoded  == SubSeq(out, Skipped + 1, Len(out))

HP == INSTANCE HuffmanCodeProofs WITH
  Sources <- {SymbolsOf(i) : i \in Inputs},
  src     <- Symbols,
  marks   <- Marks,
  bits    <- Content,
  pos     <- Position,
  out     <- Decoded

-----------------------------------------------------------------------------
(* Bits of a byte, from the highest: Bit(b, 1) to Bit(b, 8).               *)

Bit(b, k) == (b \div 2 ^ (8 - k)) % 2

Places == {1, 2, 3, 4, 5, 6, 7, 8}

LEMMA Powers ==
  /\ 2 ^ 0 = 1 /\ 2 ^ 1 = 2 /\ 2 ^ 2 = 4 /\ 2 ^ 3 = 8 /\ 2 ^ 4 = 16
  /\ 2 ^ 5 = 32 /\ 2 ^ 6 = 64 /\ 2 ^ 7 = 128 /\ 2 ^ 8 = 256
OBVIOUS

LEMMA PowerType ==
  ASSUME NEW e \in {0, 1, 2, 3, 4, 5, 6, 7}
  PROVE  2 ^ e \in {1, 2, 4, 8, 16, 32, 64, 128}
<1>0. CASE e = 0
  BY <1>0, Powers
<1>1. CASE e = 1
  BY <1>1, Powers
<1>2. CASE e = 2
  BY <1>2, Powers
<1>3. CASE e = 3
  BY <1>3, Powers
<1>4. CASE e = 4
  BY <1>4, Powers
<1>5. CASE e = 5
  BY <1>5, Powers
<1>6. CASE e = 6
  BY <1>6, Powers
<1>7. CASE e = 7
  BY <1>7, Powers
<1> QED
  BY <1>0, <1>1, <1>2, <1>3, <1>4, <1>5, <1>6, <1>7

LEMMA Bits ==
  ASSUME NEW b \in Byte
  PROVE  /\ Bit(b, 1) = b \div 128 /\ Bit(b, 2) = (b \div 64) % 2
         /\ Bit(b, 3) = (b \div 32) % 2 /\ Bit(b, 4) = (b \div 16) % 2
         /\ Bit(b, 5) = (b \div 8) % 2 /\ Bit(b, 6) = (b \div 4) % 2
         /\ Bit(b, 7) = (b \div 2) % 2 /\ Bit(b, 8) = b % 2
BY Powers DEF Bit, Byte

(* A byte is the sum of its bits.                                          *)
LEMMA SumOfBits ==
  ASSUME NEW b \in Byte
  PROVE  /\ Bit(b, 1) \in {0, 1} /\ Bit(b, 2) \in {0, 1} /\ Bit(b, 3) \in {0, 1}
         /\ Bit(b, 4) \in {0, 1} /\ Bit(b, 5) \in {0, 1} /\ Bit(b, 6) \in {0, 1}
         /\ Bit(b, 7) \in {0, 1} /\ Bit(b, 8) \in {0, 1}
         /\ b = 128 * Bit(b, 1) + 64 * Bit(b, 2) + 32 * Bit(b, 3) + 16 * Bit(b, 4)
                  + 8 * Bit(b, 5) + 4 * Bit(b, 6) + 2 * Bit(b, 7) + Bit(b, 8)
BY Powers DEF Bit, Byte

LEMMA BitsOfByte ==
  ASSUME NEW b \in Byte
  PROVE  \A k \in 1 .. 8 : Bit(b, k) \in {0, 1} /\ Bit(b, k) = HP!Bits8(b)[k]
<1>1. \A k \in Places : Bit(b, k) \in {0, 1} /\ Bit(b, k) = HP!Bits8(b)[k]
  BY SumOfBits, Bits DEF Places, HP!Bits8
<1> QED
  BY <1>1 DEF Places

(* A byte made of bits.                                                    *)
LEMMA ByteOfBits ==
  ASSUME NEW b1 \in {0, 1}, NEW b2 \in {0, 1}, NEW b3 \in {0, 1}, NEW b4 \in {0, 1},
         NEW b5 \in {0, 1}, NEW b6 \in {0, 1}, NEW b7 \in {0, 1}, NEW b8 \in {0, 1},
         NEW b, b = 128 * b1 + 64 * b2 + 32 * b3 + 16 * b4 + 8 * b5 + 4 * b6 + 2 * b7 + b8
  PROVE  /\ b \in Byte
         /\ Bit(b, 1) = b1 /\ Bit(b, 2) = b2 /\ Bit(b, 3) = b3 /\ Bit(b, 4) = b4
         /\ Bit(b, 5) = b5 /\ Bit(b, 6) = b6 /\ Bit(b, 7) = b7 /\ Bit(b, 8) = b8
BY Powers DEF Bit, Byte

LEMMA HalvesOfSum ==
  ASSUME NEW a1 \in {0, 1}, NEW a2 \in {0, 1}, NEW a3 \in {0, 1}, NEW a4 \in {0, 1},
         NEW a5 \in {0, 1}, NEW a6 \in {0, 1}, NEW a7 \in {0, 1}, NEW a8 \in {0, 1},
         NEW a, a = 128 * a1 + 64 * a2 + 32 * a3 + 16 * a4 + 8 * a5 + 4 * a6 + 2 * a7 + a8
  PROVE  /\ a % 128 = 64 * a2 + 32 * a3 + 16 * a4 + 8 * a5 + 4 * a6 + 2 * a7 + a8
         /\ a \div 128 = a1
         /\ a % 64 = 32 * a3 + 16 * a4 + 8 * a5 + 4 * a6 + 2 * a7 + a8
         /\ a \div 64 = 2 * a1 + a2
         /\ a % 32 = 16 * a4 + 8 * a5 + 4 * a6 + 2 * a7 + a8
         /\ a \div 32 = 4 * a1 + 2 * a2 + a3
         /\ a % 16 = 8 * a5 + 4 * a6 + 2 * a7 + a8
         /\ a \div 16 = 8 * a1 + 4 * a2 + 2 * a3 + a4
         /\ a % 8 = 4 * a6 + 2 * a7 + a8
         /\ a \div 8 = 16 * a1 + 8 * a2 + 4 * a3 + 2 * a4 + a5
         /\ a % 4 = 2 * a7 + a8
         /\ a \div 4 = 32 * a1 + 16 * a2 + 8 * a3 + 4 * a4 + 2 * a5 + a6
         /\ a % 2 = a8
         /\ a \div 2 = 64 * a1 + 32 * a2 + 16 * a3 + 8 * a4 + 4 * a5 + 2 * a6 + a7
<1>1. a % 128 = 64 * a2 + 32 * a3 + 16 * a4 + 8 * a5 + 4 * a6 + 2 * a7 + a8 /\ a \div 128 = a1
  OBVIOUS
<1>2. a % 64 = 32 * a3 + 16 * a4 + 8 * a5 + 4 * a6 + 2 * a7 + a8 /\ a \div 64 = 2 * a1 + a2
  OBVIOUS
<1>3. a % 32 = 16 * a4 + 8 * a5 + 4 * a6 + 2 * a7 + a8 /\ a \div 32 = 4 * a1 + 2 * a2 + a3
  OBVIOUS
<1>4. a % 16 = 8 * a5 + 4 * a6 + 2 * a7 + a8 /\ a \div 16 = 8 * a1 + 4 * a2 + 2 * a3 + a4
  OBVIOUS
<1>5. a % 8 = 4 * a6 + 2 * a7 + a8 /\ a \div 8 = 16 * a1 + 8 * a2 + 4 * a3 + 2 * a4 + a5
  OBVIOUS
<1>6. a % 4 = 2 * a7 + a8 /\ a \div 4 = 32 * a1 + 16 * a2 + 8 * a3 + 4 * a4 + 2 * a5 + a6
  OBVIOUS
<1>7. a % 2 = a8 /\ a \div 2 = 64 * a1 + 32 * a2 + 16 * a3 + 8 * a4 + 4 * a5 + 2 * a6 + a7
  OBVIOUS
<1> QED
  BY <1>1, <1>2, <1>3, <1>4, <1>5, <1>6, <1>7

(* The bits on either side of the first r.                                 *)
LEMMA Halves ==
  ASSUME NEW a \in Byte
  PROVE  /\ a % 128 = 64 * Bit(a, 2) + 32 * Bit(a, 3) + 16 * Bit(a, 4)
                + 8 * Bit(a, 5) + 4 * Bit(a, 6) + 2 * Bit(a, 7) + Bit(a, 8)
         /\ a \div 128 = Bit(a, 1)
         /\ a % 64 = 32 * Bit(a, 3) + 16 * Bit(a, 4) + 8 * Bit(a, 5)
                 + 4 * Bit(a, 6) + 2 * Bit(a, 7) + Bit(a, 8)
         /\ a \div 64 = 2 * Bit(a, 1) + Bit(a, 2)
         /\ a % 32 = 16 * Bit(a, 4) + 8 * Bit(a, 5) + 4 * Bit(a, 6) + 2 * Bit(a, 7) + Bit(a, 8)
         /\ a \div 32 = 4 * Bit(a, 1) + 2 * Bit(a, 2) + Bit(a, 3)
         /\ a % 16 = 8 * Bit(a, 5) + 4 * Bit(a, 6) + 2 * Bit(a, 7) + Bit(a, 8)
         /\ a \div 16 = 8 * Bit(a, 1) + 4 * Bit(a, 2) + 2 * Bit(a, 3) + Bit(a, 4)
         /\ a % 8 = 4 * Bit(a, 6) + 2 * Bit(a, 7) + Bit(a, 8)
         /\ a \div 8 = 16 * Bit(a, 1) + 8 * Bit(a, 2) + 4 * Bit(a, 3)
                 + 2 * Bit(a, 4) + Bit(a, 5)
         /\ a % 4 = 2 * Bit(a, 7) + Bit(a, 8)
         /\ a \div 4 = 32 * Bit(a, 1) + 16 * Bit(a, 2) + 8 * Bit(a, 3)
                 + 4 * Bit(a, 4) + 2 * Bit(a, 5) + Bit(a, 6)
         /\ a % 2 = Bit(a, 8)
         /\ a \div 2 = 64 * Bit(a, 1) + 32 * Bit(a, 2) + 16 * Bit(a, 3)
                 + 8 * Bit(a, 4) + 4 * Bit(a, 5) + 2 * Bit(a, 6) + Bit(a, 7)
BY SumOfBits, HalvesOfSum

(* a | b                                                                   *)
LEMMA OrBits ==
  ASSUME NEW a \in Byte, NEW b \in Byte
  PROVE  /\ Or(a, b) \in Byte
         /\ \A k \in Places : Bit(Or(a, b), k) = IF Bit(a, k) = 1 \/ Bit(b, k) = 1 THEN 1 ELSE 0
<1> DEFINE o(k) == IF Bit(a, k) = 1 \/ Bit(b, k) = 1 THEN 1 ELSE 0
<1>1. Or(a, b) = 128 * o(1) + 64 * o(2) + 32 * o(3) + 16 * o(4) + 8 * o(5)
        + 4 * o(6) + 2 * o(7) + o(8)
  BY Powers DEF Or, Low, Shr, Bit
<1>2. /\ o(1) \in {0, 1} /\ o(2) \in {0, 1} /\ o(3) \in {0, 1} /\ o(4) \in {0, 1}
      /\ o(5) \in {0, 1} /\ o(6) \in {0, 1} /\ o(7) \in {0, 1} /\ o(8) \in {0, 1}
  OBVIOUS
<1> HIDE DEF o
<1>3. /\ Or(a, b) \in Byte
      /\ Bit(Or(a, b), 1) = o(1) /\ Bit(Or(a, b), 2) = o(2)
      /\ Bit(Or(a, b), 3) = o(3) /\ Bit(Or(a, b), 4) = o(4)
      /\ Bit(Or(a, b), 5) = o(5) /\ Bit(Or(a, b), 6) = o(6)
      /\ Bit(Or(a, b), 7) = o(7) /\ Bit(Or(a, b), 8) = o(8)
  BY <1>1, <1>2, ByteOfBits
<1> QED
  BY <1>3 DEF o, Places

(* The bits of a byte behind the first r are zero.                         *)
ZeroBehind(c, r) == c % 2 ^ (8 - r) = 0

LEMMA FreeBits ==
  ASSUME NEW b \in Byte, NEW r \in {1, 2, 3, 4, 5, 6, 7}, ZeroBehind(b, r)
  PROVE  \A k \in Places : k > r => Bit(b, k) = 0
<1>1. CASE r = 1
  <2>1. b % 128 = 0
    BY <1>1, Powers DEF ZeroBehind
  <2> QED
    BY <1>1, <2>1, Halves, SumOfBits DEF Places
<1>2. CASE r = 2
  <2>1. b % 64 = 0
    BY <1>2, Powers DEF ZeroBehind
  <2> QED
    BY <1>2, <2>1, Halves, SumOfBits DEF Places
<1>3. CASE r = 3
  <2>1. b % 32 = 0
    BY <1>3, Powers DEF ZeroBehind
  <2> QED
    BY <1>3, <2>1, Halves, SumOfBits DEF Places
<1>4. CASE r = 4
  <2>1. b % 16 = 0
    BY <1>4, Powers DEF ZeroBehind
  <2> QED
    BY <1>4, <2>1, Halves, SumOfBits DEF Places
<1>5. CASE r = 5
  <2>1. b % 8 = 0
    BY <1>5, Powers DEF ZeroBehind
  <2> QED
    BY <1>5, <2>1, Halves, SumOfBits DEF Places
<1>6. CASE r = 6
  <2>1. b % 4 = 0
    BY <1>6, Powers DEF ZeroBehind
  <2> QED
    BY <1>6, <2>1, Halves, SumOfBits DEF Places
<1>7. CASE r = 7
  <2>1. b % 2 = 0
    BY <1>7, Powers DEF ZeroBehind
  <2> QED
    BY <1>7, <2>1, Halves, SumOfBits DEF Places
<1> QED
  BY <1>1, <1>2, <1>3, <1>4, <1>5, <1>6, <1>7

(* The padding bits, 0x55 shifted behind the bits of the last byte.        *)
LEMMA PaddingBits ==
  ASSUME NEW r \in {1, 2, 3, 4, 5, 6, 7}
  PROVE  /\ Shr(85, r) \in Byte
         /\ \A k \in Places : Bit(Shr(85, r), k) = IF k <= r THEN 0 ELSE HP!Filler[k - r]
<1>1. CASE r = 1
  BY <1>1, Powers DEF Bit, Byte, Places, Shr, HP!Filler
<1>2. CASE r = 2
  BY <1>2, Powers DEF Bit, Byte, Places, Shr, HP!Filler
<1>3. CASE r = 3
  BY <1>3, Powers DEF Bit, Byte, Places, Shr, HP!Filler
<1>4. CASE r = 4
  BY <1>4, Powers DEF Bit, Byte, Places, Shr, HP!Filler
<1>5. CASE r = 5
  BY <1>5, Powers DEF Bit, Byte, Places, Shr, HP!Filler
<1>6. CASE r = 6
  BY <1>6, Powers DEF Bit, Byte, Places, Shr, HP!Filler
<1>7. CASE r = 7
  BY <1>7, Powers DEF Bit, Byte, Places, Shr, HP!Filler
<1> QED
  BY <1>1, <1>2, <1>3, <1>4, <1>5, <1>6, <1>7

(* The bits of a value of size bits, from the highest.                     *)
ValueBit(value, size, k) == (value \div 2 ^ (size - k)) % 2

(* A value of no more than u bits.                                         *)
OfBits(f, u) == f \in Nat /\ f < 2 ^ u

(* The u bits that PushSome() puts into a byte behind the first r.         *)
Spliced(c, f, r, u) == c + (f - Low(Shr(c, 8 - r - u), u)) * 2 ^ (8 - r - u)

LEMMA Splice ==
  ASSUME NEW c \in Byte, NEW r \in {0, 1, 2, 3, 4, 5, 6, 7}, NEW u \in Places,
         r + u <= 8, ZeroBehind(c, r), NEW f, OfBits(f, u)
  PROVE  /\ Spliced(c, f, r, u) \in Byte /\ ZeroBehind(Spliced(c, f, r, u), r + u)
         /\ \A k \in Places : k <= r => Bit(Spliced(c, f, r, u), k) = Bit(c, k)
         /\ \A k \in Places :
              k <= u => Bit(Spliced(c, f, r, u), r + k) = ValueBit(f, u, k)
<1> DEFINE b == Spliced(c, f, r, u)
<1>b. b = c + (f - Low(Shr(c, 8 - r - u), u)) * 2 ^ (8 - r - u)
  BY DEF Spliced
<1> HIDE DEF b
<1> SUFFICES /\ b \in Byte /\ ZeroBehind(b, r + u)
             /\ \A k \in Places : k <= r => Bit(b, k) = Bit(c, k)
             /\ \A k \in Places : k <= u => Bit(b, r + k) = ValueBit(f, u, k)
  BY DEF b
<1>0. CASE r = 0
  <2>1. CASE u = 1
    BY <1>b, <1>0, <2>1, Powers, SMTT(60)
       DEF ZeroBehind, OfBits, Bit, ValueBit, Low, Shr, Byte, Places
  <2>2. CASE u = 2
    BY <1>b, <1>0, <2>2, Powers, SMTT(60)
       DEF ZeroBehind, OfBits, Bit, ValueBit, Low, Shr, Byte, Places
  <2>3. CASE u = 3
    BY <1>b, <1>0, <2>3, Powers, SMTT(60)
       DEF ZeroBehind, OfBits, Bit, ValueBit, Low, Shr, Byte, Places
  <2>4. CASE u = 4
    BY <1>b, <1>0, <2>4, Powers, SMTT(60)
       DEF ZeroBehind, OfBits, Bit, ValueBit, Low, Shr, Byte, Places
  <2>5. CASE u = 5
    BY <1>b, <1>0, <2>5, Powers, SMTT(60)
       DEF ZeroBehind, OfBits, Bit, ValueBit, Low, Shr, Byte, Places
  <2>6. CASE u = 6
    BY <1>b, <1>0, <2>6, Powers, SMTT(60)
       DEF ZeroBehind, OfBits, Bit, ValueBit, Low, Shr, Byte, Places
  <2>7. CASE u = 7
    BY <1>b, <1>0, <2>7, Powers, SMTT(60)
       DEF ZeroBehind, OfBits, Bit, ValueBit, Low, Shr, Byte, Places
  <2>8. CASE u = 8
    BY <1>b, <1>0, <2>8, Powers, SMTT(60)
       DEF ZeroBehind, OfBits, Bit, ValueBit, Low, Shr, Byte, Places
  <2> QED
    BY <1>0, <2>1, <2>2, <2>3, <2>4, <2>5, <2>6, <2>7, <2>8 DEF Places
<1>1. CASE r = 1
  <2>1. CASE u = 1
    BY <1>b, <1>1, <2>1, Powers, SMTT(60)
       DEF ZeroBehind, OfBits, Bit, ValueBit, Low, Shr, Byte, Places
  <2>2. CASE u = 2
    BY <1>b, <1>1, <2>2, Powers, SMTT(60)
       DEF ZeroBehind, OfBits, Bit, ValueBit, Low, Shr, Byte, Places
  <2>3. CASE u = 3
    BY <1>b, <1>1, <2>3, Powers, SMTT(60)
       DEF ZeroBehind, OfBits, Bit, ValueBit, Low, Shr, Byte, Places
  <2>4. CASE u = 4
    BY <1>b, <1>1, <2>4, Powers, SMTT(60)
       DEF ZeroBehind, OfBits, Bit, ValueBit, Low, Shr, Byte, Places
  <2>5. CASE u = 5
    BY <1>b, <1>1, <2>5, Powers, SMTT(60)
       DEF ZeroBehind, OfBits, Bit, ValueBit, Low, Shr, Byte, Places
  <2>6. CASE u = 6
    BY <1>b, <1>1, <2>6, Powers, SMTT(60)
       DEF ZeroBehind, OfBits, Bit, ValueBit, Low, Shr, Byte, Places
  <2>7. CASE u = 7
    BY <1>b, <1>1, <2>7, Powers, SMTT(60)
       DEF ZeroBehind, OfBits, Bit, ValueBit, Low, Shr, Byte, Places
  <2> QED
    BY <1>1, <2>1, <2>2, <2>3, <2>4, <2>5, <2>6, <2>7 DEF Places
<1>2. CASE r = 2
  <2>1. CASE u = 1
    BY <1>b, <1>2, <2>1, Powers, SMTT(60)
       DEF ZeroBehind, OfBits, Bit, ValueBit, Low, Shr, Byte, Places
  <2>2. CASE u = 2
    BY <1>b, <1>2, <2>2, Powers, SMTT(60)
       DEF ZeroBehind, OfBits, Bit, ValueBit, Low, Shr, Byte, Places
  <2>3. CASE u = 3
    BY <1>b, <1>2, <2>3, Powers, SMTT(60)
       DEF ZeroBehind, OfBits, Bit, ValueBit, Low, Shr, Byte, Places
  <2>4. CASE u = 4
    BY <1>b, <1>2, <2>4, Powers, SMTT(60)
       DEF ZeroBehind, OfBits, Bit, ValueBit, Low, Shr, Byte, Places
  <2>5. CASE u = 5
    BY <1>b, <1>2, <2>5, Powers, SMTT(60)
       DEF ZeroBehind, OfBits, Bit, ValueBit, Low, Shr, Byte, Places
  <2>6. CASE u = 6
    BY <1>b, <1>2, <2>6, Powers, SMTT(60)
       DEF ZeroBehind, OfBits, Bit, ValueBit, Low, Shr, Byte, Places
  <2> QED
    BY <1>2, <2>1, <2>2, <2>3, <2>4, <2>5, <2>6 DEF Places
<1>3. CASE r = 3
  <2>1. CASE u = 1
    BY <1>b, <1>3, <2>1, Powers, SMTT(60)
       DEF ZeroBehind, OfBits, Bit, ValueBit, Low, Shr, Byte, Places
  <2>2. CASE u = 2
    BY <1>b, <1>3, <2>2, Powers, SMTT(60)
       DEF ZeroBehind, OfBits, Bit, ValueBit, Low, Shr, Byte, Places
  <2>3. CASE u = 3
    BY <1>b, <1>3, <2>3, Powers, SMTT(60)
       DEF ZeroBehind, OfBits, Bit, ValueBit, Low, Shr, Byte, Places
  <2>4. CASE u = 4
    BY <1>b, <1>3, <2>4, Powers, SMTT(60)
       DEF ZeroBehind, OfBits, Bit, ValueBit, Low, Shr, Byte, Places
  <2>5. CASE u = 5
    BY <1>b, <1>3, <2>5, Powers, SMTT(60)
       DEF ZeroBehind, OfBits, Bit, ValueBit, Low, Shr, Byte, Places
  <2> QED
    BY <1>3, <2>1, <2>2, <2>3, <2>4, <2>5 DEF Places
<1>4. CASE r = 4
  <2>1. CASE u = 1
    BY <1>b, <1>4, <2>1, Powers, SMTT(60)
       DEF ZeroBehind, OfBits, Bit, ValueBit, Low, Shr, Byte, Places
  <2>2. CASE u = 2
    BY <1>b, <1>4, <2>2, Powers, SMTT(60)
       DEF ZeroBehind, OfBits, Bit, ValueBit, Low, Shr, Byte, Places
  <2>3. CASE u = 3
    BY <1>b, <1>4, <2>3, Powers, SMTT(60)
       DEF ZeroBehind, OfBits, Bit, ValueBit, Low, Shr, Byte, Places
  <2>4. CASE u = 4
    BY <1>b, <1>4, <2>4, Powers, SMTT(60)
       DEF ZeroBehind, OfBits, Bit, ValueBit, Low, Shr, Byte, Places
  <2> QED
    BY <1>4, <2>1, <2>2, <2>3, <2>4 DEF Places
<1>5. CASE r = 5
  <2>1. CASE u = 1
    BY <1>b, <1>5, <2>1, Powers, SMTT(60)
       DEF ZeroBehind, OfBits, Bit, ValueBit, Low, Shr, Byte, Places
  <2>2. CASE u = 2
    BY <1>b, <1>5, <2>2, Powers, SMTT(60)
       DEF ZeroBehind, OfBits, Bit, ValueBit, Low, Shr, Byte, Places
  <2>3. CASE u = 3
    BY <1>b, <1>5, <2>3, Powers, SMTT(60)
       DEF ZeroBehind, OfBits, Bit, ValueBit, Low, Shr, Byte, Places
  <2> QED
    BY <1>5, <2>1, <2>2, <2>3 DEF Places
<1>6. CASE r = 6
  <2>1. CASE u = 1
    BY <1>b, <1>6, <2>1, Powers, SMTT(60)
       DEF ZeroBehind, OfBits, Bit, ValueBit, Low, Shr, Byte, Places
  <2>2. CASE u = 2
    BY <1>b, <1>6, <2>2, Powers, SMTT(60)
       DEF ZeroBehind, OfBits, Bit, ValueBit, Low, Shr, Byte, Places
  <2> QED
    BY <1>6, <2>1, <2>2 DEF Places
<1>7. CASE r = 7
  <2>1. CASE u = 1
    BY <1>b, <1>7, <2>1, Powers, SMTT(60)
       DEF ZeroBehind, OfBits, Bit, ValueBit, Low, Shr, Byte, Places
  <2> QED
    BY <1>7, <2>1 DEF Places
<1> QED
  BY <1>0, <1>1, <1>2, <1>3, <1>4, <1>5, <1>6, <1>7

(* The u highest of them.                                                  *)
LEMMA HighBits ==
  ASSUME NEW value \in Byte, NEW size \in Places, NEW u \in Places, u <= size
  PROVE  /\ OfBits(Low(Shr(value, size - u), u), u)
         /\ \A k \in Places : k <= u =>
              ValueBit(Low(Shr(value, size - u), u), u, k) = ValueBit(value, size, k)
<1>1. CASE size = 1
  <2>1. CASE u = 1
    BY <1>1, <2>1, Powers, SMTT(60) DEF OfBits, ValueBit, Low, Shr, Byte, Places
  <2> QED
    BY <1>1, <2>1 DEF Places
<1>2. CASE size = 2
  <2>1. CASE u = 1
    BY <1>2, <2>1, Powers, SMTT(60) DEF OfBits, ValueBit, Low, Shr, Byte, Places
  <2>2. CASE u = 2
    BY <1>2, <2>2, Powers, SMTT(60) DEF OfBits, ValueBit, Low, Shr, Byte, Places
  <2> QED
    BY <1>2, <2>1, <2>2 DEF Places
<1>3. CASE size = 3
  <2>1. CASE u = 1
    BY <1>3, <2>1, Powers, SMTT(60) DEF OfBits, ValueBit, Low, Shr, Byte, Places
  <2>2. CASE u = 2
    BY <1>3, <2>2, Powers, SMTT(60) DEF OfBits, ValueBit, Low, Shr, Byte, Places
  <2>3. CASE u = 3
    BY <1>3, <2>3, Powers, SMTT(60) DEF OfBits, ValueBit, Low, Shr, Byte, Places
  <2> QED
    BY <1>3, <2>1, <2>2, <2>3 DEF Places
<1>4. CASE size = 4
  <2>1. CASE u = 1
    BY <1>4, <2>1, Powers, SMTT(60) DEF OfBits, ValueBit, Low, Shr, Byte, Places
  <2>2. CASE u = 2
    BY <1>4, <2>2, Powers, SMTT(60) DEF OfBits, ValueBit, Low, Shr, Byte, Places
  <2>3. CASE u = 3
    BY <1>4, <2>3, Powers, SMTT(60) DEF OfBits, ValueBit, Low, Shr, Byte, Places
  <2>4. CASE u = 4
    BY <1>4, <2>4, Powers, SMTT(60) DEF OfBits, ValueBit, Low, Shr, Byte, Places
  <2> QED
    BY <1>4, <2>1, <2>2, <2>3, <2>4 DEF Places
<1>5. CASE size = 5
  <2>1. CASE u = 1
    BY <1>5, <2>1, Powers, SMTT(60) DEF OfBits, ValueBit, Low, Shr, Byte, Places
  <2>2. CASE u = 2
    BY <1>5, <2>2, Powers, SMTT(60) DEF OfBits, ValueBit, Low, Shr, Byte, Places
  <2>3. CASE u = 3
    BY <1>5, <2>3, Powers, SMTT(60) DEF OfBits, ValueBit, Low, Shr, Byte, Places
  <2>4. CASE u = 4
    BY <1>5, <2>4, Powers, SMTT(60) DEF OfBits, ValueBit, Low, Shr, Byte, Places
  <2>5. CASE u = 5
    BY <1>5, <2>5, Powers, SMTT(60) DEF OfBits, ValueBit, Low, Shr, Byte, Places
  <2> QED
    BY <1>5, <2>1, <2>2, <2>3, <2>4, <2>5 DEF Places
<1>6. CASE size = 6
  <2>1. CASE u = 1
    BY <1>6, <2>1, Powers, SMTT(60) DEF OfBits, ValueBit, Low, Shr, Byte, Places
  <2>2. CASE u = 2
    BY <1>6, <2>2, Powers, SMTT(60) DEF OfBits, ValueBit, Low, Shr, Byte, Places
  <2>3. CASE u = 3
    BY <1>6, <2>3, Powers, SMTT(60) DEF OfBits, ValueBit, Low, Shr, Byte, Places
  <2>4. CASE u = 4
    BY <1>6, <2>4, Powers, SMTT(60) DEF OfBits, ValueBit, Low, Shr, Byte, Places
  <2>5. CASE u = 5
    BY <1>6, <2>5, Powers, SMTT(60) DEF OfBits, ValueBit, Low, Shr, Byte, Places
  <2>6. CASE u = 6
    BY <1>6, <2>6, Powers, SMTT(60) DEF OfBits, ValueBit, Low, Shr, Byte, Places
  <2> QED
    BY <1>6, <2>1, <2>2, <2>3, <2>4, <2>5, <2>6 DEF Places
<1>7. CASE size = 7
  <2>1. CASE u = 1
    BY <1>7, <2>1, Powers, SMTT(60) DEF OfBits, ValueBit, Low, Shr, Byte, Places
  <2>2. CASE u = 2
    BY <1>7, <2>2, Powers, SMTT(60) DEF OfBits, ValueBit, Low, Shr, Byte, Places
  <2>3. CASE u = 3
    BY <1>7, <2>3, Powers, SMTT(60) DEF OfBits, ValueBit, Low, Shr, Byte, Places
  <2>4. CASE u = 4
    BY <1>7, <2>4, Powers, SMTT(60) DEF OfBits, ValueBit, Low, Shr, Byte, Places
  <2>5. CASE u = 5
    BY <1>7, <2>5, Powers, SMTT(60) DEF OfBits, ValueBit, Low, Shr, Byte, Places
  <2>6. CASE u = 6
    BY <1>7, <2>6, Powers, SMTT(60) DEF OfBits, ValueBit, Low, Shr, Byte, Places
  <2>7. CASE u = 7
    BY <1>7, <2>7, Powers, SMTT(60) DEF OfBits, ValueBit, Low, Shr, Byte, Places
  <2> QED
    BY <1>7, <2>1, <2>2, <2>3, <2>4, <2>5, <2>6, <2>7 DEF Places
<1>8. CASE size = 8
  <2>1. CASE u = 1
    BY <1>8, <2>1, Powers, SMTT(60) DEF OfBits, ValueBit, Low, Shr, Byte, Places
  <2>2. CASE u = 2
    BY <1>8, <2>2, Powers, SMTT(60) DEF OfBits, ValueBit, Low, Shr, Byte, Places
  <2>3. CASE u = 3
    BY <1>8, <2>3, Powers, SMTT(60) DEF OfBits, ValueBit, Low, Shr, Byte, Places
  <2>4. CASE u = 4
    BY <1>8, <2>4, Powers, SMTT(60) DEF OfBits, ValueBit, Low, Shr, Byte, Places
  <2>5. CASE u = 5
    BY <1>8, <2>5, Powers, SMTT(60) DEF OfBits, ValueBit, Low, Shr, Byte, Places
  <2>6. CASE u = 6
    BY <1>8, <2>6, Powers, SMTT(60) DEF OfBits, ValueBit, Low, Shr, Byte, Places
  <2>7. CASE u = 7
    BY <1>8, <2>7, Powers, SMTT(60) DEF OfBits, ValueBit, Low, Shr, Byte, Places
  <2>8. CASE u = 8
    BY <1>8, <2>8, Powers, SMTT(60) DEF OfBits, ValueBit, Low, Shr, Byte, Places
  <2> QED
    BY <1>8, <2>1, <2>2, <2>3, <2>4, <2>5, <2>6, <2>7, <2>8 DEF Places
<1> QED
  BY <1>1, <1>2, <1>3, <1>4, <1>5, <1>6, <1>7, <1>8 DEF Places

(* Eight bits that reach over two bytes.                                   *)
OverTwo(a, c, r) == (a % 2 ^ (8 - r)) * 2 ^ r + c \div 2 ^ (8 - r)

LEMMA EightBits ==
  ASSUME NEW a \in Byte, NEW c \in Byte, NEW r \in {1, 2, 3, 4, 5, 6, 7}
  PROVE  /\ OverTwo(a, c, r) \in Byte
         /\ \A k \in Places : r + k <= 8 => Bit(OverTwo(a, c, r), k) = Bit(a, r + k)
         /\ \A k \in Places : r + k > 8 => Bit(OverTwo(a, c, r), k) = Bit(c, r + k - 8)
<1> DEFINE b == OverTwo(a, c, r)
<1>b. b = (a % 2 ^ (8 - r)) * 2 ^ r + c \div 2 ^ (8 - r)
  BY DEF OverTwo
<1> HIDE DEF b
<1>1. CASE r = 1
  <2>1. b = (a % 128) * 2 + c \div 128
    BY <1>b, <1>1, Powers
  <2>2. b = 128 * Bit(a, 2) + 64 * Bit(a, 3) + 32 * Bit(a, 4) + 16 * Bit(a, 5)
          + 8 * Bit(a, 6) + 4 * Bit(a, 7) + 2 * Bit(a, 8)
              + Bit(c, 1)
    BY <2>1, Halves, SumOfBits
  <2>3. /\ b \in Byte
        /\ Bit(b, 1) = Bit(a, 2) /\ Bit(b, 2) = Bit(a, 3)
        /\ Bit(b, 3) = Bit(a, 4) /\ Bit(b, 4) = Bit(a, 5)
        /\ Bit(b, 5) = Bit(a, 6) /\ Bit(b, 6) = Bit(a, 7)
        /\ Bit(b, 7) = Bit(a, 8) /\ Bit(b, 8) = Bit(c, 1)
    BY <2>2, SumOfBits, ByteOfBits
  <2> QED
    BY <1>1, <2>3 DEF Places, b
<1>2. CASE r = 2
  <2>1. b = (a % 64) * 4 + c \div 64
    BY <1>b, <1>2, Powers
  <2>2. b = 128 * Bit(a, 3) + 64 * Bit(a, 4) + 32 * Bit(a, 5) + 16 * Bit(a, 6)
          + 8 * Bit(a, 7) + 4 * Bit(a, 8)
              + 2 * Bit(c, 1) + Bit(c, 2)
    BY <2>1, Halves, SumOfBits
  <2>3. /\ b \in Byte
        /\ Bit(b, 1) = Bit(a, 3) /\ Bit(b, 2) = Bit(a, 4)
        /\ Bit(b, 3) = Bit(a, 5) /\ Bit(b, 4) = Bit(a, 6)
        /\ Bit(b, 5) = Bit(a, 7) /\ Bit(b, 6) = Bit(a, 8)
        /\ Bit(b, 7) = Bit(c, 1) /\ Bit(b, 8) = Bit(c, 2)
    BY <2>2, SumOfBits, ByteOfBits
  <2> QED
    BY <1>2, <2>3 DEF Places, b
<1>3. CASE r = 3
  <2>1. b = (a % 32) * 8 + c \div 32
    BY <1>b, <1>3, Powers
  <2>2. b = 128 * Bit(a, 4) + 64 * Bit(a, 5) + 32 * Bit(a, 6) + 16 * Bit(a, 7) + 8 * Bit(a, 8)
              + 4 * Bit(c, 1) + 2 * Bit(c, 2) + Bit(c, 3)
    BY <2>1, Halves, SumOfBits
  <2>3. /\ b \in Byte
        /\ Bit(b, 1) = Bit(a, 4) /\ Bit(b, 2) = Bit(a, 5)
        /\ Bit(b, 3) = Bit(a, 6) /\ Bit(b, 4) = Bit(a, 7)
        /\ Bit(b, 5) = Bit(a, 8) /\ Bit(b, 6) = Bit(c, 1)
        /\ Bit(b, 7) = Bit(c, 2) /\ Bit(b, 8) = Bit(c, 3)
    BY <2>2, SumOfBits, ByteOfBits
  <2> QED
    BY <1>3, <2>3 DEF Places, b
<1>4. CASE r = 4
  <2>1. b = (a % 16) * 16 + c \div 16
    BY <1>b, <1>4, Powers
  <2>2. b = 128 * Bit(a, 5) + 64 * Bit(a, 6) + 32 * Bit(a, 7) + 16 * Bit(a, 8)
              + 8 * Bit(c, 1) + 4 * Bit(c, 2) + 2 * Bit(c, 3) + Bit(c, 4)
    BY <2>1, Halves, SumOfBits
  <2>3. /\ b \in Byte
        /\ Bit(b, 1) = Bit(a, 5) /\ Bit(b, 2) = Bit(a, 6)
        /\ Bit(b, 3) = Bit(a, 7) /\ Bit(b, 4) = Bit(a, 8)
        /\ Bit(b, 5) = Bit(c, 1) /\ Bit(b, 6) = Bit(c, 2)
        /\ Bit(b, 7) = Bit(c, 3) /\ Bit(b, 8) = Bit(c, 4)
    BY <2>2, SumOfBits, ByteOfBits
  <2> QED
    BY <1>4, <2>3 DEF Places, b
<1>5. CASE r = 5
  <2>1. b = (a % 8) * 32 + c \div 8
    BY <1>b, <1>5, Powers
  <2>2. b = 128 * Bit(a, 6) + 64 * Bit(a, 7) + 32 * Bit(a, 8)
              + 16 * Bit(c, 1) + 8 * Bit(c, 2) + 4 * Bit(c, 3) + 2 * Bit(c, 4) + Bit(c, 5)
    BY <2>1, Halves, SumOfBits
  <2>3. /\ b \in Byte
        /\ Bit(b, 1) = Bit(a, 6) /\ Bit(b, 2) = Bit(a, 7)
        /\ Bit(b, 3) = Bit(a, 8) /\ Bit(b, 4) = Bit(c, 1)
        /\ Bit(b, 5) = Bit(c, 2) /\ Bit(b, 6) = Bit(c, 3)
        /\ Bit(b, 7) = Bit(c, 4) /\ Bit(b, 8) = Bit(c, 5)
    BY <2>2, SumOfBits, ByteOfBits
  <2> QED
    BY <1>5, <2>3 DEF Places, b
<1>6. CASE r = 6
  <2>1. b = (a % 4) * 64 + c \div 4
    BY <1>b, <1>6, Powers
  <2>2. b = 128 * Bit(a, 7) + 64 * Bit(a, 8)
              + 32 * Bit(c, 1) + 16 * Bit(c, 2) + 8 * Bit(c, 3) + 4 * Bit(c, 4)
              + 2 * Bit(c, 5) + Bit(c, 6)
    BY <2>1, Halves, SumOfBits
  <2>3. /\ b \in Byte
        /\ Bit(b, 1) = Bit(a, 7) /\ Bit(b, 2) = Bit(a, 8)
        /\ Bit(b, 3) = Bit(c, 1) /\ Bit(b, 4) = Bit(c, 2)
        /\ Bit(b, 5) = Bit(c, 3) /\ Bit(b, 6) = Bit(c, 4)
        /\ Bit(b, 7) = Bit(c, 5) /\ Bit(b, 8) = Bit(c, 6)
    BY <2>2, SumOfBits, ByteOfBits
  <2> QED
    BY <1>6, <2>3 DEF Places, b
<1>7. CASE r = 7
  <2>1. b = (a % 2) * 128 + c \div 2
    BY <1>b, <1>7, Powers
  <2>2. b = 128 * Bit(a, 8)
              + 64 * Bit(c, 1) + 32 * Bit(c, 2) + 16 * Bit(c, 3) + 8 * Bit(c, 4)
              + 4 * Bit(c, 5) + 2 * Bit(c, 6) + Bit(c, 7)
    BY <2>1, Halves, SumOfBits
  <2>3. /\ b \in Byte
        /\ Bit(b, 1) = Bit(a, 8) /\ Bit(b, 2) = Bit(c, 1)
        /\ Bit(b, 3) = Bit(c, 2) /\ Bit(b, 4) = Bit(c, 3)
        /\ Bit(b, 5) = Bit(c, 4) /\ Bit(b, 6) = Bit(c, 5)
        /\ Bit(b, 7) = Bit(c, 6) /\ Bit(b, 8) = Bit(c, 7)
    BY <2>2, SumOfBits, ByteOfBits
  <2> QED
    BY <1>7, <2>3 DEF Places, b
<1> QED
  BY <1>1, <1>2, <1>3, <1>4, <1>5, <1>6, <1>7 DEF b

(* The lowest bits of a byte, and the highest.                             *)
LEMMA LowBits ==
  ASSUME NEW b \in Byte, NEW r \in {0, 1, 2, 3, 4, 5, 6, 7}
  PROVE  Shr(Low(b, 8 - r), 8 - r - 1) = Bit(b, r + 1)
<1>0. CASE r = 0
  BY <1>0, Powers DEF Low, Shr, Bit, Byte
<1>1. CASE r = 1
  <2>1. (b % 128) \div 64 = Bit(b, 2)
    BY SumOfBits, Halves
  <2> QED
    BY <1>1, <2>1, Powers DEF Low, Shr
<1>2. CASE r = 2
  <2>1. (b % 64) \div 32 = Bit(b, 3)
    BY SumOfBits, Halves
  <2> QED
    BY <1>2, <2>1, Powers DEF Low, Shr
<1>3. CASE r = 3
  <2>1. (b % 32) \div 16 = Bit(b, 4)
    BY SumOfBits, Halves
  <2> QED
    BY <1>3, <2>1, Powers DEF Low, Shr
<1>4. CASE r = 4
  <2>1. (b % 16) \div 8 = Bit(b, 5)
    BY SumOfBits, Halves
  <2> QED
    BY <1>4, <2>1, Powers DEF Low, Shr
<1>5. CASE r = 5
  <2>1. (b % 8) \div 4 = Bit(b, 6)
    BY SumOfBits, Halves
  <2> QED
    BY <1>5, <2>1, Powers DEF Low, Shr
<1>6. CASE r = 6
  <2>1. (b % 4) \div 2 = Bit(b, 7)
    BY SumOfBits, Halves
  <2> QED
    BY <1>6, <2>1, Powers DEF Low, Shr
<1>7. CASE r = 7
  <2>1. (b % 2) \div 1 = Bit(b, 8)
    BY SumOfBits, Halves
  <2> QED
    BY <1>7, <2>1, Powers DEF Low, Shr
<1> QED
  BY <1>0, <1>1, <1>2, <1>3, <1>4, <1>5, <1>6, <1>7

LEMMA Parts ==
  ASSUME NEW b \in Byte, NEW r \in {1, 2, 3, 4, 5, 6, 7}
  PROVE  /\ Shr(b, 0) = b /\ Shr(Low(b, 8 - r), 0) = b % 2 ^ (8 - r)
         /\ 2 ^ r \in Nat /\ b % 2 ^ (8 - r) \in Nat
         /\ Low(Shr(b, 8 - r), r) = b \div 2 ^ (8 - r)
         /\ b \div 2 ^ (8 - r) \in Nat /\ b \div 2 ^ (8 - r) < 2 ^ r
         /\ 0 * 2 ^ (8 - r) = 0
<1>0. Shr(b, 0) = b
  BY Powers DEF Shr, Byte
<1>1. CASE r = 1
  <2>1. b % 128 \in Nat /\ b \div 128 \in Nat /\ b \div 128 < 2
    BY DEF Byte
  <2>2. (b % 128) \div 1 = b % 128 /\ (b \div 128) % 2 = b \div 128
    BY <2>1
  <2> QED
    BY <1>0, <1>1, <2>1, <2>2, Powers DEF Low, Shr
<1>2. CASE r = 2
  <2>1. b % 64 \in Nat /\ b \div 64 \in Nat /\ b \div 64 < 4
    BY DEF Byte
  <2>2. (b % 64) \div 1 = b % 64 /\ (b \div 64) % 4 = b \div 64
    BY <2>1
  <2> QED
    BY <1>0, <1>2, <2>1, <2>2, Powers DEF Low, Shr
<1>3. CASE r = 3
  <2>1. b % 32 \in Nat /\ b \div 32 \in Nat /\ b \div 32 < 8
    BY DEF Byte
  <2>2. (b % 32) \div 1 = b % 32 /\ (b \div 32) % 8 = b \div 32
    BY <2>1
  <2> QED
    BY <1>0, <1>3, <2>1, <2>2, Powers DEF Low, Shr
<1>4. CASE r = 4
  <2>1. b % 16 \in Nat /\ b \div 16 \in Nat /\ b \div 16 < 16
    BY DEF Byte
  <2>2. (b % 16) \div 1 = b % 16 /\ (b \div 16) % 16 = b \div 16
    BY <2>1
  <2> QED
    BY <1>0, <1>4, <2>1, <2>2, Powers DEF Low, Shr
<1>5. CASE r = 5
  <2>1. b % 8 \in Nat /\ b \div 8 \in Nat /\ b \div 8 < 32
    BY DEF Byte
  <2>2. (b % 8) \div 1 = b % 8 /\ (b \div 8) % 32 = b \div 8
    BY <2>1
  <2> QED
    BY <1>0, <1>5, <2>1, <2>2, Powers DEF Low, Shr
<1>6. CASE r = 6
  <2>1. b % 4 \in Nat /\ b \div 4 \in Nat /\ b \div 4 < 64
    BY DEF Byte
  <2>2. (b % 4) \div 1 = b % 4 /\ (b \div 4) % 64 = b \div 4
    BY <2>1
  <2> QED
    BY <1>0, <1>6, <2>1, <2>2, Powers DEF Low, Shr
<1>7. CASE r = 7
  <2>1. b % 2 \in Nat /\ b \div 2 \in Nat /\ b \div 2 < 128
    BY DEF Byte
  <2>2. (b % 2) \div 1 = b % 2 /\ (b \div 2) % 128 = b \div 2
    BY <2>1
  <2> QED
    BY <1>0, <1>7, <2>1, <2>2, Powers DEF Low, Shr
<1> QED
  BY <1>1, <1>2, <1>3, <1>4, <1>5, <1>6, <1>7

-----------------------------------------------------------------------------
(* Bits of a buffer, from 0, as the decoders see them.                     *)

BitAt(buffer, i) == Bit(buffer[i \div 8 + 1], (i % 8) + 1)

LEMMA ByteAt ==
  ASSUME NEW buffer \in Seq(Byte), NEW i \in Nat, i < 8 * Len(buffer)
  PROVE  /\ i \div 8 + 1 \in 1 .. Len(buffer)
         /\ buffer[i \div 8 + 1] \in Byte
         /\ i % 8 \in {0, 1, 2, 3, 4, 5, 6, 7}
         /\ BitAt(buffer, i) \in {0, 1}
<1>1. i \div 8 + 1 \in 1 .. Len(buffer) /\ i % 8 \in {0, 1, 2, 3, 4, 5, 6, 7}
  OBVIOUS
<1>2. buffer[i \div 8 + 1] \in Byte
  BY <1>1
<1>3. (i % 8) + 1 \in 1 .. 8
  BY <1>1
<1> QED
  BY <1>1, <1>2, <1>3, BitsOfByte DEF BitAt

LEMMA PeekBit ==
  ASSUME NEW buffer \in Seq(Byte), NEW i \in Nat, i < 8 * Len(buffer)
  PROVE  peek(buffer, 1, i) = BitAt(buffer, i)
<1>1. PICK b \in Byte : b = buffer[i \div 8 + 1]
  BY ByteAt
<1>2. PICK r \in {0, 1, 2, 3, 4, 5, 6, 7} : r = i % 8
  BY ByteAt
<1>3. bitsToUse(i, 1) = 1
  BY <1>2 DEF bitsToUse
<1>4. peek(buffer, 1, i) = 0 * 2 ^ 1 + Low(Shr(b, 8 - r - 1), 1)
  BY <1>1, <1>2, <1>3 DEF peek, PeekSome
<1>5. 0 * 2 ^ 1 + Low(Shr(b, 8 - r - 1), 1) = Bit(b, r + 1)
  BY Powers DEF Low, Shr, Bit, Byte
<1> QED
  BY <1>1, <1>2, <1>4, <1>5 DEF BitAt

LEMMA PeekStreamBit ==
  ASSUME NEW buffer \in Seq(Byte), NEW i \in Nat, i < 8 * Len(buffer)
  PROVE  PeekStream(buffer, 1, i) = BitAt(buffer, i)
<1>1. PICK b \in Byte : b = buffer[i \div 8 + 1]
  BY ByteAt
<1>2. PICK r \in {0, 1, 2, 3, 4, 5, 6, 7} : r = i % 8
  BY ByteAt
<1>3. bitsToUse(i, 1) = 1
  BY <1>2 DEF bitsToUse
<1>4. PeekStream(buffer, 1, i) = Shr(Low(b, 8 - r), 8 - r - 1)
  BY <1>1, <1>2, <1>3 DEF PeekStream, lastByte
<1>5. Shr(Low(b, 8 - r), 8 - r - 1) = Bit(b, r + 1)
  BY LowBits
<1> QED
  BY <1>1, <1>2, <1>4, <1>5 DEF BitAt

(* A whole byte, from either reader.                                       *)
LEMMA PeekByte ==
  ASSUME NEW buffer \in Seq(Byte), NEW i \in Nat, i + 8 <= 8 * Len(buffer)
  PROVE  /\ peek(buffer, 8, i) \in Byte
         /\ \A k \in Places : Bit(peek(buffer, 8, i), k) = BitAt(buffer, i + k - 1)
         /\ PeekStream(buffer, 8, i) = peek(buffer, 8, i)
<1>1. PICK a \in Byte : a = buffer[i \div 8 + 1]
  BY ByteAt
<1>2. PICK r \in {0, 1, 2, 3, 4, 5, 6, 7} : r = i % 8
  BY ByteAt
<1>3. CASE r = 0
  <2>1. bitsToUse(i, 8) = 8
    BY <1>2, <1>3 DEF bitsToUse
  <2>2. /\ peek(buffer, 8, i) = 0 * 2 ^ 8 + Low(Shr(a, 8 - 0 - 8), 8)
        /\ PeekStream(buffer, 8, i) = Shr(Low(a, 8 - 0), 8 - 0 - 8)
    BY <1>1, <1>2, <1>3, <2>1 DEF peek, PeekSome, PeekStream, lastByte
  <2>3. peek(buffer, 8, i) = a /\ PeekStream(buffer, 8, i) = a
    BY <2>2, Powers DEF Low, Shr, Byte
  <2>4. \A k \in Places : (i + k - 1) \div 8 = i \div 8 /\ (i + k - 1) % 8 = k - 1
    BY <1>2, <1>3 DEF Places
  <2>5. \A k \in Places : BitAt(buffer, i + k - 1) = Bit(a, k)
    <3> TAKE k \in Places
    <3>1. (k - 1) + 1 = k
      BY DEF Places
    <3> QED
      BY <1>1, <2>4, <3>1 DEF BitAt
  <2> QED
    BY <2>3, <2>5
<1>4. CASE r # 0
  <2>0. r \in {1, 2, 3, 4, 5, 6, 7} /\ 8 - r \in Nat /\ 8 - r # 8 /\ 8 - (8 - r) = r
    BY <1>4
  <2>1. bitsToUse(i, 8) = 8 - r
    BY <1>2, <2>0 DEF bitsToUse
  <2>2. (i + (8 - r)) \div 8 = i \div 8 + 1 /\ (i + (8 - r)) % 8 = 0
    BY <1>2, <2>0
  <2>3. PICK c \in Byte : c = buffer[i \div 8 + 1 + 1]
    <3>1. i + (8 - r) \in Nat /\ i + (8 - r) < 8 * Len(buffer)
      BY <2>0
    <3>2. buffer[(i + (8 - r)) \div 8 + 1] \in Byte
      BY <3>1, ByteAt
    <3> QED
      BY <2>2, <3>2
  <2>4. peek(buffer, 8, i) = (0 * 2 ^ (8 - r) + Low(Shr(a, 8 - r - (8 - r)), 8 - r)) * 2 ^ r
                               + Low(Shr(c, 8 - 0 - r), r)
    BY <1>1, <1>2, <2>0, <2>1, <2>2, <2>3 DEF peek, PeekSome
  <2>5. PeekStream(buffer, 8, i) = Shr(Low(a, 8 - r), 8 - r - (8 - r)) * 2 ^ r + Shr(c, 8 - r)
    BY <1>1, <1>2, <2>0, <2>1, <2>2, <2>3 DEF PeekStream, lastByte
  <2>6. 8 - r - (8 - r) = 0 /\ 8 - 0 - r = 8 - r
    BY <2>0
  <2> DEFINE b == OverTwo(a, c, r)
  <2>7. peek(buffer, 8, i) = b /\ PeekStream(buffer, 8, i) = b
    <3>1. 0 * 2 ^ (8 - r) + Low(a, 8 - r) = a % 2 ^ (8 - r)
      <4>1. 0 * 2 ^ (8 - r) = 0 /\ a % 2 ^ (8 - r) \in Nat
        BY <2>0, Parts
      <4>2. \A y \in Nat : 0 + y = y
        OBVIOUS
      <4> QED
        BY <4>1, <4>2, Zenon DEF Low
    <3>2. Low(Shr(c, 8 - r), r) = c \div 2 ^ (8 - r) /\ Shr(c, 8 - r) = c \div 2 ^ (8 - r)
      BY <2>0, Parts DEF Shr
    <3>3. Shr(a, 0) = a /\ Shr(Low(a, 8 - r), 0) = a % 2 ^ (8 - r)
      BY <2>0, Parts
    <3> QED
      BY <2>4, <2>5, <2>6, <3>1, <3>2, <3>3, Zenon DEF OverTwo
  <2>8. /\ b \in Byte
        /\ \A k \in Places : r + k <= 8 => Bit(b, k) = Bit(a, r + k)
        /\ \A k \in Places : r + k > 8 => Bit(b, k) = Bit(c, r + k - 8)
    BY <2>0, EightBits
  <2> HIDE DEF b
  <2>9. ASSUME NEW k \in Places
        PROVE  Bit(b, k) = BitAt(buffer, i + k - 1)
    <3>1. CASE r + k <= 8
      <4>1. (i + k - 1) \div 8 = i \div 8 /\ ((i + k - 1) % 8) + 1 = r + k
        BY <1>2, <3>1 DEF Places
      <4> QED
        BY <1>1, <2>8, <3>1, <4>1 DEF BitAt
    <3>2. CASE r + k > 8
      <4>1. (i + k - 1) \div 8 = i \div 8 + 1 /\ ((i + k - 1) % 8) + 1 = r + k - 8
        BY <1>2, <3>2 DEF Places
      <4> QED
        BY <2>3, <2>8, <3>2, <4>1 DEF BitAt
    <3> QED
      BY <3>1, <3>2 DEF Places
  <2> QED
    BY <2>7, <2>8, <2>9
<1> QED
  BY <1>3, <1>4

(* Of a stream, a byte is missing when a bit beyond the buffer is asked    *)
(* for.                                                                    *)
LEMMA ReaderBits ==
  ASSUME NEW i \in Nat, NEW k \in {1, 8}, bf.buffer \in Seq(Byte)
  PROVE  /\ HasBits(k, i) <=> i + k <= 8 * Len(bf.buffer)
         /\ HasBits(1, i) => Peek(1, i) = BitAt(bf.buffer, i) /\ Peek(1, i) \in {0, 1}
         /\ HasBits(8, i) =>
              /\ Peek(8, i) \in Byte
              /\ \A j \in Places : Bit(Peek(8, i), j) = BitAt(bf.buffer, i + j - 1)
<1> DEFINE len == Len(bf.buffer)
<1>1. len \in Nat
  OBVIOUS
<1>2. \A m \in {1, 8} : HasBits(m, i) <=> i + m <= 8 * len
  BY <1>1 DEF HasBits, hasBits, reachEof, lastByte
<1> HIDE DEF len
<1>3. ASSUME HasBits(1, i) PROVE Peek(1, i) = BitAt(bf.buffer, i) /\ Peek(1, i) \in {0, 1}
  <2>1. i < 8 * Len(bf.buffer)
    BY <1>1, <1>2, <1>3 DEF len
  <2> QED
    BY <2>1, PeekBit, PeekStreamBit, ByteAt DEF Peek
<1>4. ASSUME HasBits(8, i)
      PROVE  /\ Peek(8, i) \in Byte
             /\ \A j \in Places : Bit(Peek(8, i), j) = BitAt(bf.buffer, i + j - 1)
  <2>1. i + 8 <= 8 * Len(bf.buffer)
    BY <1>2, <1>4 DEF len
  <2> QED
    BY <2>1, PeekByte DEF Peek
<1> QED
  BY <1>2, <1>3, <1>4 DEF len

-----------------------------------------------------------------------------
(* The writer.                                                             *)

(* The buffer has just the bytes its bits need, and zeros behind them.     *)
Clean(w) ==
  /\ w \in [bitCount : Nat, buffer : Seq(Byte)]
  /\ Len(w.buffer) = (w.bitCount + 7) \div 8
  /\ w.bitCount % 8 # 0 =>
       ZeroBehind(w.buffer[w.bitCount \div 8 + 1], w.bitCount % 8)

(* x is w with the bits s behind its own.                                  *)
Written(w, x, s) ==
  /\ Clean(x)
  /\ x.bitCount = w.bitCount + Len(s)
  /\ \A i \in 0 .. w.bitCount - 1 : BitAt(x.buffer, i) = BitAt(w.buffer, i)
  /\ \A k \in 1 .. Len(s) : BitAt(x.buffer, w.bitCount + k - 1) = s[k]

LEMMA WrittenTwice ==
  ASSUME NEW w, NEW x, NEW y, NEW s \in Seq({0, 1}), NEW t \in Seq({0, 1}),
         Clean(w), Written(w, x, s), Written(x, y, t)
  PROVE  Written(w, y, s \o t)
<1>1. /\ Len(s \o t) = Len(s) + Len(t)
      /\ \A i \in 1 .. Len(s) + Len(t) :
           (s \o t)[i] = IF i <= Len(s) THEN s[i] ELSE t[i - Len(s)]
  BY ConcatProperties, Zenon
<1>2. PICK m \in Nat : m = w.bitCount
  BY DEF Clean
<1>3. PICK p \in Nat : p = Len(s)
  OBVIOUS
<1>4. PICK q \in Nat : q = Len(t)
  OBVIOUS
<1>5. x.bitCount = m + p /\ y.bitCount = m + (p + q)
  <2>1. x.bitCount = m + p /\ y.bitCount = x.bitCount + q
    BY <1>2, <1>3, <1>4, Zenon DEF Written
  <2> QED
    BY <2>1
<1>6. ASSUME NEW i \in 0 .. m - 1 PROVE BitAt(y.buffer, i) = BitAt(w.buffer, i)
  <2>1. i \in 0 .. (m + p) - 1
    OBVIOUS
  <2> QED
    BY <1>2, <1>5, <2>1 DEF Written
<1>7. ASSUME NEW k \in 1 .. p + q PROVE BitAt(y.buffer, m + k - 1) = (s \o t)[k]
  <2>1. CASE k <= p
    <3>1. m + k - 1 \in 0 .. (m + p) - 1 /\ k \in 1 .. p
      BY <2>1
    <3>2. BitAt(y.buffer, m + k - 1) = BitAt(x.buffer, m + k - 1)
      BY <1>5, <3>1 DEF Written
    <3>3. BitAt(x.buffer, m + k - 1) = s[k]
      BY <1>2, <1>3, <3>1 DEF Written
    <3> QED
      BY <1>1, <1>3, <1>4, <2>1, <3>2, <3>3
  <2>2. CASE ~ (k <= p)
    <3>1. k - p \in 1 .. q /\ m + k - 1 = (m + p) + (k - p) - 1
      BY <2>2
    <3>2. BitAt(y.buffer, (m + p) + (k - p) - 1) = t[k - p]
      BY <1>4, <1>5, <3>1 DEF Written
    <3> QED
      BY <1>1, <1>3, <1>4, <2>2, <3>1, <3>2
  <2> QED
    BY <2>1, <2>2
<1> QED
  BY <1>1, <1>2, <1>3, <1>4, <1>5, <1>6, <1>7 DEF Written

(* The u highest of the size bits of a value.                              *)
ValueBits(value, size, u) == [k \in 1 .. u |-> ValueBit(value, size, k)]

LEMMA ValueBitsType ==
  ASSUME NEW value \in Byte, NEW size \in Places, NEW u \in Places, u <= size
  PROVE  /\ ValueBits(value, size, u) \in Seq({0, 1})
         /\ Len(ValueBits(value, size, u)) = u
<1>1. u \in Nat
  BY DEF Places
<1>2. ASSUME NEW k \in 1 .. u PROVE ValueBit(value, size, k) \in {0, 1}
  <2>1. size - k \in {0, 1, 2, 3, 4, 5, 6, 7}
    BY DEF Places
  <2>2. PICK e \in {0, 1, 2, 3, 4, 5, 6, 7} : e = size - k
    BY <2>1
  <2>3. PICK d \in {1, 2, 4, 8, 16, 32, 64, 128} : d = 2 ^ e
    BY PowerType
  <2>4. (value \div d) % 2 \in {0, 1}
    BY DEF Byte
  <2> QED
    BY <2>2, <2>3, <2>4 DEF ValueBit
<1> QED
  BY <1>1, <1>2 DEF ValueBits

(* One level of push().                                                    *)
LEMMA PushSomeWrites ==
  ASSUME NEW w, Clean(w), NEW value \in Byte, NEW size \in Places, NEW u \in Places,
         u <= size, (w.bitCount % 8) + u <= 8
  PROVE  Written(w, PushSome(w, value, size, u), ValueBits(value, size, u))
<1>1. PICK m \in Nat : m = w.bitCount
  BY DEF Clean
<1>2. PICK sz \in Nat : sz = m \div 8
  OBVIOUS
<1>3. PICK r \in {0, 1, 2, 3, 4, 5, 6, 7} : r = m % 8
  OBVIOUS
<1>4. m = 8 * sz + r /\ r + u <= 8
  BY <1>1, <1>2, <1>3
<1> DEFINE dst == IF Len(w.buffer) <= sz THEN Append(w.buffer, 0) ELSE w.buffer
           cur == dst[sz + 1]
           f   == Low(Shr(value, size - u), u)
           b   == Spliced(cur, f, r, u)
           x   == PushSome(w, value, size, u)
<1>5. /\ dst \in Seq(Byte) /\ Len(dst) = sz + 1
      /\ \A i \in 1 .. sz : dst[i] = w.buffer[i]
      /\ cur \in Byte /\ ZeroBehind(cur, r)
      /\ r # 0 => cur = w.buffer[sz + 1]
  <2>0. w.buffer \in Seq(Byte) /\ Len(w.buffer) = (m + 7) \div 8
    BY <1>1 DEF Clean
  <2>1. CASE r = 0
    <3>1. Len(w.buffer) = sz
      BY <1>4, <2>0, <2>1
    <3>2. dst = Append(w.buffer, 0) /\ 0 \in Byte
      BY <3>1 DEF Byte
    <3>3. /\ dst \in Seq(Byte) /\ Len(dst) = sz + 1
          /\ \A i \in 1 .. sz : dst[i] = w.buffer[i]
          /\ cur = 0
      BY <2>0, <3>1, <3>2
    <3>4. ZeroBehind(0, r)
      BY <2>1, Powers DEF ZeroBehind
    <3> QED
      BY <2>1, <3>2, <3>3, <3>4
  <2>2. CASE r # 0
    <3>1. Len(w.buffer) = sz + 1
      BY <1>4, <2>0, <2>2
    <3>2. dst = w.buffer /\ cur \in Byte
      BY <2>0, <3>1
    <3>3. ZeroBehind(cur, r)
      BY <1>1, <1>2, <1>3, <2>2, <3>2 DEF Clean
    <3> QED
      BY <2>0, <3>1, <3>2, <3>3
  <2> QED
    BY <2>1, <2>2
<1> HIDE DEF dst, cur
<1>6. /\ OfBits(f, u)
      /\ \A k \in Places : k <= u => ValueBit(f, u, k) = ValueBit(value, size, k)
  BY HighBits
<1> HIDE DEF f
<1>7. /\ b \in Byte /\ ZeroBehind(b, r + u)
      /\ \A k \in Places : k <= r => Bit(b, k) = Bit(cur, k)
      /\ \A k \in Places : k <= u => Bit(b, r + k) = ValueBit(f, u, k)
  BY <1>4, <1>5, <1>6, Splice
<1>8. x = [bitCount |-> m + u, buffer |-> [dst EXCEPT ![sz + 1] = b]]
  BY <1>1, <1>2, <1>3, Zenon DEF PushSome, Spliced, dst, cur, f
<1> HIDE DEF b, x
<1>9. u \in 1 .. 8
  BY DEF Places
<1>10. /\ x.buffer \in Seq(Byte) /\ Len(x.buffer) = sz + 1
       /\ \A i \in 1 .. sz : x.buffer[i] = w.buffer[i]
       /\ x.buffer[sz + 1] = b
  BY <1>5, <1>7, <1>8
<1>11. x \in [bitCount : Nat, buffer : Seq(Byte)] /\ x.bitCount = m + u
  BY <1>8, <1>9, <1>10
<1>12. Clean(x)
  <2>1. Len(x.buffer) = (x.bitCount + 7) \div 8
    BY <1>4, <1>9, <1>10, <1>11
  <2>2. ASSUME x.bitCount % 8 # 0
        PROVE  ZeroBehind(x.buffer[x.bitCount \div 8 + 1], x.bitCount % 8)
    <3>1. x.bitCount \div 8 = sz /\ x.bitCount % 8 = r + u
      BY <1>4, <1>9, <1>11, <2>2
    <3> QED
      BY <1>7, <1>10, <3>1
  <2> QED
    BY <1>11, <2>1, <2>2 DEF Clean
<1>13. ASSUME NEW i \in 0 .. m - 1 PROVE BitAt(x.buffer, i) = BitAt(w.buffer, i)
  <2>1. CASE i \div 8 < sz
    <3>1. i \div 8 + 1 \in 1 .. sz
      BY <2>1
    <3> QED
      BY <1>10, <3>1 DEF BitAt
  <2>2. CASE ~ (i \div 8 < sz)
    <3>1. i \div 8 = sz /\ (i % 8) + 1 \in Places /\ (i % 8) + 1 <= r /\ r # 0
      BY <1>4, <2>2 DEF Places
    <3> QED
      BY <1>5, <1>7, <1>10, <3>1 DEF BitAt
  <2> QED
    BY <2>1, <2>2
<1>14. ASSUME NEW k \in 1 .. u PROVE BitAt(x.buffer, m + k - 1) = ValueBit(value, size, k)
  <2>1. k \in Places /\ k <= u /\ (m + k - 1) \div 8 = sz /\ ((m + k - 1) % 8) + 1 = r + k
    BY <1>4, <1>9 DEF Places
  <2> QED
    BY <1>6, <1>7, <1>10, <2>1 DEF BitAt
<1>15. Len(ValueBits(value, size, u)) = u
  BY ValueBitsType
<1> QED
  BY <1>1, <1>9, <1>11, <1>12, <1>13, <1>14, <1>15 DEF Written, ValueBits, x

(* push() writes the lowest size bits of the value, highest first.         *)
LEMMA PushWrites ==
  ASSUME NEW w, Clean(w), NEW value \in Byte, NEW size \in Places
  PROVE  Written(w, push(w, value, size), ValueBits(value, size, size))
<1>1. PICK m \in Nat : m = w.bitCount
  BY DEF Clean
<1>2. PICK r \in {0, 1, 2, 3, 4, 5, 6, 7} : r = m % 8
  OBVIOUS
<1>3. size \in 1 .. 8
  BY DEF Places
<1>4. CASE r + size <= 8
  <2>1. bitsToUse(m, size) = size
    BY <1>2, <1>3, <1>4 DEF bitsToUse
  <2>2. push(w, value, size) = PushSome(w, value, size, size)
    BY <1>1, <2>1 DEF push
  <2>3. (w.bitCount % 8) + size <= 8 /\ size <= size
    BY <1>1, <1>2, <1>3, <1>4
  <2> QED
    BY <2>2, <2>3, PushSomeWrites
<1>5. CASE ~ (r + size <= 8)
  <2> DEFINE u == 8 - r
             v == size - u
             one == PushSome(w, value, size, u)
             two == PushSome(one, value, v, v)
  <2>1. u \in Places /\ v \in Places /\ u <= size /\ v <= v /\ u + v = size /\ u # size
    BY <1>3, <1>5 DEF Places
  <2>2. bitsToUse(m, size) = u
    BY <1>2, <1>3, <1>5 DEF bitsToUse
  <2>3. push(w, value, size) = two
    BY <1>1, <2>1, <2>2 DEF push
  <2>4. (w.bitCount % 8) + u <= 8
    BY <1>1, <1>2
  <2>5. Written(w, one, ValueBits(value, size, u))
    BY <2>1, <2>4, PushSomeWrites
  <2> HIDE DEF one
  <2>6. Len(ValueBits(value, size, u)) = u /\ ValueBits(value, size, u) \in Seq({0, 1})
    BY <2>1, ValueBitsType
  <2>7. Clean(one) /\ one.bitCount = m + u
    BY <1>1, <2>5, <2>6 DEF Written
  <2>8. (one.bitCount % 8) + v <= 8
    BY <1>2, <1>3, <2>1, <2>7
  <2>9. Written(one, two, ValueBits(value, v, v))
    BY <2>1, <2>7, <2>8, PushSomeWrites
  <2>10. Len(ValueBits(value, v, v)) = v /\ ValueBits(value, v, v) \in Seq({0, 1})
    BY <2>1, ValueBitsType
  <2>11. Written(w, two, ValueBits(value, size, u) \o ValueBits(value, v, v))
    BY <2>5, <2>6, <2>9, <2>10, WrittenTwice
  <2>12. ValueBits(value, size, u) \o ValueBits(value, v, v) = ValueBits(value, size, size)
    <3> DEFINE s == ValueBits(value, size, u)
               t == ValueBits(value, v, v)
    <3>1. /\ s \o t \in Seq({0, 1}) /\ Len(s \o t) = Len(s) + Len(t)
          /\ \A i \in 1 .. Len(s) + Len(t) :
               (s \o t)[i] = IF i <= Len(s) THEN s[i] ELSE t[i - Len(s)]
      <4>1. s \in Seq({0, 1}) /\ t \in Seq({0, 1})
        BY <2>6, <2>10
      <4> HIDE DEF s, t
      <4> QED
        BY <4>1, ConcatProperties, Zenon
    <3>2. /\ ValueBits(value, size, size) \in Seq({0, 1})
          /\ Len(ValueBits(value, size, size)) = size
      BY <1>3, ValueBitsType
    <3>3. Len(s) = u /\ Len(t) = v /\ Len(s) + Len(t) = size
      BY <2>1, <2>6, <2>10
    <3>4. ASSUME NEW i \in 1 .. size PROVE (s \o t)[i] = ValueBits(value, size, size)[i]
      <4>1. ValueBits(value, size, size)[i] = ValueBit(value, size, i)
        BY DEF ValueBits
      <4>2. CASE i <= u
        <5>1. (s \o t)[i] = s[i] /\ i \in 1 .. u
          BY <3>1, <3>3, <4>2
        <5> QED
          BY <4>1, <5>1 DEF ValueBits
      <4>3. CASE ~ (i <= u)
        <5>1. (s \o t)[i] = t[i - u] /\ i - u \in 1 .. v
          BY <2>1, <3>1, <3>3, <4>3 DEF Places
        <5>2. t[i - u] = ValueBit(value, v, i - u)
          BY <5>1 DEF ValueBits
        <5>3. v - (i - u) = size - i
          BY <1>3
        <5> QED
          BY <4>1, <5>1, <5>2, <5>3 DEF ValueBit
      <4> QED
        BY <4>2, <4>3
    <3>5. Len(s \o t) = Len(ValueBits(value, size, size))
      BY <3>1, <3>2, <3>3
    <3>6. \A i \in 1 .. Len(s \o t) : (s \o t)[i] = ValueBits(value, size, size)[i]
      BY <3>1, <3>3, <3>4
    <3> HIDE DEF s, t
    <3>7. s \o t = ValueBits(value, size, size)
      BY <3>1, <3>2, <3>5, <3>6, SeqEqual
    <3> QED
      BY <3>7 DEF s, t
  <2> QED
    BY <2>3, <2>11, <2>12
<1> QED
  BY <1>4, <1>5

(* The bits of the table's codes.                                          *)
LEMMA TableBits ==
  /\ ValueBits(1, 1, 1) = <<1>>
  /\ ValueBits(2, 4, 4) = <<0, 0, 1, 0>>
  /\ ValueBits(1, 5, 5) = <<0, 0, 0, 0, 1>>
  /\ ValueBits(1, 6, 6) = <<0, 0, 0, 0, 0, 1>>
  /\ ValueBits(0, 7, 7) = <<0, 0, 0, 0, 0, 0, 0>>
  /\ ValueBits(1, 7, 7) = <<0, 0, 0, 0, 0, 0, 1>>
  /\ ValueBits(2, 5, 5) = <<0, 0, 0, 1, 0>>
  /\ ValueBits(3, 5, 5) = <<0, 0, 0, 1, 1>>
  /\ ValueBits(3, 4, 4) = <<0, 0, 1, 1>>
  /\ ValueBits(1, 2, 2) = <<0, 1>>
<1>1. ValueBits(1, 1, 1) = <<1>>
  <2>1. ValueBit(1, 1, 1) = 1
    BY Powers DEF ValueBit
  <2> QED
    BY <2>1 DEF ValueBits
<1>2. ValueBits(2, 4, 4) = <<0, 0, 1, 0>>
  <2>1. /\ ValueBit(2, 4, 1) = 0 /\ ValueBit(2, 4, 2) = 0 /\ ValueBit(2, 4, 3) = 1
        /\ ValueBit(2, 4, 4) = 0
    BY Powers DEF ValueBit
  <2> QED
    BY <2>1 DEF ValueBits
<1>3. ValueBits(1, 5, 5) = <<0, 0, 0, 0, 1>>
  <2>1. /\ ValueBit(1, 5, 1) = 0 /\ ValueBit(1, 5, 2) = 0 /\ ValueBit(1, 5, 3) = 0
        /\ ValueBit(1, 5, 4) = 0 /\ ValueBit(1, 5, 5) = 1
    BY Powers DEF ValueBit
  <2> QED
    BY <2>1 DEF ValueBits
<1>4. ValueBits(1, 6, 6) = <<0, 0, 0, 0, 0, 1>>
  <2>1. /\ ValueBit(1, 6, 1) = 0 /\ ValueBit(1, 6, 2) = 0 /\ ValueBit(1, 6, 3) = 0
        /\ ValueBit(1, 6, 4) = 0 /\ ValueBit(1, 6, 5) = 0 /\ ValueBit(1, 6, 6) = 1
    BY Powers DEF ValueBit
  <2> QED
    BY <2>1 DEF ValueBits
<1>5. ValueBits(0, 7, 7) = <<0, 0, 0, 0, 0, 0, 0>>
  <2>1. /\ ValueBit(0, 7, 1) = 0 /\ ValueBit(0, 7, 2) = 0 /\ ValueBit(0, 7, 3) = 0
        /\ ValueBit(0, 7, 4) = 0 /\ ValueBit(0, 7, 5) = 0 /\ ValueBit(0, 7, 6) = 0
        /\ ValueBit(0, 7, 7) = 0
    BY Powers DEF ValueBit
  <2> QED
    BY <2>1 DEF ValueBits
<1>6. ValueBits(1, 7, 7) = <<0, 0, 0, 0, 0, 0, 1>>
  <2>1. /\ ValueBit(1, 7, 1) = 0 /\ ValueBit(1, 7, 2) = 0 /\ ValueBit(1, 7, 3) = 0
        /\ ValueBit(1, 7, 4) = 0 /\ ValueBit(1, 7, 5) = 0 /\ ValueBit(1, 7, 6) = 0
        /\ ValueBit(1, 7, 7) = 1
    BY Powers DEF ValueBit
  <2> QED
    BY <2>1 DEF ValueBits
<1>7. ValueBits(2, 5, 5) = <<0, 0, 0, 1, 0>>
  <2>1. /\ ValueBit(2, 5, 1) = 0 /\ ValueBit(2, 5, 2) = 0 /\ ValueBit(2, 5, 3) = 0
        /\ ValueBit(2, 5, 4) = 1 /\ ValueBit(2, 5, 5) = 0
    BY Powers DEF ValueBit
  <2> QED
    BY <2>1 DEF ValueBits
<1>8. ValueBits(3, 5, 5) = <<0, 0, 0, 1, 1>>
  <2>1. /\ ValueBit(3, 5, 1) = 0 /\ ValueBit(3, 5, 2) = 0 /\ ValueBit(3, 5, 3) = 0
        /\ ValueBit(3, 5, 4) = 1 /\ ValueBit(3, 5, 5) = 1
    BY Powers DEF ValueBit
  <2> QED
    BY <2>1 DEF ValueBits
<1>9. ValueBits(3, 4, 4) = <<0, 0, 1, 1>>
  <2>1. /\ ValueBit(3, 4, 1) = 0 /\ ValueBit(3, 4, 2) = 0 /\ ValueBit(3, 4, 3) = 1
        /\ ValueBit(3, 4, 4) = 1
    BY Powers DEF ValueBit
  <2> QED
    BY <2>1 DEF ValueBits
<1>10. ValueBits(1, 2, 2) = <<0, 1>>
  <2>1. ValueBit(1, 2, 1) = 0 /\ ValueBit(1, 2, 2) = 1
    BY Powers DEF ValueBit
  <2> QED
    BY <2>1 DEF ValueBits
<1> QED
  BY <1>1, <1>2, <1>3, <1>4, <1>5, <1>6, <1>7, <1>8, <1>9, <1>10

LEMMA ByteBits ==
  ASSUME NEW b \in Byte
  PROVE  ValueBits(b, 8, 8) = HP!Bits8(b)
<1>1. ValueBits(b, 8, 8) \in Seq({0, 1}) /\ Len(ValueBits(b, 8, 8)) = 8
  BY ValueBitsType DEF Places
<1>2. HP!Bits8(b) \in Seq({0, 1}) /\ Len(HP!Bits8(b)) = 8
  BY DEF HP!Bits8, Byte
<1>3. ASSUME NEW k \in 1 .. 8 PROVE ValueBits(b, 8, 8)[k] = HP!Bits8(b)[k]
  <2>1. ValueBits(b, 8, 8)[k] = Bit(b, k)
    BY DEF ValueBits, ValueBit, Bit
  <2> QED
    BY <2>1, BitsOfByte
<1> QED
  BY <1>1, <1>2, <1>3, SeqEqual

(* The body of the encoder's loop writes the codeword.                     *)
LEMMA EncodeSymbolWrites ==
  ASSUME NEW w, Clean(w), NEW b \in Byte
  PROVE  Written(w, EncodeSymbol(w, b), HP!Code(b))
<1> DEFINE index == IF b <= 4 THEN b ELSE IF b >= 252 THEN b - 247 ELSE 9
           code  == huffmanCodes[index + 1]
           size  == huffmanCodeBitLength[index + 1]
<1>0. EncodeSymbol(w, b) = IF index = 9 THEN push(push(w, code, size), b, 8) ELSE push(w, code, size)
  BY DEF EncodeSymbol
<1> HIDE DEF index, code, size
<1>1. CASE b = 0
  <2>1. index = 0
    BY <1>1 DEF index
  <2>2. code = 1 /\ size = 1
    BY <2>1 DEF code, size, huffmanCodes, huffmanCodeBitLength
  <2>3. EncodeSymbol(w, b) = push(w, 1, 1)
    BY <1>0, <2>1, <2>2
  <2>4. HP!Code(b) = ValueBits(1, 1, 1)
    BY <1>1, TableBits DEF HP!Code
  <2>5. 1 \in Byte /\ 1 \in Places
    BY DEF Byte, Places
  <2> QED
    BY <2>3, <2>4, <2>5, PushWrites
<1>2. CASE b = 1
  <2>1. index = 1
    BY <1>2 DEF index
  <2>2. code = 2 /\ size = 4
    BY <2>1 DEF code, size, huffmanCodes, huffmanCodeBitLength
  <2>3. EncodeSymbol(w, b) = push(w, 2, 4)
    BY <1>0, <2>1, <2>2
  <2>4. HP!Code(b) = ValueBits(2, 4, 4)
    BY <1>2, TableBits DEF HP!Code
  <2>5. 2 \in Byte /\ 4 \in Places
    BY DEF Byte, Places
  <2> QED
    BY <2>3, <2>4, <2>5, PushWrites
<1>3. CASE b = 2
  <2>1. index = 2
    BY <1>3 DEF index
  <2>2. code = 1 /\ size = 5
    BY <2>1 DEF code, size, huffmanCodes, huffmanCodeBitLength
  <2>3. EncodeSymbol(w, b) = push(w, 1, 5)
    BY <1>0, <2>1, <2>2
  <2>4. HP!Code(b) = ValueBits(1, 5, 5)
    BY <1>3, TableBits DEF HP!Code
  <2>5. 1 \in Byte /\ 5 \in Places
    BY DEF Byte, Places
  <2> QED
    BY <2>3, <2>4, <2>5, PushWrites
<1>4. CASE b = 3
  <2>1. index = 3
    BY <1>4 DEF index
  <2>2. code = 1 /\ size = 6
    BY <2>1 DEF code, size, huffmanCodes, huffmanCodeBitLength
  <2>3. EncodeSymbol(w, b) = push(w, 1, 6)
    BY <1>0, <2>1, <2>2
  <2>4. HP!Code(b) = ValueBits(1, 6, 6)
    BY <1>4, TableBits DEF HP!Code
  <2>5. 1 \in Byte /\ 6 \in Places
    BY DEF Byte, Places
  <2> QED
    BY <2>3, <2>4, <2>5, PushWrites
<1>5. CASE b = 4
  <2>1. index = 4
    BY <1>5 DEF index
  <2>2. code = 0 /\ size = 7
    BY <2>1 DEF code, size, huffmanCodes, huffmanCodeBitLength
  <2>3. EncodeSymbol(w, b) = push(w, 0, 7)
    BY <1>0, <2>1, <2>2
  <2>4. HP!Code(b) = ValueBits(0, 7, 7)
    BY <1>5, TableBits DEF HP!Code
  <2>5. 0 \in Byte /\ 7 \in Places
    BY DEF Byte, Places
  <2> QED
    BY <2>3, <2>4, <2>5, PushWrites
<1>6. CASE b = 252
  <2>1. index = 5
    BY <1>6 DEF index
  <2>2. code = 1 /\ size = 7
    BY <2>1 DEF code, size, huffmanCodes, huffmanCodeBitLength
  <2>3. EncodeSymbol(w, b) = push(w, 1, 7)
    BY <1>0, <2>1, <2>2
  <2>4. HP!Code(b) = ValueBits(1, 7, 7)
    BY <1>6, TableBits DEF HP!Code
  <2>5. 1 \in Byte /\ 7 \in Places
    BY DEF Byte, Places
  <2> QED
    BY <2>3, <2>4, <2>5, PushWrites
<1>7. CASE b = 253
  <2>1. index = 6
    BY <1>7 DEF index
  <2>2. code = 2 /\ size = 5
    BY <2>1 DEF code, size, huffmanCodes, huffmanCodeBitLength
  <2>3. EncodeSymbol(w, b) = push(w, 2, 5)
    BY <1>0, <2>1, <2>2
  <2>4. HP!Code(b) = ValueBits(2, 5, 5)
    BY <1>7, TableBits DEF HP!Code
  <2>5. 2 \in Byte /\ 5 \in Places
    BY DEF Byte, Places
  <2> QED
    BY <2>3, <2>4, <2>5, PushWrites
<1>8. CASE b = 254
  <2>1. index = 7
    BY <1>8 DEF index
  <2>2. code = 3 /\ size = 5
    BY <2>1 DEF code, size, huffmanCodes, huffmanCodeBitLength
  <2>3. EncodeSymbol(w, b) = push(w, 3, 5)
    BY <1>0, <2>1, <2>2
  <2>4. HP!Code(b) = ValueBits(3, 5, 5)
    BY <1>8, TableBits DEF HP!Code
  <2>5. 3 \in Byte /\ 5 \in Places
    BY DEF Byte, Places
  <2> QED
    BY <2>3, <2>4, <2>5, PushWrites
<1>9. CASE b = 255
  <2>1. index = 8
    BY <1>9 DEF index
  <2>2. code = 3 /\ size = 4
    BY <2>1 DEF code, size, huffmanCodes, huffmanCodeBitLength
  <2>3. EncodeSymbol(w, b) = push(w, 3, 4)
    BY <1>0, <2>1, <2>2
  <2>4. HP!Code(b) = ValueBits(3, 4, 4)
    BY <1>9, TableBits DEF HP!Code
  <2>5. 3 \in Byte /\ 4 \in Places
    BY DEF Byte, Places
  <2> QED
    BY <2>3, <2>4, <2>5, PushWrites
<1>10. CASE b \notin HP!InTable
  <2>1. index = 9
    BY <1>10 DEF index, HP!InTable, Byte
  <2>2. code = 1 /\ size = 2
    BY <2>1 DEF code, size, huffmanCodes, huffmanCodeBitLength
  <2> DEFINE coded == push(w, 1, 2)
  <2>3. EncodeSymbol(w, b) = push(coded, b, 8)
    BY <1>0, <2>1, <2>2
  <2>4. HP!Code(b) = <<0, 1>> \o HP!Bits8(b)
    BY <1>10 DEF HP!Code, HP!InTable
  <2>5. 1 \in Byte /\ 2 \in Places /\ 8 \in Places
    BY DEF Byte, Places
  <2>6. Written(w, coded, <<0, 1>>)
    <3>1. Written(w, push(w, 1, 2), ValueBits(1, 2, 2))
      BY <2>5, PushWrites
    <3> QED
      BY <3>1, TableBits
  <2>7. Clean(coded)
    BY <2>6 DEF Written
  <2> HIDE DEF coded
  <2>8. Written(coded, push(coded, b, 8), HP!Bits8(b))
    <3>1. Written(coded, push(coded, b, 8), ValueBits(b, 8, 8))
      BY <2>5, <2>7, PushWrites
    <3> QED
      BY <3>1, ByteBits
  <2>9. <<0, 1>> \in Seq({0, 1}) /\ HP!Bits8(b) \in Seq({0, 1})
    BY DEF HP!Bits8, Byte
  <2>10. Written(w, push(coded, b, 8), <<0, 1>> \o HP!Bits8(b))
    BY <2>6, <2>8, <2>9, WrittenTwice, Zenon
  <2> QED
    BY <2>3, <2>4, <2>10
<1> QED
  BY <1>1, <1>2, <1>3, <1>4, <1>5, <1>6, <1>7, <1>8, <1>9, <1>10 DEF HP!InTable

(* The hypothesis of HuffmanCode on its sources.                           *)
LEMMA SymbolsType ==
  /\ {SymbolsOf(i) : i \in Inputs} \subseteq Seq(0 .. 255)
  /\ \A i \in Inputs : SkippedOf(i) \in 0 .. Len(i.src) /\ i.src \in Seq(0 .. 255)
<1> SUFFICES ASSUME NEW i \in Inputs
             PROVE  /\ SymbolsOf(i) \in Seq(0 .. 255)
                    /\ SkippedOf(i) \in 0 .. Len(i.src) /\ i.src \in Seq(0 .. 255)
  OBVIOUS
<1>1. i.src \in Seq(0 .. 255) /\ (i.encoder = "logger" => Len(i.src) >= 2)
  BY InputsAssumption
<1>2. SkippedOf(i) \in 0 .. Len(i.src)
  BY <1>1 DEF SkippedOf
<1>3. SubSeq(i.src, SkippedOf(i) + 1, Len(i.src)) \in Seq(0 .. 255)
  <2> DEFINE S == 0 .. 255
             s == i.src
             p == SkippedOf(i)
             k == Len(s)
  <2>1. s \in Seq(S) /\ p \in 0 .. k
    BY <1>1, <1>2
  <2> HIDE DEF S, s, p
  <2>2. k \in Nat /\ \A j \in 1 .. k : s[j] \in S
    BY <2>1
  <2> HIDE DEF k
  <2>3. p + 1 \in Int /\ k \in Int /\ \A j \in p + 1 .. k : j \in 1 .. k
    BY <2>1, <2>2
  <2>4. SubSeq(s, p + 1, k) \in Seq(S)
    BY <2>2, <2>3, SubSeqProperties
  <2> QED
    BY <2>4 DEF S, s, p, k
<1>4. (IF i.encoder = "stream" THEN <<255>> ELSE <<>>) \in Seq(0 .. 255)
  <2>1. <<255>> \in Seq(0 .. 255) /\ <<>> \in Seq(0 .. 255)
    OBVIOUS
  <2> QED
    BY <2>1, Zenon
<1>5. \A s, t \in Seq(0 .. 255) : s \o t \in Seq(0 .. 255)
  OBVIOUS
<1> QED
  BY <1>1, <1>2, <1>3, <1>4, <1>5 DEF SymbolsOf


(* The padding bits are the beginning of the filler.                       *)
LEMMA PaddingWrites ==
  ASSUME NEW w, Clean(w),
         NEW x, x = appendPaddingBits(w)
  PROVE  /\ x \in [bitCount : Nat, buffer : Seq(Byte)]
         /\ x.bitCount = w.bitCount /\ Len(x.buffer) = Len(w.buffer)
         /\ \A i \in 0 .. w.bitCount - 1 : BitAt(x.buffer, i) = BitAt(w.buffer, i)
         /\ \E k \in 0 .. 7 :
              /\ w.bitCount + k = 8 * Len(w.buffer)
              /\ \A j \in 1 .. k : BitAt(x.buffer, w.bitCount + j - 1) = HP!Filler[j]
<1>1. PICK m \in Nat : m = w.bitCount
  BY DEF Clean
<1>2. PICK sz \in Nat : sz = m \div 8
  OBVIOUS
<1>3. PICK r \in {0, 1, 2, 3, 4, 5, 6, 7} : r = m % 8
  OBVIOUS
<1>4. m = 8 * sz + r
  BY <1>2, <1>3
<1>5. w \in [bitCount : Nat, buffer : Seq(Byte)] /\ Len(w.buffer) = (m + 7) \div 8
  BY <1>1 DEF Clean
<1>6. CASE r = 0
  <2>1. x = w
    BY <1>1, <1>3, <1>6 DEF appendPaddingBits
  <2>2. m + 0 = 8 * Len(w.buffer)
    BY <1>4, <1>5, <1>6
  <2>3. \A j \in 1 .. 0 : BitAt(x.buffer, w.bitCount + j - 1) = HP!Filler[j]
    OBVIOUS
  <2>4. 0 \in 0 .. 7
    OBVIOUS
  <2> QED
    BY <1>1, <1>5, <2>1, <2>2, <2>3, <2>4
<1>7. CASE r # 0
  <2> DEFINE cur == w.buffer[sz + 1]
             b   == Or(cur, Shr(85, r))
             k   == 8 - r
  <2>0. r \in {1, 2, 3, 4, 5, 6, 7} /\ k \in 1 .. 7
    BY <1>7
  <2>1. Len(w.buffer) = sz + 1 /\ w.buffer \in Seq(Byte)
    BY <1>4, <1>5, <1>7
  <2>2. cur \in Byte /\ ZeroBehind(cur, r)
    BY <1>1, <1>2, <1>3, <1>7, <2>1 DEF Clean
  <2>3. x = [w EXCEPT !.buffer[sz + 1] = b]
    BY <1>1, <1>2, <1>3, <1>7, Zenon DEF appendPaddingBits
  <2> HIDE DEF cur
  <2>4. Shr(85, r) \in Byte
    BY <2>0, PaddingBits
  <2>5. /\ b \in Byte
        /\ \A p \in Places : Bit(b, p) = IF Bit(cur, p) = 1 \/ Bit(Shr(85, r), p) = 1 THEN 1 ELSE 0
    BY <2>2, <2>4, OrBits
  <2> HIDE DEF b
  <2>6. /\ x \in [bitCount : Nat, buffer : Seq(Byte)]
        /\ x.bitCount = m /\ Len(x.buffer) = sz + 1
        /\ \A i \in 1 .. sz : x.buffer[i] = w.buffer[i]
        /\ x.buffer[sz + 1] = b
    BY <1>1, <1>5, <2>1, <2>3, <2>5
  <2>7. ASSUME NEW p \in Places, p <= r PROVE Bit(b, p) = Bit(cur, p)
    <3>1. Bit(Shr(85, r), p) = 0
      BY <2>0, <2>7, PaddingBits
    <3>2. Bit(cur, p) \in {0, 1}
      BY <2>2, BitsOfByte DEF Places
    <3> QED
      BY <2>5, <3>1, <3>2
  <2>8. ASSUME NEW j \in 1 .. k PROVE Bit(b, r + j) = HP!Filler[j]
    <3>1. r + j \in Places /\ r + j > r /\ (r + j) - r = j /\ ~ (r
            + j <= r) /\ j \in {1, 2, 3, 4, 5, 6, 7}
      BY <2>0 DEF Places
    <3>2. Bit(cur, r + j) = 0
      BY <2>0, <2>2, <3>1, FreeBits
    <3>3. Bit(Shr(85, r), r + j) = HP!Filler[j]
      BY <2>0, <3>1, PaddingBits
    <3>4. HP!Filler[j] \in {0, 1}
      BY <3>1 DEF HP!Filler
    <3> QED
      BY <2>5, <3>1, <3>2, <3>3, <3>4
  <2>9. ASSUME NEW i \in 0 .. m - 1 PROVE BitAt(x.buffer, i) = BitAt(w.buffer, i)
    <3>1. CASE i \div 8 < sz
      <4>1. i \div 8 + 1 \in 1 .. sz
        BY <3>1
      <4> QED
        BY <2>6, <4>1 DEF BitAt
    <3>2. CASE ~ (i \div 8 < sz)
      <4>1. i \div 8 = sz /\ (i % 8) + 1 \in Places /\ (i % 8) + 1 <= r
        BY <1>4, <3>2 DEF Places
      <4> QED
        BY <2>6, <2>7, <4>1 DEF BitAt, cur
    <3> QED
      BY <3>1, <3>2
  <2>10. ASSUME NEW j \in 1 .. k PROVE BitAt(x.buffer, m + j - 1) = HP!Filler[j]
    <3>1. (m + j - 1) \div 8 = sz /\ ((m + j - 1) % 8) + 1 = r + j
      BY <1>4, <2>0
    <3> QED
      BY <2>6, <2>8, <3>1 DEF BitAt
  <2>11. k \in 0 .. 7 /\ m + k = 8 * Len(w.buffer)
    BY <1>4, <2>0, <2>1
  <2> HIDE DEF k
  <2> QED
    BY <1>1, <2>1, <2>6, <2>9, <2>10, <2>11
<1> QED
  BY <1>6, <1>7

-----------------------------------------------------------------------------
(* Buffers as sequences of bits.                                           *)

FirstBits(w, k) == [i \in 1 .. k |-> peek(w.buffer, 1, i - 1)]

LEMMA FirstBitsProperties ==
  ASSUME NEW w, w.buffer \in Seq(Byte), NEW k \in Nat, k <= 8 * Len(w.buffer)
  PROVE  /\ FirstBits(w, k) \in Seq({0, 1}) /\ Len(FirstBits(w, k)) = k
         /\ \A i \in 1 .. k : FirstBits(w, k)[i] = BitAt(w.buffer, i - 1)
<1>1. ASSUME NEW i \in 1 .. k
      PROVE  peek(w.buffer, 1, i - 1) = BitAt(w.buffer, i - 1) /\ BitAt(w.buffer, i - 1) \in {0, 1}
  <2>1. i - 1 \in Nat /\ i - 1 < 8 * Len(w.buffer)
    OBVIOUS
  <2> QED
    BY <2>1, PeekBit, ByteAt
<1> QED
  BY <1>1 DEF FirstBits

(* v is s with t behind it.                                                *)
Joins(v, s, t) ==
  /\ Len(v) = Len(s) + Len(t)
  /\ \A i \in 1 .. Len(s) : v[i] = s[i]
  /\ \A i \in 1 .. Len(t) : v[Len(s) + i] = t[i]

LEMMA JoinedBits ==
  ASSUME NEW S, NEW s \in Seq(S), NEW t \in Seq(S), NEW v \in Seq(S), Joins(v, s, t)
  PROVE  v = s \o t
<1>1. /\ s \o t \in Seq(S) /\ Len(s \o t) = Len(s) + Len(t)
      /\ \A i \in 1 .. Len(s) + Len(t) :
           (s \o t)[i] = IF i <= Len(s) THEN s[i] ELSE t[i - Len(s)]
  BY ConcatProperties, Zenon
<1>2. ASSUME NEW i \in 1 .. Len(v) PROVE v[i] = (s \o t)[i]
  <2>0. Len(s) \in Nat /\ Len(t) \in Nat /\ i \in 1 .. Len(s) + Len(t)
    BY <1>2 DEF Joins
  <2>1. CASE i <= Len(s)
    BY <1>1, <2>0, <2>1 DEF Joins
  <2>2. CASE ~ (i <= Len(s))
    <3>1. i - Len(s) \in 1 .. Len(t) /\ Len(s) + (i - Len(s)) = i
      BY <2>0, <2>2
    <3>2. v[Len(s) + (i - Len(s))] = t[i - Len(s)]
      BY <3>1 DEF Joins
    <3> QED
      BY <1>1, <2>0, <2>2, <3>1, <3>2
  <2> QED
    BY <2>1, <2>2
<1>3. Len(v) = Len(s \o t)
  BY <1>1 DEF Joins
<1> QED
  BY <1>1, <1>2, <1>3, SeqEqual

LEMMA WrittenBits ==
  ASSUME NEW w, Clean(w), NEW x, NEW s \in Seq({0, 1}), Written(w, x, s)
  PROVE  FirstBits(x, x.bitCount) = FirstBits(w, w.bitCount) \o s
<1>1. PICK m \in Nat : m = w.bitCount
  BY DEF Clean
<1>2. PICK l \in Nat : l = Len(s)
  OBVIOUS
<1>3. x.bitCount = m + l
  BY <1>1, <1>2, Zenon DEF Written
<1>4. w.buffer \in Seq(Byte) /\ m <= 8 * Len(w.buffer)
  BY <1>1 DEF Clean
<1>5. x.buffer \in Seq(Byte) /\ m + l <= 8 * Len(x.buffer)
  <2>1. x.buffer \in Seq(Byte) /\ Len(x.buffer) = (x.bitCount + 7) \div 8
    BY DEF Written, Clean
  <2> QED
    BY <1>3, <2>1
<1>6. /\ FirstBits(w, m) \in Seq({0, 1}) /\ Len(FirstBits(w, m)) = m
      /\ \A i \in 1 .. m : FirstBits(w, m)[i] = BitAt(w.buffer, i - 1)
  BY <1>4, FirstBitsProperties
<1>7. /\ FirstBits(x, m + l) \in Seq({0, 1}) /\ Len(FirstBits(x, m + l)) = m + l
      /\ \A i \in 1 .. m + l : FirstBits(x, m + l)[i] = BitAt(x.buffer, i - 1)
  <2>1. m + l \in Nat
    OBVIOUS
  <2> QED
    BY <1>5, <2>1, FirstBitsProperties
<1>8. ASSUME NEW i \in 1 .. m PROVE FirstBits(x, m + l)[i] = FirstBits(w, m)[i]
  <2>1. i \in 1 .. m + l /\ i - 1 \in 0 .. m - 1
    OBVIOUS
  <2>2. BitAt(x.buffer, i - 1) = BitAt(w.buffer, i - 1)
    BY <1>1, <2>1 DEF Written
  <2> QED
    BY <1>6, <1>7, <2>1, <2>2
<1>9. ASSUME NEW i \in 1 .. l PROVE FirstBits(x, m + l)[m + i] = s[i]
  <2>1. m + i \in 1 .. m + l
    OBVIOUS
  <2>2. BitAt(x.buffer, m + i - 1) = s[i]
    BY <1>1, <1>2 DEF Written
  <2>3. FirstBits(x, m + l)[m + i] = BitAt(x.buffer, m + i - 1)
    BY <1>7, <2>1
  <2> QED
    BY <2>2, <2>3
<1>10. FirstBits(x, m + l) = FirstBits(w, m) \o s
  <2>1. Joins(FirstBits(x, m + l), FirstBits(w, m), s)
    BY <1>2, <1>6, <1>7, <1>8, <1>9 DEF Joins
  <2> QED
    BY <1>6, <1>7, <2>1, JoinedBits, Zenon
<1> QED
  BY <1>1, <1>3, <1>10

LEMMA PaddedBits ==
  ASSUME NEW w, Clean(w), NEW x, x = appendPaddingBits(w)
  PROVE  \E k \in 0 .. 7 :
           /\ (Len(FirstBits(w, w.bitCount)) + k) % 8 = 0
           /\ FirstBits(x, Len(x.buffer) * 8)
                = FirstBits(w, w.bitCount) \o SubSeq(HP!Filler, 1, k)
<1>1. PICK m \in Nat : m = w.bitCount
  BY DEF Clean
<1>2. /\ x.buffer \in Seq(Byte) /\ Len(x.buffer) = Len(w.buffer)
      /\ \A i \in 0 .. m - 1 : BitAt(x.buffer, i) = BitAt(w.buffer, i)
  BY <1>1, PaddingWrites
<1>3. PICK k \in 0 .. 7 :
        /\ m + k = 8 * Len(w.buffer)
        /\ \A j \in 1 .. k : BitAt(x.buffer, m + j - 1) = HP!Filler[j]
  BY <1>1, PaddingWrites
<1>4. w.buffer \in Seq(Byte)
  BY DEF Clean
<1>5. PICK l \in Nat : l = Len(w.buffer)
  BY <1>4
<1>6. /\ FirstBits(w, m) \in Seq({0, 1}) /\ Len(FirstBits(w, m)) = m
      /\ \A i \in 1 .. m : FirstBits(w, m)[i] = BitAt(w.buffer, i - 1)
  <2>1. m <= 8 * Len(w.buffer)
    BY <1>3, <1>5
  <2> QED
    BY <1>4, <2>1, FirstBitsProperties
<1>7. Len(x.buffer) * 8 = m + k /\ m + k \in Nat /\ m + k <= 8 * Len(x.buffer)
  BY <1>2, <1>3, <1>5
<1>8. /\ FirstBits(x, m + k) \in Seq({0, 1}) /\ Len(FirstBits(x, m + k)) = m + k
      /\ \A i \in 1 .. m + k : FirstBits(x, m + k)[i] = BitAt(x.buffer, i - 1)
  BY <1>2, <1>7, FirstBitsProperties
<1> DEFINE e == SubSeq(HP!Filler, 1, k)
<1>9. e \in Seq({0, 1}) /\ Len(e) = k /\ \A j \in 1 .. k : e[j] = HP!Filler[j]
  <2>1. HP!Filler \in Seq({0, 1}) /\ Len(HP!Filler) = 7
    BY DEF HP!Filler
  <2>2. \A i \in 1 .. 7 : HP!Filler[i] \in {0, 1}
    BY DEF HP!Filler
  <2>3. Len(e) = k /\ \A j \in 1 .. k : e[j] = HP!Filler[j]
    BY <2>1
  <2> QED
    BY <2>2, <2>3
<1> HIDE DEF e
<1>10. ASSUME NEW i \in 1 .. m PROVE FirstBits(x, m + k)[i] = FirstBits(w, m)[i]
  <2>1. i \in 1 .. m + k /\ i - 1 \in 0 .. m - 1
    OBVIOUS
  <2> QED
    BY <1>2, <1>6, <1>8, <2>1
<1>11. ASSUME NEW i \in 1 .. k PROVE FirstBits(x, m + k)[m + i] = e[i]
  <2>1. m + i \in 1 .. m + k /\ (m + i) - 1 = m + i - 1
    OBVIOUS
  <2> QED
    BY <1>3, <1>8, <1>9, <2>1
<1>12. FirstBits(x, m + k) = FirstBits(w, m) \o e
  <2>1. Joins(FirstBits(x, m + k), FirstBits(w, m), e)
    BY <1>6, <1>8, <1>9, <1>10, <1>11 DEF Joins
  <2> QED
    BY <1>6, <1>8, <1>9, <2>1, JoinedBits, Zenon
<1>13. (m + k) % 8 = 0
  BY <1>3, <1>5
<1> QED
  BY <1>1, <1>6, <1>7, <1>12, <1>13 DEF e

(* The length of a codeword.                                               *)
LEMMA CodeLengths ==
  ASSUME NEW b \in Byte
  PROVE  CodeLength[b] = Len(HP!Code(b))
<1>1. Clean(BitBufferWriter)
  BY DEF Clean, BitBufferWriter
<1>2. Written(BitBufferWriter, EncodeSymbol(BitBufferWriter, b), HP!Code(b))
  BY <1>1, EncodeSymbolWrites
<1>3. EncodeSymbol(BitBufferWriter, b).bitCount = 0 + Len(HP!Code(b))
  BY <1>2 DEF Written, BitBufferWriter
<1>4. HP!Code(b) \in Seq({0, 1})
  <2>1. {SymbolsOf(i) : i \in Inputs} \subseteq Seq(0 .. 255)
    BY SymbolsType
  <2> QED
    BY <2>1, HP!CodeType DEF HP!Byte, Byte
<1> QED
  BY <1>3, <1>4 DEF CodeLength, Byte

-----------------------------------------------------------------------------
(* The invariant.                                                          *)

(* The bits the decoder can have read since the last symbol: the inner     *)
(* nodes of the tree.                                                      *)
Inner ==
  { <<>>, <<0>>, <<0, 0>>, <<0, 0, 0>>, <<0, 0, 1>>, <<0, 0, 0, 0>>,
    <<0, 0, 0, 1>>, <<0, 0, 0, 0, 0>>, <<0, 0, 0, 0, 0, 0>> }

CodecTypes ==
  /\ input \in Inputs
  /\ bytes \in 0 .. Len(Symbols)
  /\ bf \in [bitCount : Nat, buffer : Seq(Byte)]
  /\ Len(bf.buffer) = (bf.bitCount + 7) \div 8
  /\ bitPosition \in 0 .. Len(bf.buffer) * 8
  /\ phase \in {"encode", "decode", "done"}

(* Before the decoder starts.                                              *)
Encoding ==
  phase = "encode" =>
    Clean(bf) /\ bitPosition = 0 /\ n = <<>> /\ Len(out) = Skipped

(* The decoder's node is the beginning of a codeword that stands before    *)
(* the next bit.                                                           *)
AtNode ==
  phase = "decode" =>
    /\ bytes = Len(Symbols)
    /\ n \in Inner /\ Len(n) <= bitPosition
    /\ \A i \in 1 .. Len(n) : BitAt(bf.buffer, bitPosition - Len(n) + i - 1) = n[i]

(* The bytes that are copied stay in front of those decoded.               *)
Copied ==
  /\ out \in Seq(Byte) /\ Len(out) >= Skipped
  /\ \A i \in 1 .. Skipped : out[i] = src[i]

(* The inductive invariant: the buffer is well formed and, as bits, is     *)
(* what the invariant of HuffmanCode says; the decoder is where its node   *)
(* says it is.                                                             *)
CodecInv == CodecTypes /\ Encoding /\ AtNode /\ Copied /\ HP!CodeInv

(* The sums of the lengths of the codewords exist.                         *)
LEMMA EndsUnfold ==
  ASSUME Len(Symbols) \in Nat
  PROVE  /\ Ends[0] = 0
         /\ \A i \in 1 .. Len(Symbols) : Ends[i] = Ends[i - 1] + CodeLength[Symbols[i]]
<1> DEFINE k == Len(Symbols)
           c(i) == CodeLength[Symbols[i]]
           Is(g, m) == g = [i \in 0 .. m |-> IF i = 0 THEN 0 ELSE g[i - 1] + c(i)]
           T == {m \in Nat : \E g : Is(g, m)}
<1>1. k \in Nat
  OBVIOUS
<1>2. Ends = CHOOSE g : Is(g, k)
  BY DEF Ends
<1> HIDE DEF c, k
<1>3. 0 \in T
  <2> DEFINE e == [i \in 0 .. 0 |-> 0]
  <2>1. \A i \in 0 .. 0 : i = 0
    OBVIOUS
  <2>2. Is(e, 0)
    BY <2>1
  <2> QED
    BY <2>2
<1>4. ASSUME NEW m \in T
      PROVE  m + 1 \in T
  <2>1. m \in Nat /\ m + 1 \in Nat
    BY <1>4
  <2>2. PICK g : Is(g, m)
    BY <1>4
  <2> DEFINE h == [i \in 0 .. m + 1 |-> IF i = 0 THEN 0 ELSE g[i - 1] + c(i)]
  <2>3. \A i \in 0 .. m : g[i] = IF i = 0 THEN 0 ELSE g[i - 1] + c(i)
    BY ONLY <2>2
  <2>4. /\ h = [i \in 0 .. m + 1 |-> IF i = 0 THEN 0 ELSE g[i - 1] + c(i)]
        /\ \A i \in 0 .. m + 1 : h[i] = IF i = 0 THEN 0 ELSE g[i - 1] + c(i)
    OBVIOUS
  <2> HIDE DEF h
  <2>5. \A i \in 0 .. m : i \in 0 .. m + 1
    BY ONLY <2>1
  <2>6. \A i \in 0 .. m : h[i] = g[i]
    BY ONLY <2>3, <2>4, <2>5
  <2>7. \A i \in 0 .. m + 1 : i # 0 => i - 1 \in 0 .. m
    BY ONLY <2>1
  <2>8. \A i \in 0 .. m + 1 : i # 0 => h[i - 1] = g[i - 1]
    BY ONLY <2>6, <2>7
  <2>9. h = [i \in 0 .. m + 1 |-> IF i = 0 THEN 0 ELSE h[i - 1] + c(i)]
    BY ONLY <2>4, <2>8
  <2> QED
    BY <2>1, <2>9
<1>5. Is(Ends, k)
  <2>1. T \in SUBSET Nat
    OBVIOUS
  <2>2. k \in T
    <3> HIDE DEF T
    <3>1. T = Nat
      BY ONLY <1>3, <1>4, <2>1, SetInduction
    <3> QED
      BY <1>1, <3>1
  <2>3. \E g : Is(g, k)
    BY <2>2
  <2> HIDE DEF Is
  <2> QED
    BY <1>2, <2>3
<1>6. \A i \in 0 .. k : Ends[i] = IF i = 0 THEN 0 ELSE Ends[i - 1] + c(i)
  BY <1>5
<1>7. \A i \in 1 .. k : i \in 0 .. k /\ i # 0
  BY <1>1
<1>8. 0 \in 0 .. k
  BY <1>1
<1> QED
  BY <1>6, <1>7, <1>8 DEF k, c

-----------------------------------------------------------------------------
(* A sequence with one more element.                                       *)
LEMMA AppendedTo ==
  ASSUME NEW S, NEW s \in Seq(S), NEW x \in S
  PROVE  /\ s \o <<x>> \in Seq(S)
         /\ Len(s \o <<x>>) = Len(s) + 1
         /\ \A i \in 1 .. Len(s) : (s \o <<x>>)[i] = s[i]
         /\ (s \o <<x>>)[Len(s) + 1] = x
<1>1. s \o <<x>> = Append(s, x)
  OBVIOUS
<1>2. /\ Append(s, x) \in Seq(S)
      /\ Len(Append(s, x)) = Len(s) + 1
      /\ \A i \in 1 .. Len(s) : Append(s, x)[i] = s[i]
      /\ Append(s, x)[Len(s) + 1] = x
  BY AppendProperties
<1> QED
  BY <1>1, <1>2, Zenon

(* The encoders.                                                           *)

LEMMA SymbolsAre ==
  ASSUME input \in Inputs
  PROVE  /\ src \in Seq(Byte) /\ Skipped \in 0 .. Len(src)
         /\ Symbols \in Seq(Byte)
         /\ input.encoder # "stream" => Symbols = Encoded
         /\ input.encoder = "stream" =>
              /\ Len(Symbols) = Len(src) + 1
              /\ \A i \in 1 .. Len(src) : Symbols[i] = src[i]
              /\ Symbols[Len(src) + 1] = 255
<1>1. /\ src \in Seq(Byte) /\ Skipped \in 0 .. Len(src) /\ Symbols \in Seq(Byte)
  BY SymbolsType DEF src, Skipped, Symbols, Byte
<1>2. Symbols = SubSeq(src, Skipped
        + 1, Len(src)) \o (IF input.encoder = "stream" THEN <<255>> ELSE <<>>)
  BY DEF Symbols, SymbolsOf, src, Skipped
<1>3. ASSUME input.encoder # "stream" PROVE Symbols = Encoded
  <2> DEFINE s == SubSeq(src, Skipped + 1, Len(src))
  <2>1. s \in Seq(Byte)
    <3> DEFINE p == Skipped
               k == Len(src)
    <3>1. k \in Nat /\ \A j \in 1 .. k : src[j] \in Byte
      BY <1>1
    <3>2. p \in 0 .. k
      BY <1>1
    <3> HIDE DEF p, k
    <3>3. p + 1 \in Int /\ k \in Int /\ \A j \in p + 1 .. k : j \in 1 .. k
      BY <3>1, <3>2
    <3>4. SubSeq(src, p + 1, k) \in Seq(Byte)
      BY <3>1, <3>3, SubSeqProperties
    <3> QED
      BY <3>4 DEF p, k
  <2>2. Symbols = s \o <<>>
    BY <1>2, <1>3
  <2>3. Encoded = s
    BY DEF Encoded
  <2> HIDE DEF s
  <2>4. s \o <<>> = s
    BY <2>1
  <2> QED
    BY <2>2, <2>3, <2>4
<1>4. ASSUME input.encoder = "stream"
      PROVE  /\ Len(Symbols) = Len(src) + 1
             /\ \A i \in 1 .. Len(src) : Symbols[i] = src[i]
             /\ Symbols[Len(src) + 1] = 255
  <2>1. Skipped = 0
    BY <1>4 DEF Skipped, SkippedOf
  <2>2. SubSeq(src, 1, Len(src)) = src
    BY <1>1, WholePrefix
  <2>3. Skipped + 1 = 1
    BY <2>1
  <2>4. Symbols = src \o <<255>>
    BY <1>2, <1>4, <2>2, <2>3, Zenon
  <2> DEFINE x == 255
  <2>5. x \in Byte
    BY DEF Byte
  <2> HIDE DEF x
  <2>6. \A s \in Seq(Byte) : /\ Len(s \o <<x>>) = Len(s) + 1
                             /\ \A i \in 1 .. Len(s) : (s \o <<x>>)[i] = s[i]
                             /\ (s \o <<x>>)[Len(s) + 1] = x
    BY <2>5, AppendedTo
  <2>7. /\ Len(src \o <<x>>) = Len(src) + 1
        /\ \A i \in 1 .. Len(src) : (src \o <<x>>)[i] = src[i]
        /\ (src \o <<x>>)[Len(src) + 1] = x
    BY <1>1, <2>6
  <2> QED
    BY <2>4, <2>7 DEF x
<1> QED
  BY <1>1, <1>3, <1>4

(* Either encoder writes the next symbol.                                  *)
EncodeNext ==
  /\ phase = "encode"
  /\ bytes < Len(Symbols)
  /\ bf' = EncodeSymbol(bf, Symbols[bytes + 1])
  /\ bytes' = bytes + 1
  /\ UNCHANGED <<input, bitPosition, n, out, phase>>

LEMMA EncodersEncode ==
  ASSUME CodecTypes, encodeHuffman \/ encodeHuffmanStream
  PROVE  EncodeNext
<1>1. input \in Inputs /\ bytes \in Nat
  BY SymbolsAre DEF CodecTypes
<1>2. CASE encodeHuffman
  BY <1>1, <1>2, SymbolsAre DEF encodeHuffman, EncodeNext
<1>3. CASE encodeHuffmanStream
  <2>1. /\ Len(src) \in Nat /\ Len(Symbols) = Len(src) + 1
        /\ \A i \in 1 .. Len(src) : Symbols[i] = src[i]
        /\ Symbols[Len(src) + 1] = 255
    BY <1>1, <1>3, SymbolsAre DEF encodeHuffmanStream
  <2>2. bytes <= Len(src)
    BY <1>1, <1>3, <2>1 DEF encodeHuffmanStream, eof
  <2>3. Symbols[bytes + 1] = IF bytes < Len(src) THEN src[bytes + 1] ELSE 255
    <3>1. CASE bytes < Len(src)
      <4>1. bytes + 1 \in 1 .. Len(src)
        BY <1>1, <2>1, <3>1
      <4> QED
        BY <2>1, <3>1, <4>1
    <3>2. CASE ~ (bytes < Len(src))
      <4>1. bytes = Len(src)
        BY <1>1, <2>1, <2>2, <3>2
      <4> QED
        BY <2>1, <3>2, <4>1
    <3> QED
      BY <3>1, <3>2
  <2>4. bytes < Len(Symbols)
    BY <1>1, <2>1, <2>2
  <2> QED
    BY <1>3, <2>3, <2>4 DEF encodeHuffmanStream, EncodeNext
<1> QED
  BY <1>2, <1>3

LEMMA EncodersEnd ==
  ASSUME CodecTypes, endEncodeHuffman
  PROVE  bytes = Len(Symbols)
<1>1. input \in Inputs /\ bytes \in 0 .. Len(Symbols) /\ Len(Symbols) \in Nat
  BY SymbolsAre DEF CodecTypes
<1>2. CASE input.encoder = "stream"
  <2>1. Len(src) \in Nat /\ Len(Symbols) = Len(src) + 1
    BY <1>1, <1>2, SymbolsAre
  <2>2. bytes > Len(src)
    BY <1>2 DEF endEncodeHuffman, eof
  <2> QED
    BY <1>1, <2>1, <2>2
<1>3. CASE input.encoder # "stream"
  BY <1>1, <1>3, SymbolsAre DEF endEncodeHuffman
<1> QED
  BY <1>2, <1>3

-----------------------------------------------------------------------------
(* Each step of the encoders is one of HuffmanCode.                        *)

LEMMA Sources == {SymbolsOf(i) : i \in Inputs} \subseteq Seq(0 .. 255)
BY SymbolsType

LEMMA CodecInvInit ==
  ASSUME Init
  PROVE  HP!Init /\ CodecInv
<1>1. /\ input \in Inputs /\ bytes = 0 /\ bf = BitBufferWriter /\ bitPosition = 0
      /\ n = <<>> /\ out = SubSeq(src, 1, Skipped) /\ phase = "encode"
  BY DEF Init
<1>2. Marks = <<>>
  <2>1. \A m : m = 0 => [i \in 1 .. m |-> Ends[i]] = <<>>
    OBVIOUS
  <2> QED
    BY <1>1, <2>1 DEF Marks
<1>3. Content = <<>>
  <2>1. \A m : m = 0 => [i \in 1 .. m |-> peek(bf.buffer, 1, i - 1)] = <<>>
    OBVIOUS
  <2> QED
    BY <1>1, <2>1 DEF Content, BitsOf, BitBufferWriter
<1>4. Position = 0
  <2>1. bitPosition = 0 /\ Len(n) = 0
    BY <1>1
  <2> QED
    BY <2>1 DEF Position
<1>5. src \in Seq(Byte) /\ Skipped \in 0 .. Len(src) /\ Symbols \in Seq(Byte)
  BY <1>1, SymbolsAre
<1>6. out \in Seq(Byte) /\ Len(out) = Skipped /\ \A i \in 1 .. Skipped : out[i] = src[i]
  <2> DEFINE p == Skipped
             S == Byte
             s == src
  <2>1. p \in Nat /\ p <= Len(s) /\ s \in Seq(S)
    BY <1>5
  <2> HIDE DEF p, S, s
  <2>2. \A i \in 1 .. p : s[i] \in S
    BY <2>1
  <2>3. /\ SubSeq(s, 1, p) \in Seq(S) /\ Len(SubSeq(s, 1, p)) = p
        /\ \A i \in 1 .. p : SubSeq(s, 1, p)[i] = s[i]
    BY <2>1, <2>2, SubSeqProperties
  <2> QED
    BY <1>1, <2>3 DEF p, S, s
<1>7. Decoded = <<>>
  BY <1>5, <1>6 DEF Decoded
<1>8. HP!Init
  BY <1>1, <1>2, <1>3, <1>4, <1>7 DEF HP!Init, Symbols
<1>9. HP!CodeInv
  BY <1>8, Sources, HP!CodeInvInit
<1>10. CodecTypes
  <2>1. Len(Symbols) \in Nat
    BY <1>5
  <2> QED
    BY <1>1, <2>1 DEF CodecTypes, BitBufferWriter
<1>11. Encoding
  BY <1>1, <1>6 DEF Encoding, Clean, BitBufferWriter
<1>12. AtNode /\ Copied
  BY <1>1, <1>5, <1>6 DEF AtNode, Copied
<1> QED
  BY <1>8, <1>9, <1>10, <1>11, <1>12 DEF CodecInv

LEMMA CodecInvEncode ==
  ASSUME CodecInv, EncodeNext
  PROVE  HP!Encode /\ CodecInv'
<1>1. /\ phase = "encode" /\ bytes < Len(Symbols)
      /\ bf' = EncodeSymbol(bf, Symbols[bytes + 1]) /\ bytes' = bytes + 1
      /\ input' = input /\ bitPosition' = bitPosition /\ n' = n /\ out' = out
      /\ phase' = phase
  BY DEF EncodeNext
<1>2. /\ input \in Inputs /\ bytes \in 0 .. Len(Symbols)
      /\ Clean(bf) /\ bitPosition = 0 /\ n = <<>> /\ Len(out) = Skipped
      /\ Copied /\ HP!CodeInv
  BY <1>1 DEF CodecInv, CodecTypes, Encoding
<1>3. Symbols' = Symbols /\ src' = src /\ Skipped' = Skipped
  BY <1>1 DEF Symbols, src, Skipped
<1>4. Symbols \in Seq(Byte) /\ bytes + 1 \in 1 .. Len(Symbols) /\ bytes \in Nat
  BY <1>1, <1>2, SymbolsAre
<1> DEFINE b == Symbols[bytes + 1]
<1>5. b \in Byte
  BY <1>4
<1>6. Written(bf, bf', HP!Code(b))
  BY <1>1, <1>2, <1>5, EncodeSymbolWrites
<1>7. HP!Code(b) \in Seq({0, 1})
  BY <1>5, Sources, HP!CodeType DEF HP!Byte, Byte
<1> HIDE DEF b
<1>8. Content = FirstBits(bf, bf.bitCount) /\ Content' = FirstBits(bf', bf'.bitCount)
  BY <1>1 DEF Content, BitsOf, FirstBits
<1>9. Content' = Content \o HP!Code(b)
  BY <1>2, <1>6, <1>7, <1>8, WrittenBits
<1>10. Ends' = Ends
  BY <1>3 DEF Ends
<1>11. /\ Marks = [i \in 1 .. bytes |-> Ends[i]] /\ Marks' = [i \in 1 .. bytes + 1 |-> Ends[i]]
       /\ Len(Marks) = bytes
  BY <1>1, <1>4, <1>10 DEF Marks
<1>12. Content \in Seq({0, 1}) /\ Len(Content) = HP!Start(Len(Marks) + 1) /\ Marks \in Seq(Nat)
  BY <1>1, <1>2 DEF HP!CodeInv, HP!TypeOK, HP!Filled
<1>13. Len(Content) = Ends[bytes]
  <2>1. CASE bytes = 0
    BY <1>4, <1>11, <1>12, <2>1, EndsUnfold DEF HP!Start
  <2>2. CASE bytes # 0
    <3>1. Len(Marks) + 1 # 1 /\ (Len(Marks) + 1) - 1 = bytes /\ bytes \in 1 .. bytes
      BY <1>4, <1>11, <2>2
    <3> QED
      BY <1>11, <1>12, <3>1 DEF HP!Start
  <2> QED
    BY <2>1, <2>2
<1>14. Ends[bytes + 1] = Ends[bytes] + Len(HP!Code(b))
  <2>1. (bytes + 1) - 1 = bytes /\ Len(Symbols) \in Nat
    BY <1>4
  <2>2. Ends[bytes + 1] = Ends[bytes] + CodeLength[b]
    BY <1>4, <2>1, EndsUnfold DEF b
  <2> QED
    BY <1>5, <2>2, CodeLengths
<1>15. Len(Content') = Len(Content) + Len(HP!Code(b))
  <2>1. \A s, t \in Seq({0, 1}) : Len(s \o t) = Len(s) + Len(t)
    OBVIOUS
  <2> QED
    BY <1>7, <1>9, <1>12, <2>1, Zenon
<1>16. Marks' = Append(Marks, Len(Content'))
  <2>1. Len(Content') = Ends[bytes + 1]
    BY <1>13, <1>14, <1>15
  <2>2. \A k \in Nat : [i \in 1 .. k
          + 1 |-> Ends[i]] = Append([i \in 1 .. k |-> Ends[i]], Ends[k + 1])
    OBVIOUS
  <2> QED
    BY <1>4, <1>11, <2>1, <2>2
<1>17. Position' = Position /\ Decoded' = Decoded
  BY <1>1, <1>3 DEF Position, Decoded
<1>18. HP!Encode
  BY <1>1, <1>3, <1>9, <1>11, <1>16, <1>17 DEF HP!Encode, b
<1>19. HP!CodeInv'
  BY <1>2, <1>18, Sources, HP!CodeInvEncode
<1>20. Clean(bf')
  BY <1>6 DEF Written
<1>21. CodecTypes'
  <2>1. /\ bf' \in [bitCount : Nat, buffer : Seq(Byte)]
        /\ Len((bf').buffer) = ((bf').bitCount + 7) \div 8
    BY <1>20 DEF Clean
  <2>2. bytes' \in 0 .. Len(Symbols') /\ bitPosition' \in 0 .. Len((bf').buffer) * 8
    BY <1>1, <1>2, <1>3, <1>4, <2>1
  <2> QED
    BY <1>1, <1>2, <2>1, <2>2 DEF CodecTypes
<1>22. Encoding' /\ AtNode' /\ Copied'
  BY <1>1, <1>2, <1>3, <1>20 DEF Encoding, AtNode, Copied
<1> QED
  BY <1>18, <1>19, <1>21, <1>22 DEF CodecInv

LEMMA CodecInvPad ==
  ASSUME CodecInv, endEncodeHuffman
  PROVE  HP!Pad /\ CodecInv'
<1>1. /\ phase = "encode" /\ phase' = "decode" /\ bf' = appendPaddingBits(bf)
      /\ input' = input /\ bytes' = bytes /\ bitPosition' = bitPosition /\ n' = n /\ out' = out
  BY DEF endEncodeHuffman
<1>2. /\ input \in Inputs /\ bytes \in 0 .. Len(Symbols)
      /\ Clean(bf) /\ bitPosition = 0 /\ n = <<>> /\ Len(out) = Skipped
      /\ Copied /\ HP!CodeInv /\ CodecTypes
  BY <1>1 DEF CodecInv, CodecTypes, Encoding
<1>3. Symbols' = Symbols /\ src' = src /\ Skipped' = Skipped
  BY <1>1 DEF Symbols, src, Skipped
<1>4. bytes = Len(Symbols) /\ bytes \in Nat
  BY <1>2, EncodersEnd, SymbolsAre
<1>5. Content = FirstBits(bf, bf.bitCount) /\ Content' = FirstBits(bf', Len((bf').buffer) * 8)
  BY <1>1 DEF Content, BitsOf, FirstBits
<1>6. \E k \in 0 .. 7 : /\ (Len(Content) + k) % 8 = 0
                        /\ Content' = Content \o SubSeq(HP!Filler, 1, k)
  BY <1>1, <1>2, <1>5, PaddedBits
<1>7. Ends' = Ends
  BY <1>3 DEF Ends
<1>8. Marks' = Marks /\ Len(Marks) = bytes /\ Position' = Position /\ Decoded' = Decoded
  BY <1>1, <1>3, <1>4, <1>7 DEF Marks, Position, Decoded
<1>9. HP!Pad
  BY <1>1, <1>3, <1>4, <1>6, <1>8 DEF HP!Pad
<1>10. HP!CodeInv'
  BY <1>2, <1>9, Sources, HP!CodeInvPad
<1>11. /\ bf' \in [bitCount : Nat, buffer : Seq(Byte)]
       /\ (bf').bitCount = bf.bitCount /\ Len((bf').buffer) = Len(bf.buffer)
  BY <1>1, <1>2, PaddingWrites
<1>12. CodecTypes'
  BY <1>1, <1>2, <1>3, <1>11 DEF CodecTypes
<1>13. Encoding' /\ AtNode' /\ Copied'
  <2>1. Len(n') = 0 /\ Len(n') <= bitPosition' /\ n' \in Inner
    BY <1>1, <1>2 DEF Inner
  <2>2. \A i \in 1 .. Len(n') : BitAt((bf').buffer, bitPosition' - Len(n') + i - 1) = (n')[i]
    BY <2>1
  <2> QED
    BY <1>1, <1>2, <1>3, <1>4, <2>1, <2>2 DEF Encoding, AtNode, Copied
<1> QED
  BY <1>9, <1>10, <1>12, <1>13 DEF CodecInv

-----------------------------------------------------------------------------
(* The tree.                                                               *)

LEMMA Symbols10 ==
  /\ symbol[<<1>>] = 0
  /\ symbol[<<0, 1>>] = 8
  /\ symbol[<<0, 0, 1, 0>>] = 1
  /\ symbol[<<0, 0, 1, 1>>] = 255
  /\ symbol[<<0, 0, 0, 1, 0>>] = 253
  /\ symbol[<<0, 0, 0, 1, 1>>] = 254
  /\ symbol[<<0, 0, 0, 0, 1>>] = 2
  /\ symbol[<<0, 0, 0, 0, 0, 1>>] = 3
  /\ symbol[<<0, 0, 0, 0, 0, 0, 0>>] = 4
  /\ symbol[<<0, 0, 0, 0, 0, 0, 1>>] = 252
BY DEF symbol, terminals

(* A terminal node is the codeword of its symbol.                          *)
LEMMA Terminals ==
  ASSUME NEW node \in terminals
  PROVE  /\ symbol[node] = 8 => node = <<0, 1>>
         /\ symbol[node] # 8 => symbol[node] \in Byte /\ HP!Code(symbol[node]) = node
<1>1. /\ HP!Code(0) = <<1>> /\ HP!Code(1) = <<0, 0, 1, 0>> /\ HP!Code(2) = <<0, 0, 0, 0, 1>>
      /\ HP!Code(3) = <<0, 0, 0, 0, 0, 1>> /\ HP!Code(4) = <<0, 0, 0, 0, 0, 0, 0>>
      /\ HP!Code(252) = <<0, 0, 0, 0, 0, 0, 1>> /\ HP!Code(253) = <<0, 0, 0, 1, 0>>
      /\ HP!Code(254) = <<0, 0, 0, 1, 1>> /\ HP!Code(255) = <<0, 0, 1, 1>>
  BY Sources, HP!TableCode
<1>2. CASE node = <<0, 1>>
  BY <1>2, Symbols10
<1>3. CASE node # <<0, 1>>
  BY <1>1, <1>3, Symbols10 DEF terminals, Byte
<1> QED
  BY <1>2, <1>3

(* t is s with one more element, v.                                        *)
Extends(t, s, v) ==
  /\ Len(t) = Len(s) + 1
  /\ \A i \in 1 .. Len(s) : t[i] = s[i]
  /\ t[Len(s) + 1] = v

LEMMA ExtendedIsAppended ==
  ASSUME NEW S, NEW s \in Seq(S), NEW v \in S, NEW t \in Seq(S), Extends(t, s, v)
  PROVE  Append(s, v) = t
<1>1. /\ Append(s, v) \in Seq(S)
      /\ Len(Append(s, v)) = Len(s) + 1
      /\ \A i \in 1 .. Len(s) : Append(s, v)[i] = s[i]
      /\ Append(s, v)[Len(s) + 1] = v
  BY AppendProperties
<1>2. ASSUME NEW i \in 1 .. Len(t) PROVE Append(s, v)[i] = t[i]
  <2>1. i \in 1 .. Len(s) \/ i = Len(s) + 1
    BY DEF Extends
  <2> QED
    BY <1>1, <2>1 DEF Extends
<1>3. Len(Append(s, v)) = Len(t)
  BY <1>1 DEF Extends
<1> QED
  BY <1>1, <1>2, <1>3, SeqEqual

(* A bit leads from an inner node to another node.                         *)
LEMMA Children ==
  ASSUME NEW x \in Inner, NEW v \in {0, 1}
  PROVE  Append(x, v) \in Inner \cup terminals
<1>1. /\ Append(<<>>, v) = <<v>>
      /\ Append(<<0>>, v) = <<0, v>>
      /\ Append(<<0, 0>>, v) = <<0, 0, v>>
      /\ Append(<<0, 0, 0>>, v) = <<0, 0, 0, v>>
      /\ Append(<<0, 0, 1>>, v) = <<0, 0, 1, v>>
      /\ Append(<<0, 0, 0, 0>>, v) = <<0, 0, 0, 0, v>>
      /\ Append(<<0, 0, 0, 1>>, v) = <<0, 0, 0, 1, v>>
      /\ Append(<<0, 0, 0, 0, 0>>, v) = <<0, 0, 0, 0, 0, v>>
      /\ Append(<<0, 0, 0, 0, 0, 0>>, v) = <<0, 0, 0, 0, 0, 0, v>>
  <2>1. Append(<<>>, v) = <<v>>
    OBVIOUS
  <2>2. Append(<<0>>, v) = <<0, v>>
    <3>1. <<0>> \in Seq({0, 1}) /\ <<0, v>> \in Seq({0, 1})
      OBVIOUS
    <3>2. Extends(<<0, v>>, <<0>>, v)
      BY DEF Extends
    <3> QED
      BY <3>1, <3>2, ExtendedIsAppended, Zenon
  <2>3. Append(<<0, 0>>, v) = <<0, 0, v>>
    <3>1. <<0, 0>> \in Seq({0, 1}) /\ <<0, 0, v>> \in Seq({0, 1})
      OBVIOUS
    <3>2. Extends(<<0, 0, v>>, <<0, 0>>, v)
      BY DEF Extends
    <3> QED
      BY <3>1, <3>2, ExtendedIsAppended, Zenon
  <2>4. Append(<<0, 0, 0>>, v) = <<0, 0, 0, v>>
    <3>1. <<0, 0, 0>> \in Seq({0, 1}) /\ <<0, 0, 0, v>> \in Seq({0, 1})
      OBVIOUS
    <3>2. Extends(<<0, 0, 0, v>>, <<0, 0, 0>>, v)
      BY DEF Extends
    <3> QED
      BY <3>1, <3>2, ExtendedIsAppended, Zenon
  <2>5. Append(<<0, 0, 1>>, v) = <<0, 0, 1, v>>
    <3>1. <<0, 0, 1>> \in Seq({0, 1}) /\ <<0, 0, 1, v>> \in Seq({0, 1})
      OBVIOUS
    <3>2. Extends(<<0, 0, 1, v>>, <<0, 0, 1>>, v)
      BY DEF Extends
    <3> QED
      BY <3>1, <3>2, ExtendedIsAppended, Zenon
  <2>6. Append(<<0, 0, 0, 0>>, v) = <<0, 0, 0, 0, v>>
    <3>1. <<0, 0, 0, 0>> \in Seq({0, 1}) /\ <<0, 0, 0, 0, v>> \in Seq({0, 1})
      OBVIOUS
    <3>2. Extends(<<0, 0, 0, 0, v>>, <<0, 0, 0, 0>>, v)
      BY DEF Extends
    <3> QED
      BY <3>1, <3>2, ExtendedIsAppended, Zenon
  <2>7. Append(<<0, 0, 0, 1>>, v) = <<0, 0, 0, 1, v>>
    <3>1. <<0, 0, 0, 1>> \in Seq({0, 1}) /\ <<0, 0, 0, 1, v>> \in Seq({0, 1})
      OBVIOUS
    <3>2. Extends(<<0, 0, 0, 1, v>>, <<0, 0, 0, 1>>, v)
      BY DEF Extends
    <3> QED
      BY <3>1, <3>2, ExtendedIsAppended, Zenon
  <2>8. Append(<<0, 0, 0, 0, 0>>, v) = <<0, 0, 0, 0, 0, v>>
    <3>1. <<0, 0, 0, 0, 0>> \in Seq({0, 1}) /\ <<0, 0, 0, 0, 0, v>> \in Seq({0, 1})
      OBVIOUS
    <3>2. Extends(<<0, 0, 0, 0, 0, v>>, <<0, 0, 0, 0, 0>>, v)
      BY DEF Extends
    <3> QED
      BY <3>1, <3>2, ExtendedIsAppended, Zenon
  <2>9. Append(<<0, 0, 0, 0, 0, 0>>, v) = <<0, 0, 0, 0, 0, 0, v>>
    <3>1. <<0, 0, 0, 0, 0, 0>> \in Seq({0, 1}) /\ <<0, 0, 0, 0, 0, 0, v>> \in Seq({0, 1})
      OBVIOUS
    <3>2. Extends(<<0, 0, 0, 0, 0, 0, v>>, <<0, 0, 0, 0, 0, 0>>, v)
      BY DEF Extends
    <3> QED
      BY <3>1, <3>2, ExtendedIsAppended, Zenon
  <2> QED
    BY <2>1, <2>2, <2>3, <2>4, <2>5, <2>6, <2>7, <2>8, <2>9, Zenon
<1>2. /\ <<v>> \in Inner \cup terminals
      /\ <<0, v>> \in Inner \cup terminals
      /\ <<0, 0, v>> \in Inner \cup terminals
      /\ <<0, 0, 0, v>> \in Inner \cup terminals
      /\ <<0, 0, 1, v>> \in Inner \cup terminals
      /\ <<0, 0, 0, 0, v>> \in Inner \cup terminals
      /\ <<0, 0, 0, 1, v>> \in Inner \cup terminals
      /\ <<0, 0, 0, 0, 0, v>> \in Inner \cup terminals
      /\ <<0, 0, 0, 0, 0, 0, v>> \in Inner \cup terminals
  <2>1. CASE v = 0
    BY <2>1, Zenon DEF Inner, terminals
  <2>2. CASE v = 1
    BY <2>2, Zenon DEF Inner, terminals
  <2> QED
    BY <2>1, <2>2
<1> QED
  BY <1>1, <1>2, Zenon DEF Inner

(* An inner node is a few zeros, and perhaps a one after two or three.     *)
LEMMA InnerNodes ==
  ASSUME NEW x \in Inner
  PROVE  /\ x \in Seq({0, 1}) /\ Len(x) \in 0 .. 6
         /\ Len(x) >= 1 => x[1] = 0
         /\ Len(x) >= 4 => x[3] = 0
         /\ Len(x) >= 5 => x[4] = 0 /\ x[5] = 0
         /\ Len(x) >= 6 => x[6] = 0
<1>1. CASE x = <<>>
  BY <1>1
<1>2. CASE x = <<0>>
  BY <1>2
<1>3. CASE x = <<0, 0>>
  BY <1>3
<1>4. CASE x = <<0, 0, 0>>
  BY <1>4
<1>5. CASE x = <<0, 0, 1>>
  BY <1>5
<1>6. CASE x = <<0, 0, 0, 0>>
  BY <1>6
<1>7. CASE x = <<0, 0, 0, 1>>
  BY <1>7
<1>8. CASE x = <<0, 0, 0, 0, 0>>
  BY <1>8
<1>9. CASE x = <<0, 0, 0, 0, 0, 0>>
  BY <1>9
<1> QED
  BY <1>1, <1>2, <1>3, <1>4, <1>5, <1>6, <1>7, <1>8, <1>9, Zenon DEF Inner

(* No codeword leads to an inner node or ends before it.                   *)
LEMMA InnerIsNoCode ==
  ASSUME NEW x \in Inner, NEW c \in Byte, Len(HP!Code(c)) <= Len(x)
  PROVE  \E i \in 1 .. Len(HP!Code(c)) : x[i] # HP!Code(c)[i]
<1>1. Len(x) \in 0 .. 6
  BY InnerNodes
<1>2. c \in HP!InTable
  <2>1. HP!Byte = Byte
    BY DEF HP!Byte, Byte
  <2>2. c \notin HP!InTable => Len(HP!Code(c)) = 10
    BY <2>1, Sources, HP!TaggedCode, Zenon
  <2>3. Len(HP!Code(c)) # 10
    <3>1. \A l \in 0 .. 6 : ~ (10 <= l)
      OBVIOUS
    <3>2. ~ (10 <= Len(x))
      BY <1>1, <3>1, Zenon
    <3> QED
      BY <3>2, Zenon
  <2> QED
    BY <2>2, <2>3, Zenon
<1>3. CASE c = 0
  <2>1. HP!Code(c) = <<1>>
    BY <1>3, Sources, HP!TableCode
  <2>2. Len(HP!Code(c)) = 1 /\ HP!Code(c)[1] = 1
    BY <2>1
  <2>3. 1 \in 1 .. 1 /\ x[1] = 0
    BY <2>2, InnerNodes
  <2> QED
    BY <2>2, <2>3
<1>4. CASE c = 1
  <2>1. HP!Code(c) = <<0, 0, 1, 0>>
    BY <1>4, Sources, HP!TableCode
  <2>2. Len(HP!Code(c)) = 4 /\ HP!Code(c)[3] = 1
    BY <2>1
  <2>3. 3 \in 1 .. 4 /\ x[3] = 0
    BY <2>2, InnerNodes
  <2> QED
    BY <2>2, <2>3
<1>5. CASE c = 2
  <2>1. HP!Code(c) = <<0, 0, 0, 0, 1>>
    BY <1>5, Sources, HP!TableCode
  <2>2. Len(HP!Code(c)) = 5 /\ HP!Code(c)[5] = 1
    BY <2>1
  <2>3. 5 \in 1 .. 5 /\ x[5] = 0
    BY <2>2, InnerNodes
  <2> QED
    BY <2>2, <2>3
<1>6. CASE c = 3
  <2>1. HP!Code(c) = <<0, 0, 0, 0, 0, 1>>
    BY <1>6, Sources, HP!TableCode
  <2>2. Len(HP!Code(c)) = 6 /\ HP!Code(c)[6] = 1
    BY <2>1
  <2>3. 6 \in 1 .. 6 /\ x[6] = 0
    BY <2>2, InnerNodes
  <2> QED
    BY <2>2, <2>3
<1>7. CASE c = 4
  <2>1. HP!Code(c) = <<0, 0, 0, 0, 0, 0, 0>>
    BY <1>7, Sources, HP!TableCode
  <2>2. Len(HP!Code(c)) = 7
    BY <2>1
  <2> QED
    BY <1>1, <2>2
<1>8. CASE c = 252
  <2>1. HP!Code(c) = <<0, 0, 0, 0, 0, 0, 1>>
    BY <1>8, Sources, HP!TableCode
  <2>2. Len(HP!Code(c)) = 7
    BY <2>1
  <2> QED
    BY <1>1, <2>2
<1>9. CASE c = 253
  <2>1. HP!Code(c) = <<0, 0, 0, 1, 0>>
    BY <1>9, Sources, HP!TableCode
  <2>2. Len(HP!Code(c)) = 5 /\ HP!Code(c)[4] = 1
    BY <2>1
  <2>3. 4 \in 1 .. 5 /\ x[4] = 0
    BY <2>2, InnerNodes
  <2> QED
    BY <2>2, <2>3
<1>10. CASE c = 254
  <2>1. HP!Code(c) = <<0, 0, 0, 1, 1>>
    BY <1>10, Sources, HP!TableCode
  <2>2. Len(HP!Code(c)) = 5 /\ HP!Code(c)[4] = 1
    BY <2>1
  <2>3. 4 \in 1 .. 5 /\ x[4] = 0
    BY <2>2, InnerNodes
  <2> QED
    BY <2>2, <2>3
<1>11. CASE c = 255
  <2>1. HP!Code(c) = <<0, 0, 1, 1>>
    BY <1>11, Sources, HP!TableCode
  <2>2. Len(HP!Code(c)) = 4 /\ HP!Code(c)[3] = 1
    BY <2>1
  <2>3. 3 \in 1 .. 4 /\ x[3] = 0
    BY <2>2, InnerNodes
  <2> QED
    BY <2>2, <2>3
<1> QED
  BY <1>2, <1>3, <1>4, <1>5, <1>6, <1>7, <1>8, <1>9, <1>10, <1>11 DEF HP!InTable

-----------------------------------------------------------------------------
(* Each step of the decoders is one of HuffmanCode, or reads one more bit  *)
(* of a codeword.                                                          *)

(* The state of a decoder.                                                 *)
LEMMA Decoder ==
  ASSUME CodecInv, phase = "decode"
  PROVE  /\ input \in Inputs /\ bytes = Len(Symbols) /\ bytes \in Nat
         /\ bf.buffer \in Seq(Byte)
         /\ n \in Inner /\ Position \in Nat
         /\ bitPosition \in Nat /\ bitPosition = Position + Len(n)
         /\ Content \in Seq({0, 1}) /\ Len(Content) = 8 * Len(bf.buffer)
         /\ bitPosition <= Len(Content)
         /\ \A i \in 1 .. Len(Content) : Content[i] = BitAt(bf.buffer, i - 1)
         /\ \A i \in 1 .. Len(n) : Content[Position + i] = n[i]
<1>1. /\ input \in Inputs /\ bytes = Len(Symbols)
      /\ bf.buffer \in Seq(Byte) /\ bitPosition \in 0 .. Len(bf.buffer) * 8
      /\ n \in Inner /\ Len(n) <= bitPosition
      /\ \A i \in 1 .. Len(n) : BitAt(bf.buffer, bitPosition - Len(n) + i - 1) = n[i]
  BY DEF CodecInv, CodecTypes, AtNode
<1>2. bytes \in Nat
  BY <1>1, SymbolsAre
<1>3. PICK l \in Nat : l = Len(bf.buffer)
  BY <1>1
<1>4. PICK m \in 0 .. 6 : m = Len(n)
  BY <1>1, InnerNodes
<1>5. PICK p \in Nat : p = bitPosition
  BY <1>1, <1>3
<1>6. Position = p - m /\ p - m \in Nat /\ p = (p - m) + m /\ p <= 8 * l
  BY <1>1, <1>3, <1>4, <1>5 DEF Position
<1>7. Content = FirstBits(bf, 8 * l)
  <2>1. Len(bf.buffer) * 8 = 8 * l
    BY <1>3
  <2> QED
    BY <2>1 DEF Content, BitsOf, FirstBits
<1>8. /\ Content \in Seq({0, 1}) /\ Len(Content) = 8 * l
      /\ \A i \in 1 .. 8 * l : Content[i] = BitAt(bf.buffer, i - 1)
  <2>1. 8 * l \in Nat /\ 8 * l <= 8 * Len(bf.buffer)
    BY <1>3
  <2> QED
    BY <1>1, <1>7, <2>1, FirstBitsProperties
<1>9. ASSUME NEW i \in 1 .. m PROVE Content[(p - m) + i] = n[i]
  <2>1. (p - m) + i \in 1 .. 8 * l /\ ((p - m) + i) - 1 = p - m + i - 1
    BY <1>4, <1>6
  <2>2. BitAt(bf.buffer, p - m + i - 1) = n[i]
    BY <1>1, <1>4, <1>5
  <2> QED
    BY <1>8, <2>1, <2>2
<1> QED
  BY <1>1, <1>2, <1>3, <1>4, <1>5, <1>6, <1>8, <1>9

(* The node a bit leads to is what stands where the symbol begins.         *)
LEMMA NextNode ==
  ASSUME CodecInv, phase = "decode", HasBits(1, bitPosition),
         NEW node, node = Append(n, Peek(1, bitPosition))
  PROVE  /\ node \in Inner \cup terminals
         /\ bitPosition + 1 = Position + Len(node)
         /\ HP!StandsAt(node, Content, Position)
<1>1. PICK v : v = Peek(1, bitPosition)
  OBVIOUS
<1>2. PICK p \in Nat : p = bitPosition
  BY Decoder
<1>3. PICK q \in Nat : q = Position
  BY Decoder
<1>4. bf.buffer \in Seq(Byte) /\ Len(Content) = 8 * Len(bf.buffer)
  BY Decoder
<1>5. v \in {0, 1} /\ v = BitAt(bf.buffer, p) /\ p + 1 <= Len(Content)
  <2>1. 1 \in {1, 8}
    OBVIOUS
  <2> QED
    BY <1>1, <1>2, <1>4, <2>1, ReaderBits
<1>6. PICK m \in Nat : m = Len(n)
  BY Decoder, InnerNodes
<1>7. n \in Inner /\ n \in Seq({0, 1}) /\ p = q + m
  BY <1>2, <1>3, <1>6, Decoder, InnerNodes
<1>8. node \in Inner \cup terminals
  BY <1>1, <1>5, <1>7, Children
<1>9. /\ Len(node) = m + 1 /\ node[m + 1] = v
      /\ \A i \in 1 .. m : node[i] = n[i]
  BY <1>1, <1>5, <1>6, <1>7
<1>10. p + 1 = q + (m + 1)
  BY <1>7
<1>11. ASSUME NEW i \in 1 .. m + 1 PROVE Content[q + i] = node[i]
  <2>1. CASE i \in 1 .. m
    BY <1>3, <1>6, <1>9, <2>1, Decoder
  <2>2. CASE i = m + 1
    <3>1. q + i = p + 1 /\ p + 1 \in 1 .. Len(Content) /\ (p + 1) - 1 = p
      BY <1>4, <1>5, <1>10, <2>2
    <3>2. Content[p + 1] = BitAt(bf.buffer, p)
      BY <3>1, Decoder
    <3> QED
      BY <1>5, <1>9, <2>2, <3>1, <3>2
  <2>3. i \in 1 .. m \/ i = m + 1
    BY <1>6
  <2> QED
    BY <2>1, <2>2, <2>3, Zenon
<1> QED
  BY <1>2, <1>3, <1>5, <1>8, <1>9, <1>10, <1>11 DEF HP!StandsAt

(* A codeword that a decoder has read is the next symbol's; only the end   *)
(* of the buffer stops it.                                                 *)
LEMMA NextSymbol ==
  ASSUME CodecInv, phase = "decode"
  PROVE  \/ /\ Len(Decoded) < Len(Symbols)
            /\ \E c \in Byte : c \in HP!Fitting(Content, Position)
         \/ /\ Len(Decoded) = Len(Symbols)
            /\ HP!Fitting(Content, Position) = {}
            /\ Len(Content) - Position \in 0 .. 7
<1>1. HP!CodeInv /\ HP!Byte = Byte
  BY DEF CodecInv, HP!Byte, Byte
<1>2. /\ Decoded \in Seq(Byte) /\ Symbols \in Seq(Byte)
      /\ Len(Decoded) <= Len(Symbols)
      /\ Position = HP!Start(Len(Decoded) + 1)
      /\ Len(Marks) = Len(Symbols)
      /\ Len(Content) - HP!Start(Len(Marks) + 1) \in 0 .. 7
  BY <1>1 DEF HP!CodeInv, HP!TypeOK, HP!RoundTrip, HP!Aligned, HP!Filled
<1>3. CASE Len(Decoded) < Len(Symbols)
  <2>1. Symbols[Len(Decoded) + 1] \in HP!Fitting(Content, Position)
    BY <1>1, <1>3, Sources, HP!Standpoint
  <2>2. Symbols[Len(Decoded) + 1] \in Byte
    BY <1>1, <2>1, Zenon DEF HP!Fitting
  <2> QED
    BY <1>3, <2>1, <2>2
<1>4. CASE Len(Decoded) = Len(Symbols)
  BY <1>1, <1>2, <1>4, Sources, HP!Standpoint
<1> QED
  BY <1>2, <1>3, <1>4

(* A step that leaves HuffmanCode where it was.                            *)
LEMMA Unmoved ==
  ASSUME CodecInv, UNCHANGED <<input, bytes, bf>>, phase = "decode", phase' # "encode"
  PROVE  /\ Symbols' = Symbols /\ src' = src /\ Skipped' = Skipped
         /\ Marks' = Marks /\ Content' = Content
<1>1. input' = input /\ bytes' = bytes /\ bf' = bf
  OBVIOUS
<1>2. Symbols' = Symbols /\ src' = src /\ Skipped' = Skipped
  BY <1>1 DEF Symbols, src, Skipped
<1>3. Ends' = Ends
  BY <1>2 DEF Ends
<1> QED
  BY <1>1, <1>2, <1>3 DEF Marks, Content, BitsOf

(* A step of a decoder that keeps the buffer and puts out at most one byte.*)
LEMMA CodecInvKept ==
  ASSUME CodecInv, phase = "decode", UNCHANGED <<input, bytes, bf>>,
         bitPosition' \in Nat, bitPosition' <= 8 * Len(bf.buffer),
         phase' = "done" \/ (phase' = "decode" /\ n' = <<>>)
  PROVE  CodecTypes' /\ Encoding' /\ AtNode'
<1>1. /\ input' = input /\ bytes' = bytes /\ bf' = bf /\ Symbols' = Symbols
      /\ phase' \in {"decode", "done"} /\ CodecTypes
  BY Unmoved DEF CodecInv
<1>2. Len(bf.buffer) \in Nat
  BY Decoder
<1>3. CodecTypes'
  BY <1>1, <1>2 DEF CodecTypes
<1>4. Encoding'
  BY <1>1 DEF Encoding
<1>5. AtNode'
  <2>1. CASE phase' = "done"
    BY <2>1 DEF AtNode
  <2>2. CASE phase' = "decode" /\ n' = <<>>
    <3>1. n' \in Inner /\ Len(n') = 0 /\ Len(n') <= bitPosition'
      BY <2>2 DEF Inner
    <3>2. bytes' = Len(Symbols')
      BY <1>1, Decoder
    <3> QED
      BY <3>1, <3>2 DEF AtNode
  <2> QED
    BY <2>1, <2>2
<1> QED
  BY <1>3, <1>4, <1>5

(* What is put out is decoded.                                             *)
LEMMA PutOut ==
  ASSUME CodecInv, NEW b \in Byte, out' = Append(out, b), input' = input
  PROVE  Copied' /\ Decoded' = Append(Decoded, b)
<1>1. src' = src /\ Skipped' = Skipped
  BY DEF src, Skipped
<1>2. PICK s \in Nat : s = Skipped
  BY SymbolsAre DEF CodecInv, CodecTypes
<1>3. out \in Seq(Byte) /\ Len(out) >= s /\ \A i \in 1 .. s : out[i] = src[i]
  BY <1>2 DEF CodecInv, Copied
<1>4. PICK l \in Nat : l = Len(out)
  BY <1>3
<1> DEFINE t == Append(out, b)
<1>5. /\ t \in Seq(Byte) /\ Len(t) = l + 1
      /\ \A i \in 1 .. l : t[i] = out[i]
      /\ t[l + 1] = b
  BY <1>3, <1>4
<1> HIDE DEF t
<1>6. Copied'
  <2>1. /\ out' = t /\ Len(t) >= s
        /\ \A i \in 1 .. s : t[i] = src[i]
    BY <1>3, <1>4, <1>5 DEF t
  <2> QED
    BY <1>1, <1>2, <1>5, <2>1 DEF Copied
<1> DEFINE d == SubSeq(out, s + 1, l)
           e == SubSeq(t, s + 1, l + 1)
<1>7. d \in Seq(Byte) /\ Len(d) = l - s /\ \A i \in 1 .. l - s : d[i] = out[s + i]
  <2>1. \A i \in s + 1 .. l : out[i] \in Byte
    BY <1>3, <1>4
  <2>2. /\ SubSeq(out, s + 1, l) \in Seq(Byte)
        /\ Len(SubSeq(out, s + 1, l)) = IF s + 1 <= l THEN l - (s + 1) + 1 ELSE 0
        /\ \A i \in 1 .. l - (s + 1) + 1 : SubSeq(out, s + 1, l)[i] = out[s + 1 + i - 1]
    BY <2>1, SubSeqProperties
  <2> QED
    BY <1>3, <1>4, <2>2
<1>8. e \in Seq(Byte) /\ Len(e) = (l - s) + 1 /\ \A i \in 1 .. (l - s) + 1 : e[i] = t[s + i]
  <2>1. \A i \in s + 1 .. l + 1 : t[i] \in Byte
    BY <1>3, <1>4, <1>5
  <2>2. /\ SubSeq(t, s + 1, l + 1) \in Seq(Byte)
        /\ Len(SubSeq(t, s + 1, l + 1)) = IF s + 1 <= l + 1 THEN (l + 1) - (s + 1) + 1 ELSE 0
        /\ \A i \in 1 .. (l + 1) - (s + 1) + 1 : SubSeq(t, s + 1, l + 1)[i] = t[s + 1 + i - 1]
    BY <2>1, SubSeqProperties
  <2> QED
    BY <1>3, <1>4, <2>2
<1> HIDE DEF d, e
<1>9. Extends(e, d, b)
  <2>1. l - s \in Nat
    BY <1>3, <1>4
  <2>2. ASSUME NEW i \in 1 .. l - s PROVE e[i] = d[i]
    <3>1. i \in 1 .. (l - s) + 1 /\ s + i \in 1 .. l
      BY <2>1
    <3> QED
      BY <1>5, <1>7, <1>8, <3>1
  <2>3. e[(l - s) + 1] = b
    <3>1. (l - s) + 1 \in 1 .. (l - s) + 1 /\ s + ((l - s) + 1) = l + 1
      BY <2>1
    <3> QED
      BY <1>5, <1>8, <3>1
  <2> QED
    BY <1>7, <1>8, <2>2, <2>3 DEF Extends
<1>10. Append(d, b) = e
  BY <1>7, <1>8, <1>9, ExtendedIsAppended, Zenon
<1> QED
  BY <1>1, <1>2, <1>4, <1>5, <1>6, <1>10 DEF Decoded, d, e, t

(* The step to an inner node: HuffmanCode stands still.                    *)
LEMMA ToInnerNode ==
  ASSUME CodecInv, phase = "decode", HasBits(1, bitPosition),
         NEW node, node = Append(n, Peek(1, bitPosition)), node \in Inner,
         n' = node, bitPosition' = bitPosition + 1,
         UNCHANGED <<input, bytes, bf, out, phase>>
  PROVE  UNCHANGED HP!vars /\ CodecInv'
<1>1. /\ input' = input /\ bytes' = bytes /\ bf' = bf /\ out' = out /\ phase' = phase
  OBVIOUS
<1>2. /\ Symbols' = Symbols /\ src' = src /\ Skipped' = Skipped
      /\ Marks' = Marks /\ Content' = Content
  BY Unmoved
<1>3. PICK m \in Nat : m = Len(node)
  BY InnerNodes
<1>4. PICK p \in Nat : p = bitPosition
  BY Decoder
<1>5. PICK q \in Nat : q = Position
  BY Decoder
<1>6. p + 1 = q + m
  BY <1>3, <1>4, <1>5, NextNode
<1>7. q + m <= Len(Content) /\ \A i \in 1 .. m : Content[q + i] = node[i]
  BY <1>3, <1>5, NextNode DEF HP!StandsAt
<1>8. Position' = q
  <2>1. Position' = p + 1 - m
    BY <1>3, <1>4 DEF Position
  <2> QED
    BY <1>6, <2>1
<1>9. Decoded' = Decoded
  BY <1>1, <1>2 DEF Decoded
<1>10. UNCHANGED HP!vars
  BY <1>1, <1>2, <1>5, <1>8, <1>9 DEF HP!vars
<1>11. HP!CodeInv'
  <2>1. HP!CodeInv
    BY DEF CodecInv
  <2>2. /\ Symbols' = Symbols /\ Marks' = Marks /\ Content' = Content
        /\ Position' = Position /\ Decoded' = Decoded /\ phase' = phase
    BY <1>1, <1>2, <1>5, <1>8, <1>9
  <2> QED
    BY <2>1, <2>2 DEF HP!CodeInv, HP!TypeOK, HP!RoundTrip, HP!Written, HP!Filled,
                      HP!Aligned, HP!Start, HP!StandsAt
<1>12. Len(bf.buffer) \in Nat /\ Len(Content) = 8 * Len(bf.buffer)
  BY Decoder
<1>13. CodecTypes'
  <2>1. bitPosition' \in 0 .. Len(bf.buffer) * 8
    BY <1>4, <1>6, <1>7, <1>12
  <2> QED
    BY <1>1, <1>2, <2>1 DEF CodecInv, CodecTypes
<1>14. Encoding'
  BY <1>1 DEF Encoding
<1>15. AtNode'
  <2>1. bytes' = Len(Symbols')
    BY <1>1, <1>2, Decoder
  <2>2. n' \in Inner /\ Len(n') <= bitPosition'
    BY <1>3, <1>4, <1>5, <1>6
  <2>3. ASSUME NEW i \in 1 .. m PROVE BitAt(bf.buffer, p + 1 - m + i - 1) = node[i]
    <3>1. q + i \in 1 .. Len(Content) /\ (q + i) - 1 = p + 1 - m + i - 1
      BY <1>6, <1>7, <1>12
    <3>2. Content[q + i] = BitAt(bf.buffer, (q + i) - 1)
      BY <3>1, Decoder
    <3> QED
      BY <1>7, <3>1, <3>2
  <2>4. \A i \in 1 .. Len(n') : BitAt((bf').buffer, bitPosition' - Len(n') + i - 1) = (n')[i]
    BY <1>1, <1>3, <1>4, <2>3
  <2> QED
    BY <2>1, <2>2, <2>4 DEF AtNode
<1>16. Copied'
  BY <1>1, <1>2 DEF CodecInv, Copied
<1> QED
  BY <1>10, <1>11, <1>13, <1>14, <1>15, <1>16 DEF CodecInv

(* The step that puts out a byte whose codeword has been read.             *)
LEMMA ToByte ==
  ASSUME CodecInv, phase = "decode", UNCHANGED <<input, bytes, bf, phase>>,
         NEW b \in Byte, HP!StandsAt(HP!Code(b), Content, Position),
         bitPosition' = Position + Len(HP!Code(b)), n' = <<>>, out' = Append(out, b)
  PROVE  HP!Decode /\ CodecInv'
<1>1. input' = input /\ bytes' = bytes /\ bf' = bf /\ phase' = phase /\ HP!Byte = Byte
  BY DEF HP!Byte, Byte
<1>2. /\ Symbols' = Symbols /\ src' = src /\ Skipped' = Skipped
      /\ Marks' = Marks /\ Content' = Content
  BY Unmoved
<1>3. Copied' /\ Decoded' = Append(Decoded, b)
  BY <1>1, PutOut
<1>4. b \in HP!Fitting(Content, Position)
  BY <1>1 DEF HP!Fitting
<1>5. PICK l \in Nat : l = Len(HP!Code(b))
  <2>1. HP!Code(b) \in Seq({0, 1})
    BY <1>1, Sources, HP!CodeType
  <2> QED
    BY <2>1
<1>6. PICK q \in Nat : q = Position
  BY Decoder
<1>7. bitPosition' = q + l /\ q + l <= Len(Content)
  BY <1>5, <1>6 DEF HP!StandsAt
<1>8. Position' = q + l
  <2>1. Len(n') = 0
    OBVIOUS
  <2> QED
    BY <1>7, <2>1 DEF Position
<1>9. HP!Decode
  BY <1>1, <1>2, <1>3, <1>4, <1>5, <1>6, <1>8 DEF HP!Decode
<1>10. HP!CodeInv'
  BY <1>9, Sources, HP!CodeInvDecode DEF CodecInv
<1>11. CodecTypes' /\ Encoding' /\ AtNode'
  <2>1. bitPosition' \in Nat /\ bitPosition' <= 8 * Len(bf.buffer)
    BY <1>7, Decoder
  <2> QED
    BY <1>1, <2>1, CodecInvKept
<1> QED
  BY <1>3, <1>9, <1>10, <1>11 DEF CodecInv

(* The step that stops: no codeword is left.                               *)
LEMMA ToEnd ==
  ASSUME CodecInv, phase = "decode", phase' = "done", UNCHANGED <<input, bytes, bf, out>>,
         HP!Fitting(Content, Position) = {}, bitPosition' \in Nat,
         bitPosition' <= 8 * Len(bf.buffer), Position' = Position
  PROVE  HP!Stop /\ CodecInv'
<1>1. input' = input /\ bytes' = bytes /\ bf' = bf /\ out' = out
  OBVIOUS
<1>2. /\ Symbols' = Symbols /\ src' = src /\ Skipped' = Skipped
      /\ Marks' = Marks /\ Content' = Content
  BY Unmoved
<1>3. Decoded' = Decoded
  BY <1>1, <1>2 DEF Decoded
<1>4. HP!Stop
  BY <1>2, <1>3 DEF HP!Stop
<1>5. HP!CodeInv'
  BY <1>4, Sources, HP!CodeInvStop DEF CodecInv
<1>6. CodecTypes' /\ Encoding' /\ AtNode'
  BY <1>1, CodecInvKept
<1>7. Copied'
  BY <1>1, <1>2 DEF CodecInv, Copied
<1> QED
  BY <1>4, <1>5, <1>6, <1>7 DEF CodecInv

(* A tag that stands where a codeword fits is that of a byte that follows. *)
LEMMA TagOfByte ==
  ASSUME CodecInv, phase = "decode", HP!StandsAt(<<0, 1>>, Content, Position),
         NEW c \in HP!Fitting(Content, Position)
  PROVE  /\ c \in Byte /\ HP!StandsAt(HP!Code(c), Content, Position)
         /\ Len(HP!Code(c)) = 10 /\ Position + 10 <= Len(Content)
         /\ \A i \in 1 .. 8 : Content[Position + 2 + i] = HP!Bits8(c)[i]
<1>1. c \in Byte /\ c \in HP!Byte /\ HP!StandsAt(HP!Code(c), Content, Position)
  BY DEF HP!Fitting, HP!Byte, Byte
<1>2. PICK q \in Nat : q = Position
  BY Decoder
<1>3. Content[q + 1] = 0 /\ Content[q + 2] = 1
  BY <1>2 DEF HP!StandsAt
<1>4. c \notin HP!InTable
  BY <1>1, <1>2, <1>3, Sources, HP!Standing DEF HP!InTable
<1>5. Len(HP!Code(c)) = 10 /\ \A i \in 1 .. 8 : HP!Code(c)[2 + i] = HP!Bits8(c)[i]
  BY <1>1, <1>4, Sources, HP!TaggedCode
<1>6. q + 10 <= Len(Content) /\ \A i \in 1 .. 10 : Content[q + i] = HP!Code(c)[i]
  BY <1>1, <1>2, <1>5 DEF HP!StandsAt
<1>7. ASSUME NEW i \in 1 .. 8 PROVE Content[q + 2 + i] = HP!Bits8(c)[i]
  <2>1. 2 + i \in 1 .. 10 /\ q + (2 + i) = q + 2 + i
    OBVIOUS
  <2> QED
    BY <1>5, <1>6, <2>1
<1> QED
  BY <1>1, <1>2, <1>5, <1>6, <1>7

(* The byte popped behind a tag is the one encoded.                        *)
LEMMA TaggedByte ==
  ASSUME CodecInv, phase = "decode", HP!StandsAt(<<0, 1>>, Content, Position),
         HasBits(8, Position + 2)
  PROVE  /\ Peek(8, Position + 2) \in Byte
         /\ HP!StandsAt(HP!Code(Peek(8, Position + 2)), Content, Position)
         /\ Len(HP!Code(Peek(8, Position + 2))) = 10
<1>1. PICK q \in Nat : q = Position
  BY Decoder
<1>2. PICK b : b = Peek(8, q + 2)
  OBVIOUS
<1>3. bf.buffer \in Seq(Byte) /\ Len(Content) = 8 * Len(bf.buffer) /\ q + 2 \in Nat
  BY <1>1, Decoder
<1>4. /\ q + 2 + 8 <= Len(Content)
      /\ b \in Byte
      /\ \A j \in Places : Bit(b, j) = BitAt(bf.buffer, q + 2 + j - 1)
  <2>1. 8 \in {1, 8}
    OBVIOUS
  <2> QED
    BY <1>1, <1>2, <1>3, <2>1, ReaderBits
<1>5. PICK c \in Byte : c \in HP!Fitting(Content, Position)
  <2>1. PICK l \in Nat : l = Len(Content)
    BY Decoder
  <2>2. ~ (l - q \in 0 .. 7)
    BY <1>1, <1>4, <2>1
  <2> QED
    BY <1>1, <2>1, <2>2, NextSymbol
<1>6. /\ HP!StandsAt(HP!Code(c), Content, Position) /\ Len(HP!Code(c)) = 10
      /\ \A i \in 1 .. 8 : Content[q + 2 + i] = HP!Bits8(c)[i]
  BY <1>1, <1>5, TagOfByte
<1>7. ASSUME NEW i \in 1 .. 8 PROVE HP!Bits8(b)[i] = HP!Bits8(c)[i]
  <2>1. i \in Places
    BY DEF Places
  <2>2. q + 2 + i \in 1 .. Len(Content) /\ (q + 2 + i) - 1 = q + 2 + i - 1
    BY <1>3, <1>4
  <2>3. Content[q + 2 + i] = BitAt(bf.buffer, (q + 2 + i) - 1)
    BY <2>2, Decoder
  <2>4. Bit(b, i) = BitAt(bf.buffer, q + 2 + i - 1)
    BY <1>4, <2>1
  <2>5. Bit(b, i) = HP!Bits8(b)[i]
    BY <1>4, BitsOfByte
  <2> QED
    BY <1>6, <2>2, <2>3, <2>4, <2>5
<1>8. b = c
  <2>1. HP!Byte = Byte
    BY DEF HP!Byte, Byte
  <2> QED
    BY <1>4, <1>5, <1>7, <2>1, Sources, HP!Bits8Injective
<1> QED
  BY <1>1, <1>2, <1>4, <1>6, <1>8

LEMMA CodecInvDecode ==
  ASSUME CodecInv, DecodeBit
  PROVE  (HP!Next \/ UNCHANGED HP!vars) /\ CodecInv'
<1> DEFINE node == Append(n, Peek(1, bitPosition))
           next == bitPosition + 1
<1>1. /\ phase = "decode" /\ HasBits(1, bitPosition)
      /\ input' = input /\ bytes' = bytes /\ bf' = bf
  BY DEF DecodeBit
<1>2. \/ node \notin terminals /\ n' = node /\ bitPosition' = next /\ UNCHANGED <<out, phase>>
      \/ /\ node \in terminals /\ symbol[node] # 8
         /\ out' = Append(out, symbol[node])
         /\ n' = <<>> /\ bitPosition' = next /\ UNCHANGED phase
      \/ /\ node \in terminals /\ symbol[node] = 8 /\ HasBits(8, next)
         /\ out' = Append(out, Peek(8, next))
         /\ n' = <<>> /\ bitPosition' = next + 8 /\ UNCHANGED phase
      \/ /\ node \in terminals /\ symbol[node] = 8 /\ ~ HasBits(8, next)
         /\ n' = node /\ bitPosition' = next
         /\ phase' = "done" /\ UNCHANGED out
  BY DEF DecodeBit
<1>3. /\ node \in Inner \cup terminals
      /\ next = Position + Len(node)
      /\ HP!StandsAt(node, Content, Position)
  BY <1>1, NextNode
<1> HIDE DEF node
<1>4. CASE node \notin terminals /\ n' = node /\ bitPosition' = next /\ UNCHANGED <<out, phase>>
  <2>1. node \in Inner
    BY <1>3, <1>4
  <2> QED
    BY <1>1, <1>4, <2>1, ToInnerNode DEF node
<1>5. CASE /\ node \in terminals /\ symbol[node] # 8
           /\ out' = Append(out, symbol[node])
           /\ n' = <<>> /\ bitPosition' = next /\ UNCHANGED phase
  <2>1. symbol[node] \in Byte /\ HP!Code(symbol[node]) = node
    BY <1>5, Terminals
  <2>2. HP!Decode /\ CodecInv'
    BY <1>1, <1>3, <1>5, <2>1, ToByte
  <2> QED
    BY <2>2 DEF HP!Next
<1>6. CASE /\ node \in terminals /\ symbol[node] = 8 /\ HasBits(8, next)
           /\ out' = Append(out, Peek(8, next))
           /\ n' = <<>> /\ bitPosition' = next + 8 /\ UNCHANGED phase
  <2>1. node = <<0, 1>>
    BY <1>6, Terminals
  <2>2. next = Position + 2 /\ next + 8 = Position + 10
    <3>1. Len(node) = 2
      BY <2>1
    <3> QED
      BY <1>1, <1>3, <3>1, Decoder
  <2>3. /\ Peek(8, next) \in Byte
        /\ HP!StandsAt(HP!Code(Peek(8, next)), Content, Position)
        /\ Len(HP!Code(Peek(8, next))) = 10
    BY <1>1, <1>3, <1>6, <2>1, <2>2, TaggedByte
  <2> HIDE DEF next
  <2>4. HP!Decode /\ CodecInv'
    BY <1>1, <1>6, <2>2, <2>3, ToByte
  <2> QED
    BY <2>4 DEF HP!Next
<1>7. CASE /\ node \in terminals /\ symbol[node] = 8 /\ ~ HasBits(8, next)
           /\ n' = node /\ bitPosition' = next
           /\ phase' = "done" /\ UNCHANGED out
  <2>1. node = <<0, 1>>
    BY <1>7, Terminals
  <2>2. PICK q \in Nat : q = Position
    BY <1>1, Decoder
  <2>3. /\ next = q + 2 /\ q + 2 \in Nat
        /\ bf.buffer \in Seq(Byte) /\ Len(Content) = 8 * Len(bf.buffer)
    <3>1. Len(node) = 2
      BY <2>1
    <3> QED
      BY <1>1, <1>3, <2>2, <3>1, Decoder
  <2>4. q + 2 <= Len(Content)
    BY <1>3, <2>1, <2>2 DEF HP!StandsAt
  <2>5. ~ (q + 10 <= Len(Content))
    <3>1. 8 \in {1, 8} /\ (q + 2) + 8 = q + 10
      OBVIOUS
    <3>2. HasBits(8, q + 2) <=> (q + 2) + 8 <= 8 * Len(bf.buffer)
      BY <2>3, <3>1, ReaderBits
    <3> QED
      BY <1>7, <2>3, <3>1, <3>2
  <2>6. HP!Fitting(Content, Position) = {}
    <3>1. \A c \in HP!Fitting(Content, Position) : FALSE
      BY <1>1, <1>3, <2>1, <2>2, <2>5, TagOfByte
    <3> QED
      BY <3>1
  <2>7. Position' = Position
    <3>1. Len(n') = 2
      BY <1>7, <2>1
    <3> QED
      BY <1>7, <2>2, <2>3, <3>1 DEF Position
  <2>8. HP!Stop /\ CodecInv'
    BY <1>1, <1>7, <2>3, <2>4, <2>6, <2>7, ToEnd
  <2> QED
    BY <2>8 DEF HP!Next
<1> QED
  BY <1>2, <1>4, <1>5, <1>6, <1>7

LEMMA CodecInvEnd ==
  ASSUME CodecInv, endDecodeHuffman
  PROVE  HP!Stop /\ CodecInv'
<1>1. /\ phase = "decode" /\ ~ HasBits(1, bitPosition) /\ phase' = "done"
      /\ input' = input /\ bytes' = bytes /\ bf' = bf /\ bitPosition' = bitPosition
      /\ n' = n /\ out' = out
  BY DEF endDecodeHuffman
<1>2. PICK p \in Nat : p = bitPosition
  BY <1>1, Decoder
<1>3. PICK q \in Nat : q = Position
  BY <1>1, Decoder
<1>4. PICK m \in Nat : m = Len(n)
  BY <1>1, Decoder, InnerNodes
<1>5. PICK l \in Nat : l = Len(Content)
  BY <1>1, Decoder
<1>6. p = l /\ p = q + m
  <2>1. bf.buffer \in Seq(Byte) /\ l = 8 * Len(bf.buffer) /\ p <= l /\ p = q + m
    BY <1>1, <1>2, <1>3, <1>4, <1>5, Decoder
  <2>2. ~ (p + 1 <= l)
    <3>1. 1 \in {1, 8}
      OBVIOUS
    <3> QED
      BY <1>1, <1>2, <2>1, <3>1, ReaderBits
  <2> QED
    BY <2>1, <2>2
<1>7. ASSUME NEW c \in HP!Fitting(Content, Position) PROVE FALSE
  <2>1. c \in Byte /\ HP!StandsAt(HP!Code(c), Content, Position)
    BY DEF HP!Fitting, HP!Byte, Byte
  <2>2. HP!Code(c) \in Seq({0, 1})
    BY <2>1, Sources, HP!CodeType DEF HP!Byte, Byte
  <2>3. PICK k \in Nat : k = Len(HP!Code(c))
    BY <2>2
  <2>4. k <= m /\ \A i \in 1 .. k : Content[q + i] = HP!Code(c)[i]
    BY <1>3, <1>5, <1>6, <2>1, <2>3 DEF HP!StandsAt
  <2>5. \A i \in 1 .. k : n[i] = HP!Code(c)[i]
    BY <1>1, <1>3, <1>4, <2>4, Decoder
  <2> QED
    BY <1>1, <1>4, <2>1, <2>3, <2>4, <2>5, Decoder, InnerIsNoCode
<1>8. HP!Fitting(Content, Position) = {}
  BY <1>7
<1>9. Position' = Position /\ bitPosition' \in Nat /\ bitPosition' <= 8 * Len(bf.buffer)
  BY <1>1, <1>2, <1>5, <1>6, Decoder DEF Position
<1> QED
  BY <1>1, <1>8, <1>9, ToEnd

-----------------------------------------------------------------------------
(* What the encoders and decoders do, for every input.                     *)

(* Each step of util-compress.cpp keeps the invariant and is a step of     *)
(* HuffmanCode or none.                                                    *)
LEMMA CodecStep ==
  ASSUME CodecInv, [Next]_vars
  PROVE  [HP!Next]_(HP!vars) /\ CodecInv'
<1>1. CASE UNCHANGED vars
  <2>1. /\ input' = input /\ bytes' = bytes /\ bf' = bf /\ bitPosition' = bitPosition
        /\ n' = n /\ out' = out /\ phase' = phase
    BY <1>1 DEF vars
  <2>2. Symbols' = Symbols /\ src' = src /\ Skipped' = Skipped
    BY <2>1 DEF Symbols, src, Skipped
  <2>3. Ends' = Ends
    BY <2>2 DEF Ends
  <2>4. /\ Marks' = Marks /\ Content' = Content /\ Position' = Position /\ Decoded' = Decoded
    BY <2>1, <2>2, <2>3 DEF Marks, Content, BitsOf, Position, Decoded
  <2>5. UNCHANGED HP!vars
    BY <2>1, <2>2, <2>4 DEF HP!vars
  <2>6. HP!CodeInv'
    BY <2>1, <2>2, <2>4 DEF CodecInv, HP!CodeInv, HP!TypeOK, HP!RoundTrip, HP!Written,
                            HP!Filled, HP!Aligned, HP!Start, HP!StandsAt
  <2>7. CodecTypes' /\ Encoding' /\ AtNode' /\ Copied'
    BY <2>1, <2>2 DEF CodecInv, CodecTypes, Encoding, AtNode, Copied
  <2> QED
    BY <2>5, <2>6, <2>7 DEF CodecInv
<1>2. CASE encodeHuffman \/ encodeHuffmanStream
  <2>1. EncodeNext
    BY <1>2, EncodersEncode DEF CodecInv
  <2> QED
    BY <2>1, CodecInvEncode DEF HP!Next
<1>3. CASE endEncodeHuffman
  BY <1>3, CodecInvPad DEF HP!Next
<1>4. CASE DecodeBit
  BY <1>4, CodecInvDecode
<1>5. CASE endDecodeHuffman
  BY <1>5, CodecInvEnd DEF HP!Next
<1> QED
  BY <1>1, <1>2, <1>3, <1>4, <1>5 DEF Next, decodeHuffman, decodeHuffmanStream

(* Whatever is encoded and however, the buffer is well formed, holds the   *)
(* codewords of the symbols and nothing else, and the decoder is where its *)
(* node says it is.                                                        *)
THEOREM CodecInvCorrect == Spec => []CodecInv
<1>1. Init => CodecInv
  BY CodecInvInit
<1>2. CodecInv /\ [Next]_vars => CodecInv'
  BY CodecStep
<1> QED
  BY <1>1, <1>2, PTL DEF Spec

(* No push, by itself or in two parts, leaves a byte that is not one or    *)
(* more bytes than the bits need, and no pop goes beyond them.             *)
THEOREM CodecTypeCorrect == Spec => []CodecTypeOK
<1>1. CodecInv => CodecTypeOK
  BY DEF CodecInv, CodecTypes, Copied, CodecTypeOK, Byte
<1> QED
  BY <1>1, CodecInvCorrect, PTL

(* What is decoded from a buffer or from a stream is what was encoded.     *)
THEOREM CodecRoundTrip == Spec => []DecodedIsEncoded
<1>1. CodecInv => DecodedIsEncoded
  <2> SUFFICES ASSUME CodecInv, phase = "done"
               PROVE  out = SubSeq(src, 1, Skipped) \o Symbols
    BY DEF DecodedIsEncoded
  <2>1. /\ src \in Seq(Byte) /\ Skipped \in 0 .. Len(src) /\ Symbols \in Seq(Byte)
    BY SymbolsAre DEF CodecInv, CodecTypes
  <2>2. PICK s \in Nat : s = Skipped
    BY <2>1
  <2>3. out \in Seq(Byte) /\ Len(out) >= s /\ \A i \in 1 .. s : out[i] = src[i]
    BY <2>2 DEF CodecInv, Copied
  <2>4. PICK l \in Nat : l = Len(out)
    BY <2>3
  <2>5. Len(Decoded) = Len(Symbols) /\ \A i \in 1 .. Len(Symbols) : Decoded[i] = Symbols[i]
    BY DEF CodecInv, HP!CodeInv, HP!RoundTrip
  <2>6. Len(Decoded) = l - s /\ \A i \in 1 .. l - s : Decoded[i] = out[s + i]
    <3>1. \A i \in s + 1 .. l : out[i] \in Byte
      BY <2>3, <2>4
    <3>2. /\ Len(SubSeq(out, s + 1, l)) = IF s + 1 <= l THEN l - (s + 1) + 1 ELSE 0
          /\ \A i \in 1 .. l - (s + 1) + 1 : SubSeq(out, s + 1, l)[i] = out[s + 1 + i - 1]
      BY <3>1, SubSeqProperties
    <3>3. Decoded = SubSeq(out, s + 1, l)
      BY <2>2, <2>4 DEF Decoded
    <3> QED
      BY <2>3, <2>4, <3>2, <3>3
  <2> DEFINE t == SubSeq(src, 1, s)
  <2>7. t \in Seq(Byte) /\ Len(t) = s /\ \A i \in 1 .. s : t[i] = src[i]
    <3>1. \A i \in 1 .. s : src[i] \in Byte
      BY <2>1, <2>2
    <3> QED
      BY <3>1, SubSeqProperties
  <2> HIDE DEF t
  <2>8. Joins(out, t, Symbols)
    <3>1. Len(Symbols) = l - s /\ l = s + (l - s)
      BY <2>5, <2>6
    <3>2. \A i \in 1 .. l - s : out[s + i] = Symbols[i]
      BY <2>5, <2>6, <3>1
    <3> QED
      BY <2>3, <2>4, <2>7, <3>1, <3>2 DEF Joins
  <2>9. out = t \o Symbols
    BY <2>1, <2>3, <2>7, <2>8, JoinedBits, Zenon
  <2> QED
    BY <2>2, <2>9 DEF t
<1> QED
  BY <1>1, CodecInvCorrect, PTL

(* The buffers, masks, shifts, tables and the tree implement the code.     *)
THEOREM CodecImplementsCode == Spec => HuffmanSpec
<1>1. Init => Huffman!Init
  <2>1. HP!Init => Huffman!Init
    BY DEF HP!Init, Huffman!Init, Marks, Content, Position, Decoded
  <2> QED
    BY <2>1, CodecInvInit
<1>2. CodecInv /\ [Next]_vars => [Huffman!Next]_(Huffman!vars)
  <2>1. [HP!Next]_(HP!vars) => [Huffman!Next]_(Huffman!vars)
    BY DEF HP!Next, Huffman!Next, HP!vars, Huffman!vars, HP!Encode, Huffman!Encode,
           HP!Pad, Huffman!Pad, HP!Decode, Huffman!Decode, HP!Stop, Huffman!Stop,
           HP!Fitting, Huffman!Fitting, HP!StandsAt, Huffman!StandsAt,
           HP!Code, Huffman!Code, HP!Bits8, Huffman!Bits8, HP!Byte, Huffman!Byte,
           HP!Filler, Huffman!Filler, Marks, Content, Position, Decoded
  <2> QED
    BY <2>1, CodecStep
<1> QED
  BY <1>1, <1>2, CodecInvCorrect, PTL DEF Spec, HuffmanSpec, Huffman!Spec

=============================================================================
