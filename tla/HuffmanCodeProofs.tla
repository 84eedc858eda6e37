------------------------- MODULE HuffmanCodeProofs -------------------------
(***************************************************************************)
(* The decoder gives back what was encoded, for every sequence of bytes.   *)
(* The argument: the codewords are prefix-free, so where the codeword of   *)
(* the next byte stands no other one does; and the filler of at most seven *)
(* bits begins with the tag, which needs ten.                              *)
(***************************************************************************)
EXTENDS HuffmanCode, SequenceTheorems, TLAPS

InTable == {0, 1, 2, 3, 4, 252, 253, 254, 255}

-----------------------------------------------------------------------------
(* The codewords.                                                          *)

LEMMA Bits8Type == ASSUME NEW b \in Byte PROVE Bits8(b) \in Seq({0, 1}) /\ Len(Bits8(b)) = 8
BY DEF Bits8, Byte

LEMMA Bits8At ==
  ASSUME NEW b \in Byte
  PROVE  /\ Bits8(b)[1] = b \div 128 /\ Bits8(b)[2] = (b \div 64) % 2
         /\ Bits8(b)[3] = (b \div 32) % 2 /\ Bits8(b)[4] = (b \div 16) % 2
         /\ Bits8(b)[5] = (b \div 8) % 2 /\ Bits8(b)[6] = (b \div 4) % 2
         /\ Bits8(b)[7] = (b \div 2) % 2 /\ Bits8(b)[8] = b % 2
BY DEF Bits8

(* A byte is the sum of its bits.                                          *)
LEMMA Bits8Injective ==
  ASSUME NEW a \in Byte, NEW b \in Byte,
         \A i \in 1 .. 8 : Bits8(a)[i] = Bits8(b)[i]
  PROVE  a = b
<1>1. \A i \in {1, 2, 3, 4, 5, 6, 7, 8} : Bits8(a)[i] = Bits8(b)[i]
  OBVIOUS
<1>2. /\ a \div 128 = b \div 128 /\ (a \div 64) % 2 = (b \div 64) % 2
      /\ (a \div 32) % 2 = (b \div 32) % 2 /\ (a \div 16) % 2 = (b \div 16) % 2
      /\ (a \div 8) % 2 = (b \div 8) % 2 /\ (a \div 4) % 2 = (b \div 4) % 2
      /\ (a \div 2) % 2 = (b \div 2) % 2 /\ a % 2 = b % 2
  BY <1>1, Bits8At
<1>3. a \div 64 = b \div 64
  <2>1. a \div 128 = b \div 128 /\ (a \div 64) % 2 = (b \div 64) % 2
    BY <1>2
  <2> QED
    BY <2>1 DEF Byte
<1>4. a \div 32 = b \div 32
  <2>1. a \div 64 = b \div 64 /\ (a \div 32) % 2 = (b \div 32) % 2
    BY <1>2, <1>3
  <2> QED
    BY <2>1 DEF Byte
<1>5. a \div 16 = b \div 16
  <2>1. a \div 32 = b \div 32 /\ (a \div 16) % 2 = (b \div 16) % 2
    BY <1>2, <1>4
  <2> QED
    BY <2>1 DEF Byte
<1>6. a \div 8 = b \div 8
  <2>1. a \div 16 = b \div 16 /\ (a \div 8) % 2 = (b \div 8) % 2
    BY <1>2, <1>5
  <2> QED
    BY <2>1 DEF Byte
<1>7. a \div 4 = b \div 4
  <2>1. a \div 8 = b \div 8 /\ (a \div 4) % 2 = (b \div 4) % 2
    BY <1>2, <1>6
  <2> QED
    BY <2>1 DEF Byte
<1>8. a \div 2 = b \div 2
  <2>1. a \div 4 = b \div 4 /\ (a \div 2) % 2 = (b \div 2) % 2
    BY <1>2, <1>7
  <2> QED
    BY <2>1 DEF Byte
<1>9. a % 2 = b % 2
  BY <1>2
<1> QED
  BY <1>8, <1>9 DEF Byte

LEMMA TableCode ==
  /\ Code(0) = <<1>>
  /\ Code(1) = <<0, 0, 1, 0>>
  /\ Code(2) = <<0, 0, 0, 0, 1>>
  /\ Code(3) = <<0, 0, 0, 0, 0, 1>>
  /\ Code(4) = <<0, 0, 0, 0, 0, 0, 0>>
  /\ Code(252) = <<0, 0, 0, 0, 0, 0, 1>>
  /\ Code(253) = <<0, 0, 0, 1, 0>>
  /\ Code(254) = <<0, 0, 0, 1, 1>>
  /\ Code(255) = <<0, 0, 1, 1>>
<1>1. Code(0) = <<1>>
  BY DEF Code
<1>2. Code(1) = <<0, 0, 1, 0>>
  BY DEF Code
<1>3. Code(2) = <<0, 0, 0, 0, 1>>
  BY DEF Code
<1>4. Code(3) = <<0, 0, 0, 0, 0, 1>>
  BY DEF Code
<1>5. Code(4) = <<0, 0, 0, 0, 0, 0, 0>>
  BY DEF Code
<1>6. Code(252) = <<0, 0, 0, 0, 0, 0, 1>>
  BY DEF Code
<1>7. Code(253) = <<0, 0, 0, 1, 0>>
  BY DEF Code
<1>8. Code(254) = <<0, 0, 0, 1, 1>>
  BY DEF Code
<1>9. Code(255) = <<0, 0, 1, 1>>
  BY DEF Code
<1> QED
  BY <1>1, <1>2, <1>3, <1>4, <1>5, <1>6, <1>7, <1>8, <1>9

LEMMA Tagging ==
  ASSUME NEW S, NEW t \in Seq(S), NEW w \in Seq(S), Len(t) = 2, Len(w) = 8
  PROVE  /\ t \o w \in Seq(S) /\ Len(t \o w) = 10
         /\ (t \o w)[1] = t[1] /\ (t \o w)[2] = t[2]
         /\ \A i \in 1 .. 8 : (t \o w)[2 + i] = w[i]
<1>0. /\ t \o w \in Seq(S) /\ Len(t \o w) = Len(t) + Len(w)
      /\ \A i \in 1 .. Len(t) + Len(w) :
           (t \o w)[i] = IF i <= Len(t) THEN t[i] ELSE w[i - Len(t)]
  BY ConcatProperties, Zenon
<1>1. t \o w \in Seq(S) /\ Len(t \o w) = 10
  BY <1>0
<1>2. \A i \in 1 .. 10 : (t \o w)[i] = IF i <= 2 THEN t[i] ELSE w[i - 2]
  <2>1. Len(t) + Len(w) = 10
    OBVIOUS
  <2> QED
    BY <1>0, <2>1, Zenon
<1>3. (t \o w)[1] = t[1] /\ (t \o w)[2] = t[2]
  <2>1. 1 \in 1 .. 10 /\ 2 \in 1 .. 10 /\ 1 <= 2 /\ 2 <= 2
    OBVIOUS
  <2> QED
    BY <1>2, <2>1
<1>4. ASSUME NEW i \in 1 .. 8 PROVE (t \o w)[2 + i] = w[i]
  <2>1. 2 + i \in 1 .. 10 /\ ~(2 + i <= 2) /\ (2 + i) - 2 = i
    OBVIOUS
  <2> QED
    BY <1>2, <2>1
<1> QED
  BY <1>1, <1>3, <1>4

LEMMA TaggedCode ==
  ASSUME NEW b \in Byte, b \notin InTable
  PROVE  /\ Code(b) \in Seq({0, 1}) /\ Len(Code(b)) = 10
         /\ Code(b)[1] = 0 /\ Code(b)[2] = 1
         /\ \A i \in 1 .. 8 : Code(b)[2 + i] = Bits8(b)[i]
<1> DEFINE tag == <<0, 1>>
           word == Bits8(b)
<1>1. Code(b) = tag \o word
  BY DEF Code, InTable
<1>2. tag \in Seq({0, 1}) /\ Len(tag) = 2 /\ tag[1] = 0 /\ tag[2] = 1
  OBVIOUS
<1>3. word \in Seq({0, 1}) /\ Len(word) = 8
  BY Bits8Type
<1> HIDE DEF tag, word
<1>4. /\ tag \o word \in Seq({0, 1}) /\ Len(tag \o word) = 10
      /\ (tag \o word)[1] = tag[1] /\ (tag \o word)[2] = tag[2]
      /\ \A i \in 1 .. 8 : (tag \o word)[2 + i] = word[i]
  BY <1>2, <1>3, Tagging
<1> QED
  BY <1>1, <1>2, <1>4 DEF word

LEMMA CodeType ==
  ASSUME NEW b \in Byte
  PROVE  Code(b) \in Seq({0, 1}) /\ Len(Code(b)) \in 1 .. 10
<1>1. CASE b \notin InTable
  BY <1>1, TaggedCode
<1>2. CASE b = 0
  <2>1. Code(b) = <<1>>
    BY <1>2, TableCode
  <2> QED
    BY <2>1
<1>3. CASE b = 1
  <2>1. Code(b) = <<0, 0, 1, 0>>
    BY <1>3, TableCode
  <2> QED
    BY <2>1
<1>4. CASE b = 2
  <2>1. Code(b) = <<0, 0, 0, 0, 1>>
    BY <1>4, TableCode
  <2> QED
    BY <2>1
<1>5. CASE b = 3
  <2>1. Code(b) = <<0, 0, 0, 0, 0, 1>>
    BY <1>5, TableCode
  <2> QED
    BY <2>1
<1>6. CASE b = 4
  <2>1. Code(b) = <<0, 0, 0, 0, 0, 0, 0>>
    BY <1>6, TableCode
  <2> QED
    BY <2>1
<1>7. CASE b = 252
  <2>1. Code(b) = <<0, 0, 0, 0, 0, 0, 1>>
    BY <1>7, TableCode
  <2> QED
    BY <2>1
<1>8. CASE b = 253
  <2>1. Code(b) = <<0, 0, 0, 1, 0>>
    BY <1>8, TableCode
  <2> QED
    BY <2>1
<1>9. CASE b = 254
  <2>1. Code(b) = <<0, 0, 0, 1, 1>>
    BY <1>9, TableCode
  <2> QED
    BY <2>1
<1>10. CASE b = 255
  <2>1. Code(b) = <<0, 0, 1, 1>>
    BY <1>10, TableCode
  <2> QED
    BY <2>1
<1> QED
  BY <1>1, <1>2, <1>3, <1>4, <1>5, <1>6, <1>7, <1>8, <1>9, <1>10 DEF InTable

(* A codeword bit by bit.                                                  *)
LEMMA Standing1 ==
  ASSUME NEW x1,
         NEW s, NEW p \in Nat, StandsAt(<<x1>>, s, p)
  PROVE  s[p + 1] = x1
<1>1. \A i \in 1 .. 1 : s[p + i] = <<x1>>[i]
  BY DEF StandsAt
<1> QED
  BY <1>1

LEMMA Standing4 ==
  ASSUME NEW x1, NEW x2, NEW x3, NEW x4,
         NEW s, NEW p \in Nat, StandsAt(<<x1, x2, x3, x4>>, s, p)
  PROVE  s[p + 1] = x1 /\ s[p + 2] = x2 /\ s[p + 3] = x3 /\ s[p + 4] = x4
<1>1. \A i \in 1 .. 4 : s[p + i] = <<x1, x2, x3, x4>>[i]
  BY DEF StandsAt
<1> QED
  BY <1>1

LEMMA Standing5 ==
  ASSUME NEW x1, NEW x2, NEW x3, NEW x4, NEW x5,
         NEW s, NEW p \in Nat, StandsAt(<<x1, x2, x3, x4, x5>>, s, p)
  PROVE  s[p + 1] = x1 /\ s[p + 2] = x2 /\ s[p + 3] = x3 /\ s[p + 4] = x4 /\ s[p + 5] = x5
<1>1. \A i \in 1 .. 5 : s[p + i] = <<x1, x2, x3, x4, x5>>[i]
  BY DEF StandsAt
<1> QED
  BY <1>1

LEMMA Standing6 ==
  ASSUME NEW x1, NEW x2, NEW x3, NEW x4, NEW x5, NEW x6,
         NEW s, NEW p \in Nat, StandsAt(<<x1, x2, x3, x4, x5, x6>>, s, p)
  PROVE  s[p + 1] = x1 /\ s[p + 2] = x2 /\ s[p + 3] = x3 /\ s[p + 4] = x4 /\ s[p + 5] = x5 /\ s[p + 6] = x6
<1>1. \A i \in 1 .. 6 : s[p + i] = <<x1, x2, x3, x4, x5, x6>>[i]
  BY DEF StandsAt
<1> QED
  BY <1>1

LEMMA Standing7 ==
  ASSUME NEW x1, NEW x2, NEW x3, NEW x4, NEW x5, NEW x6, NEW x7,
         NEW s, NEW p \in Nat, StandsAt(<<x1, x2, x3, x4, x5, x6, x7>>, s, p)
  PROVE  s[p + 1] = x1 /\ s[p + 2] = x2 /\ s[p + 3] = x3 /\ s[p + 4] = x4 /\ s[p + 5] = x5 /\ s[p + 6] = x6 /\ s[p + 7] = x7
<1>1. \A i \in 1 .. 7 : s[p + i] = <<x1, x2, x3, x4, x5, x6, x7>>[i]
  BY DEF StandsAt
<1> QED
  BY <1>1

(* What the bits are where the codeword of b stands.                       *)
LEMMA Standing ==
  ASSUME NEW b \in Byte, NEW s, NEW p \in Nat, StandsAt(Code(b), s, p)
  PROVE  \/ b = 0 /\ s[p + 1] = 1
         \/ b = 1 /\ s[p + 1] = 0 /\ s[p + 2] = 0 /\ s[p + 3] = 1 /\ s[p + 4] = 0
         \/ b = 255 /\ s[p + 1] = 0 /\ s[p + 2] = 0 /\ s[p + 3] = 1 /\ s[p + 4] = 1
         \/ b = 253 /\ s[p + 1] = 0 /\ s[p + 2] = 0 /\ s[p + 3] = 0 /\ s[p + 4] = 1 /\ s[p + 5] = 0
         \/ b = 254 /\ s[p + 1] = 0 /\ s[p + 2] = 0 /\ s[p + 3] = 0 /\ s[p + 4] = 1 /\ s[p + 5] = 1
         \/ b = 2 /\ s[p + 1] = 0 /\ s[p + 2] = 0 /\ s[p + 3] = 0 /\ s[p + 4] = 0 /\ s[p + 5] = 1
         \/ b = 3 /\ s[p + 1] = 0 /\ s[p + 2] = 0 /\ s[p + 3] = 0 /\ s[p + 4] = 0
              /\ s[p + 5] = 0 /\ s[p + 6] = 1
         \/ b \in {4, 252} /\ s[p + 1] = 0 /\ s[p + 2] = 0 /\ s[p + 3] = 0 /\ s[p + 4] = 0
              /\ s[p + 5] = 0 /\ s[p + 6] = 0 /\ s[p + 7] = IF b = 4 THEN 0 ELSE 1
         \/ b \notin InTable /\ s[p + 1] = 0 /\ s[p + 2] = 1
              /\ \A i \in 1 .. 8 : s[p + 2 + i] = Bits8(b)[i]
<1>1. CASE b \notin InTable
  <2>1. \A i \in 1 .. 10 : s[p + i] = Code(b)[i]
    BY <1>1, TaggedCode DEF StandsAt
  <2>2. s[p + 1] = 0 /\ s[p + 2] = 1
    <3>1. 1 \in 1 .. 10 /\ 2 \in 1 .. 10
      OBVIOUS
    <3>2. s[p + 1] = Code(b)[1] /\ s[p + 2] = Code(b)[2]
      BY <2>1, <3>1
    <3> QED
      BY <1>1, <3>2, TaggedCode
  <2>3. ASSUME NEW i \in 1 .. 8 PROVE s[p + 2 + i] = Bits8(b)[i]
    <3>1. 2 + i \in 1 .. 10 /\ p + (2 + i) = p + 2 + i
      OBVIOUS
    <3>2. s[p + 2 + i] = Code(b)[2 + i]
      BY <2>1, <3>1
    <3> QED
      BY <1>1, <3>2, TaggedCode
  <2> QED
    BY <1>1, <2>2, <2>3
<1>2. CASE b = 0
  <2>1. StandsAt(<<1>>, s, p)
    BY <1>2, TableCode
  <2> QED
    BY <1>2, <2>1, Standing1
<1>3. CASE b = 1
  <2>1. StandsAt(<<0, 0, 1, 0>>, s, p)
    BY <1>3, TableCode
  <2> QED
    BY <1>3, <2>1, Standing4
<1>4. CASE b = 2
  <2>1. StandsAt(<<0, 0, 0, 0, 1>>, s, p)
    BY <1>4, TableCode
  <2> QED
    BY <1>4, <2>1, Standing5
<1>5. CASE b = 3
  <2>1. StandsAt(<<0, 0, 0, 0, 0, 1>>, s, p)
    BY <1>5, TableCode
  <2> QED
    BY <1>5, <2>1, Standing6
<1>6. CASE b = 4
  <2>1. StandsAt(<<0, 0, 0, 0, 0, 0, 0>>, s, p)
    BY <1>6, TableCode
  <2> QED
    BY <1>6, <2>1, Standing7
<1>7. CASE b = 252
  <2>1. StandsAt(<<0, 0, 0, 0, 0, 0, 1>>, s, p)
    BY <1>7, TableCode
  <2> QED
    BY <1>7, <2>1, Standing7
<1>8. CASE b = 253
  <2>1. StandsAt(<<0, 0, 0, 1, 0>>, s, p)
    BY <1>8, TableCode
  <2> QED
    BY <1>8, <2>1, Standing5
<1>9. CASE b = 254
  <2>1. StandsAt(<<0, 0, 0, 1, 1>>, s, p)
    BY <1>9, TableCode
  <2> QED
    BY <1>9, <2>1, Standing5
<1>10. CASE b = 255
  <2>1. StandsAt(<<0, 0, 1, 1>>, s, p)
    BY <1>10, TableCode
  <2> QED
    BY <1>10, <2>1, Standing4
<1> QED
  BY <1>1, <1>2, <1>3, <1>4, <1>5, <1>6, <1>7, <1>8, <1>9, <1>10 DEF InTable

(* No two codewords stand at the same bit.                                 *)
LEMMA PrefixFree ==
  ASSUME NEW a \in Byte, NEW b \in Byte, NEW s, NEW p \in Nat,
         StandsAt(Code(a), s, p), StandsAt(Code(b), s, p)
  PROVE  a = b
<1>1. CASE a \notin InTable /\ b \notin InTable
  <2>1. \A i \in 1 .. 8 : Bits8(a)[i] = Bits8(b)[i]
    BY <1>1, Standing DEF InTable
  <2> QED
    BY <2>1, Bits8Injective
<1>2. CASE a \in InTable \/ b \in InTable
  BY <1>2, Standing DEF InTable
<1> QED
  BY <1>1, <1>2

(* All codewords but that of 0 have two bits and more.                     *)
LEMMA LongerCode ==
  ASSUME NEW b \in Byte, b # 0
  PROVE  Len(Code(b)) >= 2
<1>1. CASE b \notin InTable
  BY <1>1, TaggedCode
<1>2. CASE b \in InTable
  <2>1. Len(Code(1)) >= 2
    BY TableCode
  <2>2. Len(Code(2)) >= 2
    BY TableCode
  <2>3. Len(Code(3)) >= 2
    BY TableCode
  <2>4. Len(Code(4)) >= 2
    BY TableCode
  <2>5. Len(Code(252)) >= 2
    BY TableCode
  <2>6. Len(Code(253)) >= 2
    BY TableCode
  <2>7. Len(Code(254)) >= 2
    BY TableCode
  <2>8. Len(Code(255)) >= 2
    BY TableCode
  <2> QED
    BY <1>2, <2>1, <2>2, <2>3, <2>4, <2>5, <2>6, <2>7, <2>8, Zenon DEF InTable
<1> QED
  BY <1>1, <1>2

(* No codeword fits into the filler.                                       *)
LEMMA FillerIsNoCode ==
  ASSUME NEW b \in Byte, NEW s, NEW p \in Nat, NEW k \in 0 .. 7, Len(s) = p + k,
         \A j \in 1 .. k : s[p + j] = Filler[j]
  PROVE  ~ StandsAt(Code(b), s, p)
<1> SUFFICES ASSUME StandsAt(Code(b), s, p) PROVE FALSE
  OBVIOUS
<1>0. PICK n \in 1 .. 10 : n = Len(Code(b))
  BY CodeType
<1>1. n = Len(Code(b)) /\ n <= k
  <2>1. p + n <= p + k
    BY <1>0 DEF StandsAt
  <2> QED
    BY <1>0, <2>1
<1>2. s[p + 1] = 0
  <2>1. 1 \in 1 .. k
    BY <1>1
  <2>2. Filler[1] = 0
    BY DEF Filler
  <2> QED
    BY <2>1, <2>2
<1>3. b # 0
  BY <1>2, Standing DEF InTable
<1>4. s[p + 2] = 1
  <2>1. 2 \in 1 .. k
    BY <1>1, <1>3, LongerCode
  <2>2. Filler[2] = 1
    BY DEF Filler
  <2> QED
    BY <2>1, <2>2
<1>5. b \notin InTable
  BY <1>2, <1>4, Standing DEF InTable
<1> QED
  BY <1>1, <1>5, TaggedCode

-----------------------------------------------------------------------------
(* Bits that are appended leave the codewords where they stand.            *)
LEMMA StandsExtended ==
  ASSUME NEW S, NEW s \in Seq(S), NEW e \in Seq(S), NEW w \in Seq(S), NEW p \in Nat,
         StandsAt(w, s, p)
  PROVE  StandsAt(w, s \o e, p)
<1>1. /\ Len(s \o e) = Len(s) + Len(e)
      /\ \A i \in 1 .. Len(s) + Len(e) :
           (s \o e)[i] = IF i <= Len(s) THEN s[i] ELSE e[i - Len(s)]
  BY ConcatProperties, Zenon
<1>2. ASSUME NEW i \in 1 .. Len(w) PROVE (s \o e)[p + i] = w[i]
  <2>1. p + i \in 1 .. Len(s) + Len(e) /\ p + i <= Len(s)
    BY DEF StandsAt
  <2> QED
    BY <1>1, <2>1 DEF StandsAt
<1> QED
  BY <1>1, <1>2 DEF StandsAt

LEMMA StandsAtEnd ==
  ASSUME NEW S, NEW s \in Seq(S), NEW w \in Seq(S)
  PROVE  StandsAt(w, s \o w, Len(s))
<1>1. /\ Len(s \o w) = Len(s) + Len(w)
      /\ \A i \in 1 .. Len(s) + Len(w) :
           (s \o w)[i] = IF i <= Len(s) THEN s[i] ELSE w[i - Len(s)]
  BY ConcatProperties, Zenon
<1>2. ASSUME NEW i \in 1 .. Len(w) PROVE (s \o w)[Len(s) + i] = w[i]
  <2>1. Len(s) + i \in 1 .. Len(s) + Len(w) /\ ~(Len(s) + i <= Len(s)) /\ Len(s) + i - Len(s) = i
    OBVIOUS
  <2> QED
    BY <1>1, <2>1
<1> QED
  BY <1>1, <1>2 DEF StandsAt

-----------------------------------------------------------------------------
(* The invariant.                                                          *)

LEMMA CodeInvInit == Init => CodeInv
<1> SUFFICES ASSUME Init PROVE CodeInv
  OBVIOUS
<1>1. src \in Seq(Byte)
  BY SourcesAssumption DEF Init, Byte
<1> QED
  BY <1>1 DEF Init, CodeInv, TypeOK, RoundTrip, Written, Filled, Aligned, Start

LEMMA CodeInvEncode == CodeInv /\ Encode => CodeInv'
<1> SUFFICES ASSUME CodeInv, Encode PROVE CodeInv'
  OBVIOUS
<1> DEFINE n == Len(marks)
           c == Code(src[n + 1])
<1>0. TypeOK /\ RoundTrip /\ Written /\ Filled /\ Aligned
  BY DEF CodeInv
<1>1. n \in Nat /\ n + 1 \in 1 .. Len(src) /\ src[n + 1] \in Byte
  BY <1>0 DEF TypeOK, Encode
<1>2. c \in Seq({0, 1}) /\ Len(c) \in 1 .. 10
  BY <1>1, CodeType
<1>3. bits \in Seq({0, 1}) /\ Len(bits) = Start(n + 1)
  BY <1>0 DEF TypeOK, Filled, Encode
<1> HIDE DEF c
<1>4. bits' = bits \o c /\ marks' = Append(marks, Len(bits'))
  BY DEF Encode, c
<1>5. bits' \in Seq({0, 1}) /\ Len(bits') = Len(bits) + Len(c)
  BY <1>2, <1>3, <1>4
<1>6. /\ marks' \in Seq(Nat) /\ Len(marks') = n + 1
      /\ \A i \in 1 .. n : marks'[i] = marks[i]
      /\ marks'[n + 1] = Len(bits')
  BY <1>0, <1>4, <1>5 DEF TypeOK
<1>7. src' = src /\ pos' = pos /\ out' = out /\ phase' = phase /\ phase = "encode"
  BY DEF Encode
<1>8. TypeOK'
  BY <1>0, <1>1, <1>5, <1>6, <1>7 DEF TypeOK
<1>9. RoundTrip'
  BY <1>0, <1>7 DEF RoundTrip
<1>10. \A i \in 1 .. n + 1 : Start(i)' = Start(i)
  BY <1>1, <1>6 DEF Start
<1>11. Written'
  <2> SUFFICES ASSUME NEW i \in 1 .. n + 1
               PROVE  /\ marks'[i] = Start(i) + Len(Code(src[i]))
                      /\ StandsAt(Code(src[i]), bits', Start(i))
    BY <1>6, <1>7, <1>10 DEF Written
  <2>1. CASE i = n + 1
    <3>1. StandsAt(c, bits \o c, Len(bits))
      BY <1>2, <1>3, StandsAtEnd
    <3> QED
      BY <2>1, <3>1, <1>3, <1>4, <1>5, <1>6 DEF c
  <2>2. CASE i \in 1 .. n
    <3>1. /\ marks[i] = Start(i) + Len(Code(src[i]))
          /\ StandsAt(Code(src[i]), bits, Start(i))
      BY <1>0, <2>2 DEF Written
    <3>2. Code(src[i]) \in Seq({0, 1})
      BY <1>0, <1>1, <2>2, CodeType DEF TypeOK
    <3>3. Start(i) \in Nat
      BY <1>0, <2>2 DEF Start, TypeOK
    <3>4. StandsAt(Code(src[i]), bits \o c, Start(i))
      BY <1>2, <1>3, <3>1, <3>2, <3>3, StandsExtended
    <3> QED
      BY <1>4, <1>6, <2>2, <3>1, <3>4
  <2> QED
    BY <1>1, <2>1, <2>2
<1>12. Filled'
  BY <1>1, <1>6, <1>7 DEF Filled, Start
<1>13. Aligned'
  BY <1>0, <1>7 DEF Aligned, Start
<1> QED
  BY <1>8, <1>9, <1>11, <1>12, <1>13 DEF CodeInv

LEMMA CodeInvPad == CodeInv /\ Pad => CodeInv'
<1> SUFFICES ASSUME CodeInv, Pad PROVE CodeInv'
  OBVIOUS
<1> DEFINE n == Len(marks)
<1>0. TypeOK /\ RoundTrip /\ Written /\ Filled /\ Aligned
  BY DEF CodeInv
<1>1. PICK k \in 0 .. 7 : bits' = bits \o SubSeq(Filler, 1, k)
  BY DEF Pad
<1> DEFINE e == SubSeq(Filler, 1, k)
<1>2. e \in Seq({0, 1}) /\ Len(e) = k /\ \A j \in 1 .. k : e[j] = Filler[j]
  <2>1. Filler \in Seq({0, 1}) /\ Len(Filler) = 7
    BY DEF Filler
  <2>2. \A i \in 1 .. 7 : Filler[i] \in {0, 1}
    BY DEF Filler
  <2>3. Len(e) = k /\ \A j \in 1 .. k : e[j] = Filler[j]
    BY <2>1
  <2> QED
    BY <2>2, <2>3
<1> HIDE DEF e
<1>3. /\ src' = src /\ marks' = marks /\ pos' = pos /\ out' = out
      /\ phase = "encode" /\ phase' = "decode" /\ n = Len(src)
  BY DEF Pad
<1>4. bits' = bits \o e
  BY <1>1 DEF e
<1>5. bits \in Seq({0, 1}) /\ Len(bits) = Start(n + 1) /\ n \in Nat
  BY <1>0, <1>3 DEF TypeOK, Filled
<1>6. /\ bits' \in Seq({0, 1}) /\ Len(bits') = Len(bits) + k
      /\ \A j \in 1 .. k : bits'[Len(bits) + j] = Filler[j]
  <2>1. StandsAt(e, bits \o e, Len(bits))
    BY <1>2, <1>5, StandsAtEnd
  <2> QED
    BY <1>2, <1>4, <1>5, <2>1 DEF StandsAt
<1>7. TypeOK'
  BY <1>0, <1>3, <1>6 DEF TypeOK
<1>8. RoundTrip'
  BY <1>0, <1>3 DEF RoundTrip
<1>9. \A i \in 1 .. n + 1 : Start(i)' = Start(i)
  BY <1>3 DEF Start
<1>10. Written'
  <2> SUFFICES ASSUME NEW i \in 1 .. n
               PROVE  StandsAt(Code(src[i]), bits', Start(i))
    BY <1>0, <1>3, <1>5, <1>9 DEF Written
  <2>1. StandsAt(Code(src[i]), bits, Start(i))
    BY <1>0 DEF Written
  <2>2. Code(src[i]) \in Seq({0, 1})
    BY <1>0, <1>3, CodeType DEF TypeOK
  <2>3. Start(i) \in Nat
    BY <1>0 DEF Start, TypeOK
  <2> QED
    BY <1>2, <1>4, <1>5, <2>1, <2>2, <2>3, StandsExtended
<1>11. Filled'
  <2>1. Start(n + 1)' = Len(bits)
    BY <1>3, <1>5 DEF Start
  <2>2. Len(bits') - Len(bits) = k
    BY <1>5, <1>6
  <2> QED
    BY <1>3, <1>6, <2>1, <2>2 DEF Filled
<1>12. Aligned'
  BY <1>0, <1>3 DEF Aligned, Start
<1> QED
  BY <1>7, <1>8, <1>10, <1>11, <1>12 DEF CodeInv

(* Where the decoder stands: at the next codeword or at the filler.        *)
LEMMA Standpoint ==
  ASSUME CodeInv, phase = "decode"
  PROVE  /\ Len(out) < Len(src) =>
              /\ src[Len(out) + 1] \in Fitting(bits, pos)
              /\ pos + Len(Code(src[Len(out) + 1])) = Start(Len(out) + 2)
         /\ Len(out) = Len(src) => Fitting(bits, pos) = {}
<1> DEFINE m == Len(out)
<1>0. TypeOK /\ RoundTrip /\ Written /\ Filled /\ Aligned
  BY DEF CodeInv
<1>1. m \in Nat /\ m <= Len(src) /\ pos = Start(m + 1) /\ Len(marks) = Len(src)
  BY <1>0 DEF TypeOK, RoundTrip, Filled, Aligned
<1>2. ASSUME m < Len(src)
      PROVE  /\ src[m + 1] \in Fitting(bits, pos)
             /\ pos + Len(Code(src[m + 1])) = Start(m + 2)
  <2>1. m + 1 \in 1 .. Len(marks) /\ src[m + 1] \in Byte
    BY <1>0, <1>1, <1>2 DEF TypeOK
  <2>2. marks[m + 1] = pos + Len(Code(src[m + 1])) /\ StandsAt(Code(src[m + 1]), bits, pos)
    BY <1>0, <1>1, <2>1 DEF Written
  <2>3. Start(m + 2) = marks[m + 1]
    BY <1>1 DEF Start
  <2> QED
    BY <2>1, <2>2, <2>3 DEF Fitting
<1>3. ASSUME m = Len(src) PROVE Fitting(bits, pos) = {}
  <2> SUFFICES ASSUME NEW b \in Byte PROVE ~ StandsAt(Code(b), bits, pos)
    BY DEF Fitting
  <2>1. pos = Start(Len(marks) + 1) /\ pos \in Nat
    BY <1>0, <1>1, <1>3 DEF TypeOK
  <2>2. PICK k \in 0 .. 7 : k = Len(bits) - pos
    BY <1>0, <2>1 DEF Filled
  <2>3. Len(bits) = pos + k /\ \A j \in 1 .. k : bits[pos + j] = Filler[j]
    BY <1>0, <2>1, <2>2 DEF Filled, TypeOK
  <2> QED
    BY <2>1, <2>3, FillerIsNoCode
<1> QED
  BY <1>2, <1>3

LEMMA CodeInvDecode == CodeInv /\ Decode => CodeInv'
<1> SUFFICES ASSUME CodeInv, Decode PROVE CodeInv'
  OBVIOUS
<1> DEFINE m == Len(out)
<1>0. TypeOK /\ RoundTrip /\ Written /\ Filled /\ Aligned
  BY DEF CodeInv
<1>1. PICK b \in Fitting(bits, pos) : pos' = pos + Len(Code(b)) /\ out' = Append(out, b)
  BY DEF Decode
<1>2. /\ src' = src /\ marks' = marks /\ bits' = bits /\ phase' = phase
      /\ phase = "decode"
  BY DEF Decode
<1>3. b \in Byte /\ StandsAt(Code(b), bits, pos) /\ pos \in Nat
  BY <1>0, <1>1 DEF Fitting, TypeOK
<1>4. m \in Nat /\ m <= Len(src)
  BY <1>0 DEF TypeOK, RoundTrip
<1>5. m < Len(src)
  BY <1>1, <1>2, <1>4, Standpoint
<1>6. src[m + 1] \in Byte /\ StandsAt(Code(src[m + 1]), bits, pos)
  BY <1>2, <1>5, Standpoint DEF Fitting
<1>7. b = src[m + 1]
  BY <1>3, <1>6, PrefixFree
<1>8. pos' = Start(m + 2)
  BY <1>1, <1>2, <1>5, <1>7, Standpoint
<1>9. /\ out' \in Seq(Byte) /\ Len(out') = m + 1
      /\ \A i \in 1 .. m : out'[i] = out[i]
      /\ out'[m + 1] = b
  BY <1>0, <1>1, <1>3 DEF TypeOK
<1>10. TypeOK'
  <2>1. pos' \in Nat
    BY <1>1, <1>3, CodeType
  <2> QED
    BY <1>0, <1>2, <1>9, <2>1 DEF TypeOK
<1>11. RoundTrip'
  BY <1>0, <1>2, <1>4, <1>5, <1>7, <1>9 DEF RoundTrip
<1>12. Written'
  BY <1>0, <1>2 DEF Written, Start
<1>13. Filled'
  BY <1>0, <1>2 DEF Filled, Start
<1>14. Aligned'
  BY <1>2, <1>4, <1>8, <1>9 DEF Aligned, Start
<1> QED
  BY <1>10, <1>11, <1>12, <1>13, <1>14 DEF CodeInv

LEMMA CodeInvStop == CodeInv /\ Stop => CodeInv'
<1> SUFFICES ASSUME CodeInv, Stop PROVE CodeInv'
  OBVIOUS
<1>0. TypeOK /\ RoundTrip /\ Written /\ Filled /\ Aligned
  BY DEF CodeInv
<1>1. /\ src' = src /\ marks' = marks /\ bits' = bits /\ pos' = pos /\ out' = out
      /\ phase = "decode" /\ phase' = "done"
  BY DEF Stop
<1>2. Len(out) = Len(src)
  <2>1. Len(out) \in Nat /\ Len(src) \in Nat /\ Len(out) <= Len(src)
    BY <1>0 DEF TypeOK, RoundTrip
  <2>2. ~ (Len(out) < Len(src))
    BY <1>1, Standpoint DEF Stop
  <2> QED
    BY <2>1, <2>2
<1>3. TypeOK' /\ RoundTrip'
  BY <1>0, <1>1, <1>2 DEF TypeOK, RoundTrip
<1>4. Written' /\ Filled' /\ Aligned'
  BY <1>0, <1>1 DEF Written, Filled, Aligned, Start
<1> QED
  BY <1>3, <1>4 DEF CodeInv

(* Nothing the codec does breaks the invariant.                            *)
THEOREM CodeInvCorrect == Spec => []CodeInv
<1>1. CodeInv /\ [Next]_vars => CodeInv'
  <2> SUFFICES ASSUME CodeInv, [Next]_vars PROVE CodeInv'
    OBVIOUS
  <2>1. CASE UNCHANGED vars
    BY <2>1 DEF vars, CodeInv, TypeOK, RoundTrip, Written, Filled, Aligned, Start
  <2> QED
    BY <2>1, CodeInvEncode, CodeInvPad, CodeInvDecode, CodeInvStop DEF Next
<1> QED
  BY <1>1, CodeInvInit, PTL DEF Spec

(* What is decoded is what was encoded, for every sequence of bytes: the   *)
(* junk bits of the last byte are never taken for a byte.                  *)
THEOREM DecodedIsWhatWasEncoded == Spec => []RoundTrip
<1>1. CodeInv => RoundTrip
  BY DEF CodeInv
<1> QED
  BY <1>1, CodeInvCorrect, PTL
=============================================================================
