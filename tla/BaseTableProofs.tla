-------------------------- MODULE BaseTableProofs --------------------------
(***************************************************************************)
(* For every traffic, every size of frames and whatever blanks a database  *)
(* pads a string with: the parser of a base measurement gives back what    *)
(* was saved.                                                              *)
(*                                                                         *)
(* The string of a row is a concatenation of concatenations.  Where the    *)
(* pieces stand in it is shown by induction over their number (the lemmas  *)
(* on FlattenSeq), so that the place of the parser in it can be named      *)
(* (TableInv).                                                             *)
(***************************************************************************)
EXTENDS BaseTable, LoraGatewayProofs

-----------------------------------------------------------------------------
(* What is written of a packet.                                            *)

Letters == {Space} \cup (Frames \X Nat)

HexOf(packet) == FlattenSeq([j \in DOMAIN packet |-> bin2hexString(packet[j])])

(* The hex string h spells the bytes b, without a blank.                   *)
Spells(h, b) ==
  /\ Len(h) = 2 * Len(b) /\ Len(b) >= 1
  /\ \A x \in 1 .. Len(b) :
       b[x] = <<h[2 * x - 1], h[2 * x]>> /\ Space \notin {h[2 * x - 1], h[2 * x]}

(* The bytes of a packet come back from its hex string in pairs.           *)
LEMMA PacketIsSpelled ==
  ASSUME NEW packet \in Seq(Frames), packet # <<>>
  PROVE  /\ HexOf(packet) \in Seq(Letters)
         /\ BytesOf([packet |-> packet]) \in Seq(Letters \X Letters)
         /\ Spells(HexOf(packet), BytesOf([packet |-> packet]))
<1> DEFINE hexes == [j \in DOMAIN packet |-> bin2hexString(packet[j])]
           bytes == [j \in DOMAIN packet |-> Bytes(packet[j])]
           k == Len(packet)
           h == FlattenSeq(hexes)
           b == FlattenSeq(bytes)
           T == {m \in Nat : m \in 0 .. k => EndOfPiece(hexes, m) = 2 * EndOfPiece(bytes, m)}
<1>1. k \in Nat /\ k # 0 /\ DOMAIN packet = 1 .. k /\ \A j \in 1 .. k : packet[j] \in Frames
  OBVIOUS
<1>2. FrameBytes \in Nat /\ FrameBytes >= 1 /\ 2 * FrameBytes \in Nat
  BY FrameBytesAssumption
<1>3. \A f \in Frames : \A i \in Nat : Digit(f, i) \in Letters /\ Digit(f, i) # Space
  BY DEF Digit, Space, Letters
<1>4. \A f \in Frames : /\ bin2hexString(f) \in Seq(Letters)
                        /\ Len(bin2hexString(f)) = 2 * FrameBytes
                        /\ \A i \in 1 .. 2 * FrameBytes : bin2hexString(f)[i] = Digit(f, i)
  <2> SUFFICES ASSUME NEW f \in Frames
               PROVE  /\ bin2hexString(f) \in Seq(Letters)
                      /\ Len(bin2hexString(f)) = 2 * FrameBytes
                      /\ \A i \in 1 .. 2 * FrameBytes : bin2hexString(f)[i] = Digit(f, i)
    OBVIOUS
  <2> DEFINE n == 2 * FrameBytes
  <2> HIDE DEF n
  <2>1. n \in Nat /\ bin2hexString(f) = [i \in 1 .. n |-> Digit(f, i)]
    BY <1>2 DEF n, bin2hexString
  <2>2. \A i \in 1 .. n : Digit(f, i) \in Letters
    BY <1>3, <2>1
  <2>3. bin2hexString(f) \in Seq(Letters) /\ Len(bin2hexString(f)) = n
    BY <2>1, <2>2, IsASeq, LenProperties
  <2> QED BY <2>1, <2>3 DEF n
<1>5. \A f \in Frames : /\ Bytes(f) \in Seq(Letters \X Letters)
                        /\ Len(Bytes(f)) = FrameBytes
                        /\ \A i \in 1 .. FrameBytes :
                             Bytes(f)[i] = <<Digit(f, 2 * i - 1), Digit(f, 2 * i)>>
  <2> SUFFICES ASSUME NEW f \in Frames
               PROVE  /\ Bytes(f) \in Seq(Letters \X Letters)
                      /\ Len(Bytes(f)) = FrameBytes
                      /\ \A i \in 1 .. FrameBytes :
                           Bytes(f)[i] = <<Digit(f, 2 * i - 1), Digit(f, 2 * i)>>
    OBVIOUS
  <2>1. \A i \in 1 .. FrameBytes : 2 * i - 1 \in Nat /\ 2 * i \in Nat
    BY <1>2
  <2>2. \A i \in 1 .. FrameBytes :
          <<Digit(f, 2 * i - 1), Digit(f, 2 * i)>> \in Letters \X Letters
    BY <1>3, <2>1
  <2>3. Bytes(f) \in Seq(Letters \X Letters) /\ Len(Bytes(f)) = FrameBytes
    BY <1>2, <2>2, IsASeq, LenProperties DEF Bytes
  <2> QED BY <2>3 DEF Bytes
<1>6. /\ hexes \in Seq(Seq(Letters)) /\ Len(hexes) = k /\ hexes # <<>>
      /\ \A i \in 1 .. k : hexes[i] = bin2hexString(packet[i])
  BY <1>1, <1>4, IsASeq, LenProperties
<1>7. /\ bytes \in Seq(Seq(Letters \X Letters)) /\ Len(bytes) = k /\ bytes # <<>>
      /\ \A i \in 1 .. k : bytes[i] = Bytes(packet[i])
  BY <1>1, <1>5, IsASeq, LenProperties
<1> HIDE DEF hexes, bytes, k
<1>8. /\ h \in Seq(Letters) /\ Len(h) = EndOfPiece(hexes, k) /\ EndOfPiece(hexes, 0) = 0
      /\ \A i \in 0 .. k : EndOfPiece(hexes, i) \in Nat
      /\ \A i \in 1 .. k :
           /\ EndOfPiece(hexes, i) = EndOfPiece(hexes, i - 1) + Len(hexes[i])
           /\ \A j \in 1 .. Len(hexes[i]) : /\ EndOfPiece(hexes, i - 1) + j <= Len(h)
                                            /\ h[EndOfPiece(hexes, i - 1) + j] = hexes[i][j]
  BY <1>6, FlattenProperties
<1>9. /\ b \in Seq(Letters \X Letters) /\ Len(b) = EndOfPiece(bytes, k) /\ EndOfPiece(bytes, 0) = 0
      /\ \A i \in 0 .. k : EndOfPiece(bytes, i) \in Nat
      /\ \A i \in 1 .. k :
           /\ EndOfPiece(bytes, i) = EndOfPiece(bytes, i - 1) + Len(bytes[i])
           /\ \A j \in 1 .. Len(bytes[i]) : /\ EndOfPiece(bytes, i - 1) + j <= Len(b)
                                            /\ b[EndOfPiece(bytes, i - 1) + j] = bytes[i][j]
  BY <1>7, FlattenProperties
<1>10. \A i \in 1 .. k : /\ EndOfPiece(hexes, i) = EndOfPiece(hexes, i - 1) + 2 * FrameBytes
                         /\ EndOfPiece(bytes, i) = EndOfPiece(bytes, i - 1) + FrameBytes
  BY <1>1, <1>4, <1>5, <1>6, <1>7, <1>8, <1>9
<1>11. \A m \in 0 .. k : EndOfPiece(hexes, m) = 2 * EndOfPiece(bytes, m)
  <2>1. 0 \in T
    BY <1>8, <1>9
  <2>2. ASSUME NEW m \in T
        PROVE  m + 1 \in T
    <3>1. m \in Nat /\ m + 1 \in Nat /\ (m + 1) - 1 = m
      OBVIOUS
    <3>2. SUFFICES ASSUME m + 1 \in 0 .. k
                   PROVE  EndOfPiece(hexes, m + 1) = 2 * EndOfPiece(bytes, m + 1)
      BY <3>1
    <3>3. m \in 0 .. k /\ m + 1 \in 1 .. k
      BY <1>1, <3>1, <3>2
    <3>4. EndOfPiece(hexes, m) = 2 * EndOfPiece(bytes, m) /\ EndOfPiece(bytes, m) \in Nat
      BY <1>9, <3>3
    <3>5. EndOfPiece(hexes, m + 1) = EndOfPiece(hexes, m) + 2 * FrameBytes
          /\ EndOfPiece(bytes, m + 1) = EndOfPiece(bytes, m) + FrameBytes
      BY <1>10, <3>1, <3>3
    <3> QED BY ONLY <1>2, <3>4, <3>5
  <2>3. T \in SUBSET Nat
    OBVIOUS
  <2> HIDE DEF T
  <2>4. T = Nat
    BY ONLY <2>1, <2>2, <2>3, SetInduction
  <2>5. \A m \in 0 .. k : m \in T
    BY <1>1, <2>4
  <2> QED BY <2>5 DEF T
<1>12. \A x \in 1 .. Len(b) : \E i \in 1 .. k : \E j \in 1 .. Len(bytes[i]) :
         x = EndOfPiece(bytes, i - 1) + j
  BY <1>7, FlattenCovers
<1>13. Len(h) = 2 * Len(b) /\ Len(b) >= 1
  <2>1. 1 \in 1 .. k /\ k \in 1 .. k /\ k \in 0 .. k /\ k - 1 \in 0 .. k
    BY <1>1
  <2>2. EndOfPiece(bytes, k) = EndOfPiece(bytes, k - 1) + FrameBytes /\ EndOfPiece(bytes, k - 1) \in Nat
    BY <1>9, <1>10, <2>1
  <2>3. EndOfPiece(hexes, k) = 2 * EndOfPiece(bytes, k)
    BY <1>11, <2>1
  <2> QED BY <1>2, <1>8, <1>9, <2>2, <2>3
<1>14. ASSUME NEW x \in 1 .. Len(b)
       PROVE  /\ b[x] = <<h[2 * x - 1], h[2 * x]>>
              /\ Space \notin {h[2 * x - 1], h[2 * x]}
  <2>1. PICK i \in 1 .. k : \E j \in 1 .. Len(bytes[i]) : x = EndOfPiece(bytes, i - 1) + j
    BY <1>12
  <2>2. PICK j \in 1 .. Len(bytes[i]) : x = EndOfPiece(bytes, i - 1) + j
    BY <2>1
  <2> DEFINE f == packet[i]
             o == EndOfPiece(bytes, i - 1)
  <2>3. f \in Frames /\ bytes[i] = Bytes(f) /\ hexes[i] = bin2hexString(f)
        /\ Len(bytes[i]) = FrameBytes /\ Len(hexes[i]) = 2 * FrameBytes
    BY <1>1, <1>4, <1>5, <1>6, <1>7
  <2>4. j \in 1 .. FrameBytes /\ j \in Nat
    BY <2>3
  <2>5. b[x] = <<Digit(f, 2 * j - 1), Digit(f, 2 * j)>>
    <3>1. b[x] = bytes[i][j]
      BY <1>9, <2>2
    <3>2. Bytes(f)[j] = <<Digit(f, 2 * j - 1), Digit(f, 2 * j)>>
      BY <1>5, <2>3, <2>4
    <3> QED BY ONLY <2>3, <3>1, <3>2
  <2>6. 2 * j - 1 \in 1 .. 2 * FrameBytes /\ 2 * j \in 1 .. 2 * FrameBytes
        /\ 2 * j - 1 \in Nat /\ 2 * j \in Nat
    BY <1>2, <2>4
  <2>7. i - 1 \in 0 .. k
    BY <1>1
  <2>8. EndOfPiece(hexes, i - 1) = 2 * o /\ o \in Nat
    BY <1>9, <1>11, <2>7
  <2> HIDE DEF o, f, h, b
  <2>9. \A y \in 1 .. 2 * FrameBytes : h[2 * o + y] = Digit(f, y)
    <3>1. \A y \in 1 .. Len(hexes[i]) : h[EndOfPiece(hexes, i - 1) + y] = hexes[i][y]
      BY <1>8
    <3>2. \A y \in 1 .. 2 * FrameBytes : bin2hexString(f)[y] = Digit(f, y)
      BY <1>4, <2>3
    <3> QED BY ONLY <2>3, <2>8, <3>1, <3>2
  <2>10. 2 * x - 1 = 2 * o + (2 * j - 1) /\ 2 * x = 2 * o + 2 * j
    BY <2>2, <2>4, <2>8 DEF o
  <2>11. h[2 * x - 1] = Digit(f, 2 * j - 1) /\ h[2 * x] = Digit(f, 2 * j)
    BY ONLY <2>6, <2>9, <2>10
  <2>12. Space \notin {Digit(f, 2 * j - 1), Digit(f, 2 * j)}
    BY <1>3, <2>3, <2>6
  <2> QED BY <2>5, <2>11, <2>12
<1>15. HexOf(packet) = h /\ BytesOf([packet |-> packet]) = b
  BY DEF HexOf, BytesOf, hexes, bytes
<1> QED BY <1>8, <1>9, <1>13, <1>14, <1>15 DEF Spells

(* What rawCommaString() concatenates.                                     *)
Part(items, i) == (IF i = 1 THEN <<>> ELSE <<Space>>) \o HexOf(items[i].packet)
Parts(items) == [i \in DOMAIN items |-> Part(items, i)]

(* Where the i-th packet ends in the string, and where its digits begin.   *)
EndOf(items, i) == EndOfPiece(Parts(items), i)
BeginOf(items, i) == EndOf(items, i - 1) + (IF i = 1 THEN 0 ELSE 1)

(* The string of a row: the packets' digits in their order, a blank in     *)
(* between.                                                                *)
LEMMA RawLayout ==
  ASSUME NEW items \in Seq(Items), items # <<>>
  PROVE  LET raw  == rawCommaString(items)
             k    == Len(items)
             b(i) == BytesOf(items[i])
         IN  /\ raw \in Seq(Letters) /\ Len(raw) = EndOf(items, k) /\ EndOf(items, 0) = 0
             /\ \A i \in 0 .. k : EndOf(items, i) \in Nat
             /\ \A i \in 1 .. k :
                  /\ Len(b(i)) \in Nat /\ Len(b(i)) >= 1 /\ b(i) \in Seq(Letters \X Letters)
                  /\ EndOf(items, i) = BeginOf(items, i) + 2 * Len(b(i))
                  /\ EndOf(items, i) <= Len(raw)
                  /\ i # 1 => raw[BeginOf(items, i)] = Space
                  /\ \A x \in 1 .. Len(b(i)) :
                       /\ b(i)[x] = <<raw[BeginOf(items, i) + 2 * x - 1],
                                      raw[BeginOf(items, i) + 2 * x]>>
                       /\ Space \notin {raw[BeginOf(items, i) + 2 * x - 1],
                                        raw[BeginOf(items, i) + 2 * x]}
<1> DEFINE raw == rawCommaString(items)
           k == Len(items)
           parts == Parts(items)
           b(i) == BytesOf(items[i])
           h(i) == HexOf(items[i].packet)
           gap(i) == IF i = 1 THEN 0 ELSE 1
<1>1. /\ k \in Nat /\ k # 0 /\ DOMAIN items = 1 .. k
      /\ \A i \in 1 .. k : items[i].packet \in Seq(Frames) /\ items[i].packet # <<>>
  <2>1. \A i \in 1 .. Len(items) : items[i] \in Items
    OBVIOUS
  <2> QED BY <2>1 DEF Items
<1>2. \A i \in 1 .. k : h(i) \in Seq(Letters) /\ b(i) \in Seq(Letters \X Letters)
                        /\ Spells(h(i), b(i))
  <2>1. \A i \in 1 .. k : b(i) = BytesOf([packet |-> items[i].packet])
    BY DEF BytesOf
  <2> QED BY <1>1, <2>1, PacketIsSpelled
<1>3. raw = FlattenSeq(parts)
  BY DEF rawCommaString, Parts, Part, HexOf
<1> HIDE DEF h, b
<1>4. \A i \in 1 .. k :
        /\ Part(items, i) \in Seq(Letters)
        /\ Len(Part(items, i)) = gap(i) + Len(h(i)) /\ Len(h(i)) \in Nat
        /\ i # 1 => Part(items, i)[1] = Space
        /\ \A y \in 1 .. Len(h(i)) : Part(items, i)[gap(i) + y] = h(i)[y]
  <2> SUFFICES ASSUME NEW i \in 1 .. k
               PROVE  /\ Part(items, i) \in Seq(Letters)
                      /\ Len(Part(items, i)) = gap(i) + Len(h(i)) /\ Len(h(i)) \in Nat
                      /\ i # 1 => Part(items, i)[1] = Space
                      /\ \A y \in 1 .. Len(h(i)) : Part(items, i)[gap(i) + y] = h(i)[y]
    OBVIOUS
  <2> DEFINE g == IF i = 1 THEN <<>> ELSE <<Space>>
             s == h(i)
  <2>1. g \in Seq(Letters) /\ Len(g) = gap(i) /\ (i # 1 => g[1] = Space)
    <3>1. Space \in Letters
      BY DEF Letters
    <3>2. CASE i = 1
      BY <3>2
    <3>3. CASE i # 1
      BY <3>1, <3>3
    <3> QED BY <3>2, <3>3
  <2>2. s \in Seq(Letters) /\ Len(s) \in Nat
    BY <1>2
  <2>3. Part(items, i) = g \o s
    BY DEF Part, h
  <2>4. gap(i) \in Nat /\ (i # 1 => gap(i) = 1)
    OBVIOUS
  <2> HIDE DEF g, s, gap
  <2>5. /\ g \o s \in Seq(Letters) /\ Len(g \o s) = Len(g) + Len(s)
        /\ \A y \in 1 .. Len(g) + Len(s) :
             (g \o s)[y] = IF y <= Len(g) THEN g[y] ELSE s[y - Len(g)]
    BY ONLY <2>1, <2>2, ConcatProperties
  <2>6. \A y \in 1 .. Len(s) : gap(i) + y \in 1 .. gap(i) + Len(s) /\ ~(gap(i) + y <= gap(i))
                               /\ (gap(i) + y) - gap(i) = y
    BY ONLY <2>2, <2>4
  <2>7. \A y \in 1 .. Len(s) : (g \o s)[gap(i) + y] = s[y]
    BY ONLY <2>1, <2>5, <2>6
  <2>8. i # 1 => 1 \in 1 .. gap(i) + Len(s) /\ 1 <= gap(i)
    BY ONLY <2>2, <2>4
  <2>9. i # 1 => (g \o s)[1] = Space
    BY ONLY <2>1, <2>5, <2>8
  <2> QED BY <2>1, <2>2, <2>3, <2>5, <2>7, <2>9 DEF s
<1>5. /\ parts \in Seq(Seq(Letters)) /\ Len(parts) = k /\ parts # <<>>
      /\ \A i \in 1 .. k : parts[i] = Part(items, i)
  <2>1. parts = [i \in 1 .. k |-> Part(items, i)]
    BY <1>1 DEF Parts
  <2>2. \A i \in 1 .. k : Part(items, i) \in Seq(Letters)
    BY <1>4
  <2> DEFINE Q == Seq(Letters)
  <2>3. \A i \in 1 .. k : Part(items, i) \in Q
    BY <2>2
  <2> HIDE DEF parts, k, Q
  <2>4. parts \in [1 .. k -> Q] /\ k \in Nat
    BY <1>1, <2>1, <2>3
  <2>5. parts \in Seq(Q) /\ Len(parts) = k
    BY ONLY <2>4, LenProperties
  <2>6. parts # <<>>
    BY <1>1, <2>5
  <2>7. \A i \in 1 .. k : parts[i] = Part(items, i)
    BY <2>1
  <2> QED BY <2>5, <2>6, <2>7 DEF Q
<1> HIDE DEF parts, k, raw
<1>6. /\ raw \in Seq(Letters) /\ Len(raw) = EndOf(items, k) /\ EndOf(items, 0) = 0
      /\ \A i \in 0 .. k : EndOf(items, i) \in Nat
      /\ \A i \in 1 .. k :
           /\ EndOf(items, i) = EndOf(items, i - 1) + Len(parts[i])
           /\ \A j \in 1 .. Len(parts[i]) : /\ EndOf(items, i - 1) + j <= Len(raw)
                                            /\ raw[EndOf(items, i - 1) + j] = parts[i][j]
  <2>1. /\ FlattenSeq(parts) \in Seq(Letters)
        /\ Len(FlattenSeq(parts)) = EndOfPiece(parts, Len(parts))
        /\ EndOfPiece(parts, 0) = 0
        /\ \A i \in 0 .. Len(parts) : EndOfPiece(parts, i) \in Nat
        /\ \A i \in 1 .. Len(parts) :
             /\ EndOfPiece(parts, i) = EndOfPiece(parts, i - 1) + Len(parts[i])
             /\ \A j \in 1 .. Len(parts[i]) :
                  /\ EndOfPiece(parts, i - 1) + j <= Len(FlattenSeq(parts))
                  /\ FlattenSeq(parts)[EndOfPiece(parts, i - 1) + j] = parts[i][j]
    BY <1>5, FlattenProperties
  <2>2. \A i : EndOf(items, i) = EndOfPiece(parts, i)
    BY DEF EndOf, parts
  <2> QED BY <1>3, <1>5, <2>1, <2>2
<1>7. ASSUME NEW i \in 1 .. k
      PROVE  /\ Len(b(i)) \in Nat /\ Len(b(i)) >= 1
             /\ EndOf(items, i) = BeginOf(items, i) + 2 * Len(b(i))
             /\ EndOf(items, i) <= Len(raw)
             /\ i # 1 => raw[BeginOf(items, i)] = Space
             /\ \A x \in 1 .. Len(b(i)) :
                  /\ b(i)[x] = <<raw[BeginOf(items, i) + 2 * x - 1],
                                 raw[BeginOf(items, i) + 2 * x]>>
                  /\ Space \notin {raw[BeginOf(items, i) + 2 * x - 1],
                                   raw[BeginOf(items, i) + 2 * x]}
  <2> DEFINE e == EndOf(items, i - 1)
             g == gap(i)
             l == Len(b(i))
             s == h(i)
  <2>1. e \in Nat /\ BeginOf(items, i) = e + g /\ g \in {0, 1} /\ (i # 1 => g = 1)
    BY <1>1, <1>6 DEF BeginOf
  <2>2. l \in Nat /\ l >= 1 /\ Len(s) = 2 * l
        /\ \A x \in 1 .. l : b(i)[x] = <<s[2 * x - 1], s[2 * x]>>
                             /\ Space \notin {s[2 * x - 1], s[2 * x]}
    <3>1. b(i) \in Seq(Letters \X Letters) /\ Spells(h(i), b(i))
      BY <1>2
    <3>2. Len(b(i)) \in Nat
      BY ONLY <3>1, LenProperties
    <3> QED BY <3>1, <3>2 DEF Spells
  <2>3. Len(parts[i]) = g + 2 * l
    BY <1>4, <1>5, <2>2
  <2>4. \A j \in 1 .. g + 2 * l : e + j <= Len(raw) /\ raw[e + j] = parts[i][j]
    BY <1>6, <2>3
  <2>5. \A y \in 1 .. 2 * l : parts[i][g + y] = s[y]
    BY <1>4, <1>5, <2>2
  <2>6. EndOf(items, i) = e + (g + 2 * l)
    BY <1>6, <2>3
  <2>7. i # 1 => parts[i][1] = Space
    BY <1>4, <1>5
  <2> HIDE DEF e, g, l, s
  <2>8. \A x \in 1 .. l : /\ g + (2 * x - 1) \in 1 .. g + 2 * l /\ g + 2 * x \in 1 .. g + 2 * l
                          /\ 2 * x - 1 \in 1 .. 2 * l /\ 2 * x \in 1 .. 2 * l
                          /\ (e + g) + 2 * x - 1 = e + (g + (2 * x - 1))
                          /\ (e + g) + 2 * x = e + (g + 2 * x)
    BY ONLY <2>1, <2>2
  <2>9. \A x \in 1 .. l : raw[(e + g) + 2 * x - 1] = s[2 * x - 1] /\ raw[(e + g) + 2 * x] = s[2 * x]
    BY ONLY <2>4, <2>5, <2>8
  <2>10. EndOf(items, i) = (e + g) + 2 * l
    BY ONLY <2>1, <2>2, <2>6
  <2>11. g + 2 * l \in 1 .. g + 2 * l /\ (i # 1 => 1 \in 1 .. g + 2 * l /\ e + g = e + 1)
    BY ONLY <2>1, <2>2
  <2>12. EndOf(items, i) <= Len(raw) /\ (i # 1 => raw[e + g] = Space)
    BY ONLY <2>4, <2>6, <2>7, <2>11
  <2> QED BY <2>1, <2>2, <2>9, <2>10, <2>12 DEF l
<1> QED BY <1>2, <1>6, <1>7 DEF raw, k, b

-----------------------------------------------------------------------------
(* The string a query returns.                                             *)

Blanks(n) == [x \in 1 .. n |-> Space]
Padded(items, n) == Blanks(n) \o rawCommaString(items) \o Blanks(n)

(* Where the digits of the i-th packet begin in it, and those of the last  *)
(* one end.                                                                *)
From(items, n, i) == n + BeginOf(items, i)
LastEnd(items, n) == n + EndOf(items, Len(items))

(* In such a string the i-th packet is followed by a blank and the next,   *)
(* and the last one by the padding.                                        *)
LEMMA PaddedLayout ==
  ASSUME NEW items \in Seq(Items), items # <<>>, NEW n \in Nat
  PROVE  LET v    == Padded(items, n)
             k    == Len(items)
             b(i) == BytesOf(items[i])
             from(i) == From(items, n, i)
             end  == LastEnd(items, n)
         IN  /\ Len(v) = end + n /\ end \in Nat /\ v # <<>> /\ from(1) = n /\ n < end
             /\ \A x \in 1 .. n : v[x] = Space /\ v[end + x] = Space
             /\ \A i \in 1 .. k :
                  /\ from(i) \in Nat /\ Len(b(i)) \in Nat /\ Len(b(i)) >= 1
                  /\ b(i) \in Seq(Letters \X Letters)
                  /\ from(i) + 2 * Len(b(i)) <= end
                  /\ i = k => from(i) + 2 * Len(b(i)) = end
                  /\ i # k => /\ v[from(i) + 2 * Len(b(i)) + 1] = Space
                              /\ from(i + 1) = from(i) + 2 * Len(b(i)) + 1
                              /\ from(i) + 2 * Len(b(i)) + 2 <= end
                  /\ \A x \in 1 .. Len(b(i)) :
                       /\ b(i)[x] = <<v[from(i) + 2 * x - 1], v[from(i) + 2 * x]>>
                       /\ Space \notin {v[from(i) + 2 * x - 1], v[from(i) + 2 * x]}
<1> DEFINE v == Padded(items, n)
           k == Len(items)
           b(i) == BytesOf(items[i])
           raw == rawCommaString(items)
           e(i) == EndOf(items, i)
           g(i) == BeginOf(items, i)
           t == Blanks(n)
<1>1. k \in Nat /\ k >= 1
  OBVIOUS
<1>2. /\ raw \in Seq(Letters) /\ Len(raw) = e(k) /\ e(0) = 0
      /\ \A i \in 0 .. k : e(i) \in Nat
      /\ \A i \in 1 .. k :
           /\ Len(b(i)) \in Nat /\ Len(b(i)) >= 1 /\ b(i) \in Seq(Letters \X Letters)
           /\ e(i) = g(i) + 2 * Len(b(i))
           /\ e(i) <= Len(raw)
           /\ i # 1 => raw[g(i)] = Space
           /\ \A x \in 1 .. Len(b(i)) :
                /\ b(i)[x] = <<raw[g(i) + 2 * x - 1], raw[g(i) + 2 * x]>>
                /\ Space \notin {raw[g(i) + 2 * x - 1], raw[g(i) + 2 * x]}
  BY RawLayout
<1>3. \A i \in 1 .. k : g(i) = e(i - 1) + (IF i = 1 THEN 0 ELSE 1)
  BY DEF BeginOf
<1>4. t \in Seq(Letters) /\ Len(t) = n /\ \A x \in 1 .. n : t[x] = Space
  <2>1. t \in [1 .. n -> Letters]
    BY DEF Blanks, Letters
  <2>2. \A x \in 1 .. n : t[x] = Space
    BY DEF Blanks
  <2> HIDE DEF t
  <2> QED BY <2>1, <2>2, LenProperties
<1>5. v = (t \o raw) \o t
  BY DEF Padded
<1> HIDE DEF b, raw, e, g, t, k, v
<1>6. e(k) \in Nat
  BY <1>1, <1>2
<1>7. /\ t \o raw \in Seq(Letters) /\ Len(t \o raw) = n + e(k)
      /\ \A x \in 1 .. n + e(k) : (t \o raw)[x] = IF x <= n THEN t[x] ELSE raw[x - n]
  <2>1. raw \in Seq(Letters) /\ Len(raw) = e(k) /\ t \in Seq(Letters) /\ Len(t) = n
    BY <1>2, <1>4
  <2>2. /\ t \o raw \in Seq(Letters) /\ Len(t \o raw) = Len(t) + Len(raw)
        /\ \A x \in 1 .. Len(t) + Len(raw) :
             (t \o raw)[x] = IF x <= Len(t) THEN t[x] ELSE raw[x - Len(t)]
    BY ONLY <2>1, ConcatProperties
  <2> QED BY ONLY <2>1, <2>2, Zenon
<1>8. /\ Len(v) = (n + e(k)) + n
      /\ \A x \in 1 .. (n + e(k)) + n :
           v[x] = IF x <= n + e(k) THEN (t \o raw)[x] ELSE t[x - (n + e(k))]
  <2> DEFINE s == t \o raw
  <2>1. s \in Seq(Letters) /\ Len(s) = n + e(k) /\ v = s \o t
    BY <1>5, <1>7
  <2> HIDE DEF s
  <2>2. /\ Len(v) = (n + e(k)) + n
        /\ \A x \in 1 .. (n + e(k)) + n :
             v[x] = IF x <= n + e(k) THEN s[x] ELSE t[x - (n + e(k))]
    BY ONLY <2>1, <1>4, ConcatProperties
  <2> QED BY <2>2 DEF s
<1>9. \A x \in 1 .. e(k) : v[n + x] = raw[x]
  <2> SUFFICES ASSUME NEW x \in 1 .. e(k)
               PROVE  v[n + x] = raw[x]
    OBVIOUS
  <2>1. n + x \in 1 .. (n + e(k)) + n /\ n + x <= n + e(k) /\ n + x \in 1 .. n + e(k)
        /\ ~(n + x <= n) /\ (n + x) - n = x
    BY <1>6
  <2> QED BY ONLY <1>7, <1>8, <2>1
<1>10. \A x \in 1 .. n : v[x] = Space /\ v[(n + e(k)) + x] = Space
  <2> SUFFICES ASSUME NEW x \in 1 .. n
               PROVE  v[x] = Space /\ v[(n + e(k)) + x] = Space
    OBVIOUS
  <2>1. x \in 1 .. (n + e(k)) + n /\ x <= n + e(k) /\ x \in 1 .. n + e(k) /\ x <= n
    BY <1>6
  <2>2. (n + e(k)) + x \in 1 .. (n + e(k)) + n /\ ~((n + e(k)) + x <= n + e(k))
        /\ ((n + e(k)) + x) - (n + e(k)) = x
    BY <1>6
  <2>3. v[x] = t[x] /\ v[(n + e(k)) + x] = t[x]
    BY ONLY <1>7, <1>8, <2>1, <2>2
  <2> QED BY <1>4, <2>3
<1>11. 1 \in 1 .. k /\ g(1) = 0 /\ e(k) >= 1
  <2>1. 1 \in 1 .. k
    BY <1>1
  <2>2. g(1) = 0
    BY <1>2, <1>3, <2>1
  <2> QED BY <1>2, <1>6, <2>1, <2>2
<1>12. ASSUME NEW i \in 1 .. k
       PROVE  /\ n + g(i) \in Nat
              /\ (n + g(i)) + 2 * Len(b(i)) <= n + e(k)
              /\ i = k => (n + g(i)) + 2 * Len(b(i)) = n + e(k)
              /\ i # k => /\ v[(n + g(i)) + 2 * Len(b(i)) + 1] = Space
                          /\ n + g(i + 1) = (n + g(i)) + 2 * Len(b(i)) + 1
                          /\ (n + g(i)) + 2 * Len(b(i)) + 2 <= n + e(k)
              /\ \A x \in 1 .. Len(b(i)) :
                   /\ b(i)[x] = <<v[(n + g(i)) + 2 * x - 1], v[(n + g(i)) + 2 * x]>>
                   /\ Space \notin {v[(n + g(i)) + 2 * x - 1], v[(n + g(i)) + 2 * x]}
  <2> DEFINE G == g(i)
             L == Len(b(i))
             E == e(k)
             B == b(i)
  <2>1. L \in Nat /\ L >= 1 /\ e(i) = G + 2 * L /\ e(i) <= E /\ E \in Nat
    BY <1>2, <1>6
  <2>2. G \in Nat
    <3>1. e(i - 1) \in Nat
      BY <1>1, <1>2
    <3> QED BY <1>3, <3>1
  <2>3. \A x \in 1 .. L : B[x] = <<raw[G + 2 * x - 1], raw[G + 2 * x]>>
                          /\ Space \notin {raw[G + 2 * x - 1], raw[G + 2 * x]}
    BY <1>2
  <2>4. i = k => e(i) = E
    OBVIOUS
  <2>5. ASSUME i # k
        PROVE  g(i + 1) = e(i) + 1 /\ e(i) + 2 <= E /\ raw[e(i) + 1] = Space
    <3>1. i + 1 \in 1 .. k /\ i + 1 # 1 /\ (i + 1) - 1 = i
      BY <1>1, <2>5
    <3>2. g(i + 1) = e(i) + 1 /\ raw[g(i + 1)] = Space
      BY <1>2, <1>3, <3>1
    <3>3. e(i + 1) = g(i + 1) + 2 * Len(b(i + 1)) /\ e(i + 1) <= E /\ Len(b(i + 1)) \in Nat
          /\ Len(b(i + 1)) >= 1
      BY <1>2, <3>1
    <3>4. e(i) \in Nat
      BY <2>1, <2>2
    <3> QED BY ONLY <3>2, <3>3, <3>4, <2>1
  <2>6. \A x \in 1 .. E : v[n + x] = raw[x]
    BY <1>9
  <2> HIDE DEF G, L, E, B
  <2>7. \A x \in 1 .. L : /\ G + 2 * x - 1 \in 1 .. E /\ G + 2 * x \in 1 .. E
                          /\ (n + G) + 2 * x - 1 = n + (G + 2 * x - 1)
                          /\ (n + G) + 2 * x = n + (G + 2 * x)
    BY <2>1, <2>2
  <2>8. \A x \in 1 .. L : v[(n + G) + 2 * x - 1] = raw[G + 2 * x - 1]
                          /\ v[(n + G) + 2 * x] = raw[G + 2 * x]
    BY ONLY <2>6, <2>7
  <2>9. \A x \in 1 .. L :
          /\ B[x] = <<v[(n + G) + 2 * x - 1], v[(n + G) + 2 * x]>>
          /\ Space \notin {v[(n + G) + 2 * x - 1], v[(n + G) + 2 * x]}
    BY ONLY <2>3, <2>8
  <2>10. /\ n + G \in Nat /\ (n + G) + 2 * L <= n + E /\ (i = k => (n + G) + 2 * L = n + E)
    BY <2>1, <2>2, <2>4
  <2>11. ASSUME i # k
         PROVE  /\ v[(n + G) + 2 * L + 1] = Space
                /\ n + g(i + 1) = (n + G) + 2 * L + 1
                /\ (n + G) + 2 * L + 2 <= n + E
    <3> DEFINE x == G + 2 * L + 1
    <3>1. x \in 1 .. E /\ raw[x] = Space /\ n + x = (n + G) + 2 * L + 1
      BY <2>1, <2>2, <2>5, <2>11
    <3> HIDE DEF x
    <3>2. v[n + x] = Space
      BY ONLY <2>6, <3>1
    <3>3. g(i + 1) = (G + 2 * L) + 1 /\ (G + 2 * L) + 2 <= E
      BY <2>1, <2>5, <2>11
    <3>4. n + g(i + 1) = (n + G) + 2 * L + 1 /\ (n + G) + 2 * L + 2 <= n + E
      BY <2>1, <2>2, <3>3
    <3> QED BY <3>1, <3>2, <3>4
  <2> QED BY <2>9, <2>10, <2>11 DEF G, L, E, B
<1>13. \A i : From(items, n, i) = n + g(i)
  BY DEF From, g
<1>14. LastEnd(items, n) = n + e(k)
  BY DEF LastEnd, e, k
<1>15. v # <<>> /\ n < n + e(k) /\ n + e(k) \in Nat /\ n + g(1) = n
  BY <1>6, <1>8, <1>11
<1>16. \A i \in 1 .. k : Len(b(i)) \in Nat /\ Len(b(i)) >= 1 /\ b(i) \in Seq(Letters \X Letters)
  BY <1>2
<1>17. ASSUME NEW i \in 1 .. k
       PROVE  /\ From(items, n, i) \in Nat
              /\ From(items, n, i) + 2 * Len(b(i)) <= LastEnd(items, n)
              /\ i = k => From(items, n, i) + 2 * Len(b(i)) = LastEnd(items, n)
              /\ i # k => /\ v[From(items, n, i) + 2 * Len(b(i)) + 1] = Space
                          /\ From(items, n, i + 1) = From(items, n, i) + 2 * Len(b(i)) + 1
                          /\ From(items, n, i) + 2 * Len(b(i)) + 2 <= LastEnd(items, n)
              /\ \A x \in 1 .. Len(b(i)) :
                   /\ b(i)[x] = <<v[From(items, n, i) + 2 * x - 1], v[From(items, n, i) + 2 * x]>>
                   /\ Space \notin {v[From(items, n, i) + 2 * x - 1], v[From(items, n, i) + 2 * x]}
  <2>1. From(items, n, i) = n + g(i) /\ From(items, n, i + 1) = n + g(i + 1)
    BY <1>13
  <2> QED BY <1>12, <1>14, <2>1, Zenon
<1>18. /\ Len(v) = LastEnd(items, n) + n /\ LastEnd(items, n) \in Nat /\ v # <<>>
       /\ From(items, n, 1) = n /\ n < LastEnd(items, n)
       /\ \A x \in 1 .. n : v[x] = Space /\ v[LastEnd(items, n) + x] = Space
  BY <1>8, <1>10, <1>13, <1>14, <1>15
<1> QED BY <1>16, <1>17, <1>18, Zenon DEF v, k, b

-----------------------------------------------------------------------------
(* The database and the parser keep the program as it is.                  *)

LEMMA TableStepIsGatewayStep == [TableNext]_tableVars => [GatewayNext]_gatewayVars
<1> SUFFICES ASSUME [TableNext]_tableVars
             PROVE  [GatewayNext]_gatewayVars
  OBVIOUS
<1>1. CASE Program
  BY <1>1 DEF Program
<1>2. ASSUME NEW addr \in DOMAIN Sends, Ask(addr)
      PROVE  UNCHANGED gatewayVars
  BY <1>2 DEF Ask
<1>3. CASE Parse
  BY <1>3 DEF Parse, ReadGap, ReadByte, EndOfValue
<1>4. CASE UNCHANGED tableVars
  BY <1>4 DEF tableVars
<1> QED BY <1>1, <1>2, <1>3, <1>4 DEF TableNext

(* The program with its database is the program of LoraGateway: whatever   *)
(* holds of the one, holds of the other, the database and the questions to *)
(* it change neither the entries nor what is in the air.                   *)
THEOREM TableImplementsGateway == TableSpec => GatewaySpec
<1>1. TableInit => GatewayInit
  BY DEF TableInit
<1> QED BY <1>1, TableStepIsGatewayStep, PTL DEF TableSpec, GatewaySpec

(* The rows, as INSERT clauses make them.                                  *)
BaseRows == {InsertedRow(kosa) : kosa \in {k \in LoggerKosaPackets : k.items # <<>>}}

LEMMA RowIsWritten ==
  ASSUME NEW row \in BaseRows
  PROVE  row.raw = rawCommaString(row.items) /\ row.items \in Seq(Items) /\ row.items # <<>>
<1>1. PICK kosa \in {k \in LoggerKosaPackets : k.items # <<>>} : row = InsertedRow(kosa)
  BY DEF BaseRows
<1>2. kosa.items \in Seq(Items) /\ kosa.items # <<>>
  BY DEF LoggerKosaPackets
<1>3. row.items = kosa.items /\ row.raw = rawCommaString(kosa.items)
  BY <1>1 DEF InsertedRow
<1> QED BY <1>2, <1>3

(* The loop of loggerSQLInsertPackets() writes an entry that is in memory. *)
LEMMA ProgramWrites ==
  ASSUME GatewayInv, table \in Seq(BaseRows), Program
  PROVE  \/ table' = table
         \/ \E row \in BaseRows : table' = Append(table, row)
<1> SUFFICES ASSUME loop = "insert", it' = it + 1, Ready(koses[it])
             PROVE  \E row \in BaseRows : table' = Append(table, row)
  BY DEF Program
<1>1. it \in Nat /\ it # 0 /\ koses \in Seq(LoggerKosaPackets)
  BY DEF GatewayInv, GatewayTypeOK, TypeOK
<1>2. it' # it
  BY <1>1
<1>3. it <= Len(koses)
  <2>1. GatewayNext
    BY DEF Program
  <2>2. CASE Radio
    <3>1. PICK a \in DOMAIN air :
            \/ Lose(a)
            \/ \E i \in DOMAIN air[a], n \in 1 .. MaxBatch :
                 Deliver(a, i, i + n - 1) \/ Repeat(a, i, i + n - 1)
      BY <2>2 DEF Radio
    <3>2. ~Lose(a)
      BY <1>2 DEF Lose, parseVars, vars
    <3>3. \A batch : ~loggerParsePackets(batch)
      BY DEF loggerParsePackets, Put, Idle
    <3> QED BY <3>1, <3>2, <3>3 DEF Deliver, Repeat, Receive
  <2>3. CASE Call
    <3>1. ~PutStep
      BY <1>2 DEF PutStep, PutFrame, AddItem, AddHeader
    <3> QED BY <1>1, <2>3, <3>1 DEF Call, CallStep, RmExpiredStep, RmExpired, EndLoop,
               insertPackets, removeCompletedOrExpired, EraseIf
  <2>4. CASE SaveReady \/ EndSave \/ RemoveReady \/ EndRemove \/ Finish \/ Clock
    BY <1>1, <1>2, <2>4 DEF SaveReady, EndSave, RemoveReady, EndRemove, Finish, Clock,
         beginInsertPackets, endInsertPackets, beginRemoveCompletedOrExpired,
         endRemoveCompletedOrExpired, flushLoggerParser, doneLoggerParser, BeginLoop, EndLoop,
         Idle, Tick
  <2> QED BY <2>1, <2>2, <2>3, <2>4 DEF GatewayNext
<1>4. it \in 1 .. Len(koses)
  BY <1>1, <1>3
<1>5. koses[it] \in LoggerKosaPackets /\ koses[it].items # <<>>
  BY <1>1, <1>4 DEF GatewayInv, ItemsAgree
<1>6. InsertedRow(koses[it]) \in BaseRows
  BY <1>5 DEF BaseRows
<1> QED BY <1>6 DEF Program

-----------------------------------------------------------------------------
(* Where the parser is in the string.                                      *)

AllBytes(items) == [i \in DOMAIN items |-> BytesOf(items[i])]

(* In the padding before the first packet.                                 *)
InLead(n) == pos < n /\ r = <<>> /\ packets = <<>>

(* At the x-th byte of the i-th packet, or the blank behind it.            *)
At(items, n, i, x) ==
  /\ pos = From(items, n, i) + 2 * x
  /\ r = SubSeq(BytesOf(items[i]), 1, x)
  /\ packets = SubSeq(AllBytes(items), 1, i - 1)

InPacket(items, n) ==
  \E i \in DOMAIN items : \E x \in 0 .. Len(BytesOf(items[i])) : At(items, n, i, x)

(* In the padding behind the last packet.                                  *)
InTrail(items, n) == LastEnd(items, n) < pos /\ r = <<>> /\ packets = AllBytes(items)

Progress(items) ==
  \E n \in Paddings :
    value = Padded(items, n) /\ (InLead(n) \/ InPacket(items, n) \/ InTrail(items, n))

(* The inductive invariant.                                                *)
TableInv ==
  /\ table \in Seq(BaseRows)
  /\ asked \in 0 .. Len(table)
  /\ pos \in Nat
  /\ Reading => asked # 0 /\ Progress(table[asked].items)
  /\ GivenBackIsSaved

(* What readHex() and the loader make of the packets.                      *)
LEMMA AllBytesType ==
  ASSUME NEW items \in Seq(Items), items # <<>>
  PROVE  /\ AllBytes(items) \in Seq(Seq(Letters \X Letters))
         /\ Len(AllBytes(items)) = Len(items)
         /\ \A i \in 1 .. Len(items) : AllBytes(items)[i] = BytesOf(items[i])
<1> DEFINE Q == Seq(Letters \X Letters)
           k == Len(items)
           a == AllBytes(items)
<1>1. k \in Nat /\ DOMAIN items = 1 .. k
  OBVIOUS
<1>2. \A i \in 1 .. k : BytesOf(items[i]) \in Q
  BY RawLayout
<1>3. a = [i \in 1 .. k |-> BytesOf(items[i])]
  BY <1>1 DEF AllBytes
<1> HIDE DEF Q, k, a
<1>4. a \in [1 .. k -> Q] /\ \A i \in 1 .. k : a[i] = BytesOf(items[i])
  BY <1>2, <1>3
<1>5. a \in Seq(Q) /\ Len(a) = k
  BY ONLY <1>1, <1>4, LenProperties
<1> QED BY <1>4, <1>5 DEF Q, k, a

Place(items, n) == InLead(n) \/ InPacket(items, n) \/ InTrail(items, n)

(* A step of the parser goes on to the next place of the string; behind    *)
(* its end it has every packet.                                            *)
LEMMA ParseGoesOn ==
  ASSUME NEW items \in Seq(Items), items # <<>>, NEW n \in Nat,
         value = Padded(items, n), pos \in Nat, Place(items, n), Parse
  PROVE  \/ value' = value /\ pos' \in Nat /\ Place(items, n)'
         \/ value' = <<>> /\ pos' = 0 /\ packets' = AllBytes(items)
<1> DEFINE k == Len(items)
           b(i) == BytesOf(items[i])
           from(i) == From(items, n, i)
           end == LastEnd(items, n)
           all == AllBytes(items)
           v == Padded(items, n)
<1>1. k \in Nat /\ k >= 1 /\ DOMAIN items = 1 .. k
  OBVIOUS
<1>2. /\ Len(v) = end + n /\ end \in Nat /\ v # <<>> /\ from(1) = n /\ n < end
      /\ \A x \in 1 .. n : v[x] = Space /\ v[end + x] = Space
      /\ \A i \in 1 .. k :
           /\ from(i) \in Nat /\ Len(b(i)) \in Nat /\ Len(b(i)) >= 1
           /\ b(i) \in Seq(Letters \X Letters)
           /\ from(i) + 2 * Len(b(i)) <= end
           /\ i = k => from(i) + 2 * Len(b(i)) = end
           /\ i # k => /\ v[from(i) + 2 * Len(b(i)) + 1] = Space
                       /\ from(i + 1) = from(i) + 2 * Len(b(i)) + 1
                       /\ from(i) + 2 * Len(b(i)) + 2 <= end
           /\ \A x \in 1 .. Len(b(i)) :
                /\ b(i)[x] = <<v[from(i) + 2 * x - 1], v[from(i) + 2 * x]>>
                /\ Space \notin {v[from(i) + 2 * x - 1], v[from(i) + 2 * x]}
  BY PaddedLayout
<1>3. /\ all \in Seq(Seq(Letters \X Letters)) /\ Len(all) = k
      /\ \A i \in 1 .. k : all[i] = b(i)
  BY AllBytesType
<1>4. \A i \in 1 .. k : 0 \in 0 .. Len(b(i)) /\ b(i) \in Seq(Letters \X Letters)
  <2> SUFFICES ASSUME NEW i \in 1 .. k
               PROVE  0 \in 0 .. Len(b(i)) /\ b(i) \in Seq(Letters \X Letters)
    OBVIOUS
  <2> DEFINE L == Len(b(i))
  <2>1. L \in Nat /\ b(i) \in Seq(Letters \X Letters)
    BY <1>2
  <2> HIDE DEF L
  <2>2. 0 \in 0 .. L
    BY <2>1
  <2> QED BY <2>1, <2>2 DEF L
<1>5. Place(items, n)' <=>
        \/ pos' < n /\ r' = <<>> /\ packets' = <<>>
        \/ \E i \in 1 .. k : \E x \in 0 .. Len(b(i)) :
             /\ pos' = from(i) + 2 * x
             /\ r' = SubSeq(b(i), 1, x)
             /\ packets' = SubSeq(all, 1, i - 1)
        \/ end < pos' /\ r' = <<>> /\ packets' = all
  BY <1>1 DEF Place, InLead, InPacket, At, InTrail
<1>6. /\ v # <<>>
      /\ \/ /\ pos + 1 < Len(v) /\ Space \in {v[pos + 1], v[pos + 2]}
            /\ pos' = IF v[pos + 1] = Space THEN pos + 1 ELSE pos + 2
            /\ packets' = IF r = <<>> THEN packets ELSE Append(packets, r)
            /\ r' = <<>> /\ value' = value
         \/ /\ pos + 1 < Len(v) /\ Space \notin {v[pos + 1], v[pos + 2]}
            /\ pos' = pos + 2 /\ r' = Append(r, <<v[pos + 1], v[pos + 2]>>)
            /\ packets' = packets /\ value' = value
         \/ /\ ~(pos + 1 < Len(v))
            /\ packets' = IF r = <<>> THEN packets ELSE Append(packets, r)
            /\ value' = <<>> /\ pos' = 0
  <2> HIDE DEF v
  <2>1. value = v
    BY DEF v
  <2> QED BY <1>2, <2>1 DEF Parse, ReadGap, ReadByte, EndOfValue, More, Reading, Push
<1>7. CASE InLead(n)
  <2>1. pos < n /\ r = <<>> /\ packets = <<>>
    BY <1>7 DEF InLead
  <2>2. pos + 1 \in 1 .. n /\ pos + 1 < Len(v)
    BY <1>2, <2>1
  <2>3. v[pos + 1] = Space
    BY <1>2, <2>2
  <2>4. pos' = pos + 1 /\ packets' = <<>> /\ r' = <<>> /\ value' = value
    BY <1>6, <2>1, <2>2, <2>3
  <2>5. CASE pos + 1 < n
    BY <1>5, <2>4, <2>5
  <2>6. CASE pos + 1 = n
    <3>1. 1 \in 1 .. k /\ 0 \in 0 .. Len(b(1)) /\ b(1) \in Seq(Letters \X Letters)
      BY <1>1, <1>4
    <3>2. pos' = from(1) + 2 * 0
      BY <1>2, <2>4, <2>6
    <3>3. r' = SubSeq(b(1), 1, 0) /\ packets' = SubSeq(all, 1, 1 - 1)
      BY <1>3, <2>4, <3>1, WholePrefix
    <3>4. Place(items, n)'
      BY <1>5, <3>1, <3>2, <3>3
    <3> QED BY <2>4, <3>4
  <2> QED BY <2>2, <2>5, <2>6
<1>8. CASE InPacket(items, n)
  <2>1. PICK i \in 1 .. k : \E x \in 0 .. Len(b(i)) : At(items, n, i, x)
    BY <1>1, <1>8 DEF InPacket
  <2>2. PICK x \in 0 .. Len(b(i)) : At(items, n, i, x)
    BY <2>1
  <2> DEFINE B == b(i)
             L == Len(B)
             F == from(i)
  <2>3. /\ pos = F + 2 * x /\ r = SubSeq(B, 1, x) /\ packets = SubSeq(all, 1, i - 1)
    BY <2>2 DEF At
  <2>4. /\ F \in Nat /\ L \in Nat /\ L >= 1 /\ B \in Seq(Letters \X Letters)
        /\ F + 2 * L <= end /\ (i = k => F + 2 * L = end) /\ x \in 0 .. L
        /\ i # k => /\ v[F + 2 * L + 1] = Space
                    /\ from(i + 1) = F + 2 * L + 1
                    /\ F + 2 * L + 2 <= end
        /\ \A y \in 1 .. L :
             /\ B[y] = <<v[F + 2 * y - 1], v[F + 2 * y]>>
             /\ Space \notin {v[F + 2 * y - 1], v[F + 2 * y]}
    BY <1>2, <2>2
  <2>5. all[i] = B
    BY <1>3
  <2>6. i \in Nat /\ i >= 1 /\ i <= k /\ i - 1 \in 0 .. k - 1
    BY <1>1
  <2>7. ASSUME B # <<>>, r = B
        PROVE  Append(packets, r) = SubSeq(all, 1, i)
    <3>1. i - 1 \in 0 .. Len(all) - 1 /\ (i - 1) + 1 = i
      BY <1>3, <2>6
    <3>2. SubSeq(all, 1, (i - 1) + 1) = Append(SubSeq(all, 1, i - 1), all[(i - 1) + 1])
      BY <1>3, <3>1, LongerPrefix
    <3> QED BY <2>3, <2>5, <2>7, <3>1, <3>2
  <2> HIDE DEF B, L, F, k, v, end, from, all, b
  <2>8. CASE x < L
    <3>1. /\ x + 1 \in 1 .. L /\ F + 2 * (x + 1) - 1 = pos + 1 /\ F + 2 * (x + 1) = pos + 2
          /\ pos + 2 <= F + 2 * L /\ x + 1 \in 0 .. L /\ x \in 0 .. L - 1
      BY <2>3, <2>4, <2>8
    <3>2. B[x + 1] = <<v[pos + 1], v[pos + 2]>> /\ Space \notin {v[pos + 1], v[pos + 2]}
      BY <2>4, <3>1, Zenon
    <3>3. pos + 1 < Len(v)
      BY <1>2, <2>4, <3>1
    <3>4. pos' = pos + 2 /\ r' = Append(r, B[x + 1]) /\ packets' = packets /\ value' = value
      BY <1>6, <3>2, <3>3
    <3>5. r' = SubSeq(B, 1, x + 1)
      <4>1. x \in 0 .. Len(B) - 1
        BY <3>1 DEF L
      <4>2. SubSeq(B, 1, x + 1) = Append(SubSeq(B, 1, x), B[x + 1])
        BY <2>4, <4>1, LongerPrefix
      <4> QED BY <2>3, <3>4, <4>2
    <3>6. pos' = from(i) + 2 * (x + 1)
      BY <3>1, <3>4 DEF F
    <3>7. Place(items, n)'
      <4>1. x + 1 \in 0 .. Len(b(i)) /\ r' = SubSeq(b(i), 1, x + 1)
            /\ packets' = SubSeq(all, 1, i - 1)
        BY <2>3, <3>1, <3>4, <3>5 DEF L, B
      <4> QED BY <1>5, <3>6, <4>1
    <3>8. pos' \in Nat
      BY <3>4
    <3> QED BY <3>4, <3>7, <3>8
  <2>9. CASE x = L
    <3>1. r = B /\ B # <<>> /\ pos = F + 2 * L
      BY <2>3, <2>4, <2>9, WholePrefix DEF L
    <3>2. Append(packets, r) = SubSeq(all, 1, i)
      BY <2>7, <3>1
    <3>3. CASE i # k
      <4>1. v[pos + 1] = Space /\ pos + 1 < Len(v) /\ from(i + 1) = pos + 1
        BY <1>2, <2>4, <3>1, <3>3
      <4>2. pos' = pos + 1 /\ packets' = SubSeq(all, 1, i) /\ r' = <<>> /\ value' = value
        BY <1>6, <3>1, <3>2, <4>1
      <4>3. i + 1 \in 1 .. k /\ (i + 1) - 1 = i
        BY <1>1, <2>6, <3>3
      <4>4. 0 \in 0 .. Len(b(i + 1)) /\ b(i + 1) \in Seq(Letters \X Letters)
        BY <1>4, <4>3
      <4>5. pos' = from(i + 1) + 2 * 0
        BY <4>1, <4>2
      <4>6. r' = SubSeq(b(i + 1), 1, 0)
        BY <4>2, <4>4, WholePrefix
      <4>7. packets' = SubSeq(all, 1, (i + 1) - 1)
        BY <4>2, <4>3
      <4>8. Place(items, n)'
        BY <1>5, <4>3, <4>4, <4>5, <4>6, <4>7
      <4> QED BY <4>2, <4>8
    <3>4. CASE i = k
      <4>1. SubSeq(all, 1, i) = all
        BY <1>3, <3>4, WholePrefix
      <4>2. pos = end
        BY <2>4, <3>1, <3>4
      <4>3. CASE pos + 1 < Len(v)
        <5>1. 1 \in 1 .. n
          BY <1>2, <4>2, <4>3
        <5>2. v[pos + 1] = Space
          BY <1>2, <4>2, <5>1
        <5>3. pos' = pos + 1 /\ packets' = all /\ r' = <<>> /\ value' = value
          BY <1>6, <3>1, <3>2, <4>1, <4>3, <5>2
        <5>4. end < pos' /\ pos' \in Nat
          BY <1>2, <4>2, <5>3
        <5> QED BY <1>5, <5>3, <5>4
      <4>4. CASE ~(pos + 1 < Len(v))
        BY <1>6, <3>1, <3>2, <4>1, <4>4 DEF all
      <4> QED BY <4>3, <4>4
    <3> QED BY <3>3, <3>4
  <2>10. x < L \/ x = L
    BY <2>4
  <2> QED BY <2>8, <2>9, <2>10
<1>9. CASE InTrail(items, n)
  <2>1. end < pos /\ r = <<>> /\ packets = all
    BY <1>9 DEF InTrail
  <2>2. CASE pos + 1 < Len(v)
    <3> DEFINE x == (pos + 1) - end
    <3>1. x \in 1 .. n /\ pos + 1 = end + x
      BY <1>2, <2>1, <2>2
    <3> HIDE DEF x
    <3>2. v[pos + 1] = Space
      BY <1>2, <3>1
    <3>3. pos' = pos + 1 /\ packets' = all /\ r' = <<>> /\ value' = value
      BY <1>6, <2>1, <2>2, <3>2
    <3>4. end < pos' /\ pos' \in Nat
      BY <1>2, <2>1, <3>3
    <3> QED BY <1>5, <3>3, <3>4
  <2>3. CASE ~(pos + 1 < Len(v))
    BY <1>6, <2>1, <2>3
  <2> QED BY <2>2, <2>3
<1> QED BY <1>7, <1>8, <1>9 DEF Place

-----------------------------------------------------------------------------
(* What is given back is what was saved.                                   *)

(* The query returns a row of the table.                                   *)
LEMMA SelectIsRow ==
  ASSUME NEW S, table \in Seq(S), NEW addr
  PROVE  Select(addr) \in 0 .. Len(table)
<1> DEFINE R == {0} \cup {i \in DOMAIN table :
                            table[i].loraaddr = addr /\ LikeBase(table[i])}
           l == Len(table)
           U == {l - i : i \in R}
<1>1. l \in Nat /\ R \subseteq 0 .. l /\ 0 \in R
  OBVIOUS
<1>2. Select(addr) = CHOOSE x \in R : \A y \in R : x >= y
  BY DEF Select, Max
<1> HIDE DEF R, l
<1>3. U \in SUBSET Nat /\ U # {}
  BY <1>1
<1>4. PICK i \in R : l - i = Min(U)
  BY <1>3, MinProperties
<1>5. \A y \in R : l - i <= l - y
  <2>1. \A u \in U : Min(U) <= u
    BY <1>3, MinProperties
  <2>2. \A y \in R : l - y \in U
    OBVIOUS
  <2> HIDE DEF U
  <2> QED BY <1>4, <2>1, <2>2
<1>6. \A y \in R : i >= y
  BY <1>1, <1>5
<1>7. Select(addr) \in R
  BY <1>2, <1>6
<1> QED BY <1>1, <1>7 DEF l

LEMMA TableInvInit == TableInit => TableInv
BY DEF TableInit, TableInv, Reading, GivenBackIsSaved

(* A question begins at the first character of a padded row.               *)
LEMMA AskBegins ==
  ASSUME TableInv, NEW addr \in DOMAIN Sends, Ask(addr)
  PROVE  TableInv'
<1>1. asked' \in 1 .. Len(table) /\ table' = table /\ pos' = 0 /\ r' = <<>> /\ packets' = <<>>
  <2>1. Select(addr) \in 0 .. Len(table)
    BY SelectIsRow DEF TableInv
  <2> QED BY <2>1 DEF Ask
<1>2. PICK items : items = table[asked'].items
  OBVIOUS
<1>3. table[asked'] \in BaseRows
  BY <1>1 DEF TableInv
<1>4. items \in Seq(Items) /\ items # <<>> /\ table[asked'].raw = rawCommaString(items)
  BY <1>2, <1>3, RowIsWritten
<1>5. PICK n \in Paddings : value' = Padded(items, n)
  BY <1>4 DEF Ask, Padded, Blanks
<1>6. n \in Nat
  BY PaddingsAssumption
<1>7. Padded(items, n) # <<>> /\ From(items, n, 1) = n /\ 1 \in DOMAIN items
      /\ Len(BytesOf(items[1])) \in Nat /\ BytesOf(items[1]) \in Seq(Letters \X Letters)
  <2>1. 1 \in 1 .. Len(items) /\ 1 \in DOMAIN items
    BY <1>4
  <2> QED BY <1>4, <1>6, <2>1, PaddedLayout
<1>8. InLead(n)' \/ InPacket(items, n)'
  <2>1. CASE n = 0
    <3>1. AllBytes(items) \in Seq(Seq(Letters \X Letters))
      BY <1>4, AllBytesType
    <3>2. SubSeq(BytesOf(items[1]), 1, 0) = <<>> /\ SubSeq(AllBytes(items), 1, 1 - 1) = <<>>
      BY <1>7, <3>1, WholePrefix
    <3>3. At(items, n, 1, 0)'
      BY <1>1, <1>7, <2>1, <3>2 DEF At
    <3> QED BY <1>7, <3>3 DEF InPacket
  <2>2. CASE n # 0
    BY <1>1, <1>6, <2>2 DEF InLead
  <2> QED BY <2>1, <2>2
<1>9. Progress(items)'
  BY <1>5, <1>8 DEF Progress
<1> QED BY <1>1, <1>2, <1>5, <1>7, <1>9 DEF TableInv, Reading, GivenBackIsSaved

LEMMA ProgramKeepsTable ==
  ASSUME GatewayInv, TableInv, Program
  PROVE  TableInv'
<1>1. /\ table \in Seq(BaseRows) /\ asked \in 0 .. Len(table) /\ pos \in Nat
      /\ value = <<>> /\ value' = value /\ asked' = asked /\ pos' = pos /\ packets' = packets
  BY DEF TableInv, Program, Reading, queryVars
<1>2. /\ table' \in Seq(BaseRows) /\ Len(table) <= Len(table')
      /\ \A i \in 1 .. Len(table) : table'[i] = table[i]
  <2>1. CASE table' = table
    BY <1>1, <2>1
  <2>2. ASSUME NEW row \in BaseRows, table' = Append(table, row)
        PROVE  /\ table' \in Seq(BaseRows) /\ Len(table) <= Len(table')
               /\ \A i \in 1 .. Len(table) : table'[i] = table[i]
    BY <1>1, <2>2, AppendProperties
  <2> QED BY <1>1, <2>1, <2>2, ProgramWrites
<1>3. asked' \in 0 .. Len(table') /\ (asked # 0 => table'[asked'] = table[asked])
  BY <1>1, <1>2
<1> QED BY <1>1, <1>2, <1>3 DEF TableInv, Reading, GivenBackIsSaved

LEMMA ParseKeepsTable ==
  ASSUME TableInv, Parse
  PROVE  TableInv'
<1>1. asked' = asked /\ table' = table /\ Reading
  BY DEF Parse, ReadGap, ReadByte, EndOfValue, More
<1>2. PICK items : items = table[asked].items
  OBVIOUS
<1>3. asked \in 1 .. Len(table) /\ pos \in Nat /\ Progress(items)
  BY <1>1, <1>2 DEF TableInv
<1>4. table[asked] \in BaseRows
  BY <1>3 DEF TableInv
<1>5. items \in Seq(Items) /\ items # <<>>
  BY <1>2, <1>4, RowIsWritten
<1>6. PICK n \in Paddings : value = Padded(items, n) /\ Place(items, n)
  BY <1>3 DEF Progress, Place
<1>7. n \in Nat
  BY PaddingsAssumption
<1>8. \/ value' = value /\ pos' \in Nat /\ Place(items, n)'
      \/ value' = <<>> /\ pos' = 0 /\ packets' = AllBytes(items)
  BY <1>3, <1>5, <1>6, <1>7, ParseGoesOn
<1>9. CASE value' = value /\ pos' \in Nat /\ Place(items, n)'
  <2>1. Progress(items)'
    BY <1>6, <1>9 DEF Progress, Place
  <2> QED BY <1>1, <1>2, <1>9, <2>1 DEF TableInv, Reading, GivenBackIsSaved
<1>10. CASE value' = <<>> /\ pos' = 0 /\ packets' = AllBytes(items)
  BY <1>1, <1>2, <1>10 DEF TableInv, Reading, GivenBackIsSaved, AllBytes
<1> QED BY <1>8, <1>9, <1>10

LEMMA TableInvStep ==
  ASSUME GatewayInv, TableInv, [TableNext]_tableVars
  PROVE  TableInv'
<1>1. CASE UNCHANGED tableVars
  BY <1>1 DEF tableVars, queryVars, TableInv, Reading, Progress, InLead, InPacket, At, InTrail,
       GivenBackIsSaved
<1> QED BY <1>1, ProgramKeepsTable, AskBegins, ParseKeepsTable DEF TableNext

(* What loggerParseSQLBaseMeasurement() returns of a row is what its entry *)
(* held when the row was written: the packets, each whole, in their order, *)
(* with however many blanks the database pads the string.                  *)
THEOREM GivenBackCorrect == TableSpec => []GivenBackIsSaved
<1>1. TableInit => GatewayInv /\ TableInv
  BY GatewayInvInit, TableInvInit DEF TableInit
<1>2. GatewayInv /\ TableInv /\ [TableNext]_tableVars => (GatewayInv /\ TableInv)'
  BY TableStepIsGatewayStep, GatewayInvStep, TableInvStep
<1>3. TableInv => GivenBackIsSaved
  BY DEF TableInv
<1> QED BY <1>1, <1>2, <1>3, PTL DEF TableSpec
=============================================================================
