-------------------------- MODULE LoggerItemProofs --------------------------
(***************************************************************************)
(* For every measurement of up to 28 sensors, plain, delta or Huffman, on  *)
(* either build: the frames fit, and whichever are missing, what is read   *)
(* of a sensor is what that sensor measured, and stands at its place in    *)
(* the row.  That is so in every order of arrival of temperatures and of   *)
(* differences of one byte; differences of two bytes are read rightly only *)
(* when the first frame is the first item (WidthIsKnown, in Readable).     *)
(*                                                                         *)
(* The invariants PlainInv, DeltaInv and HuffInv say the same of the three *)
(* builders: what has been built so far (Built) is a beginning of the      *)
(* frames a measurement is divided into (PlainFrames ...), where each      *)
(* counter stands (Phases), and that every item is one of the frames,      *)
(* received once (Arrived).  What get() reads follows from these: the      *)
(* place of a frame's values, computed from its number, is where the       *)
(* builder took them from.                                                 *)
(*                                                                         *)
(* Named hypotheses leave out what the code is known to do wrong:          *)
(* FirstIsFull, WidthSuffices (SentWide) and SentWhole.                    *)
(***************************************************************************)
EXTENDS KosaRow, SequenceLemmas, FiniteSetTheorems

-----------------------------------------------------------------------------
(* A temperature and its bytes.                                            *)

Temperatures == -2000 .. 2000

LEMMA ReversedPair ==
  ASSUME NEW a, NEW b
  PROVE  Reverse(<<a, b>>) = <<b, a>>
<1>1. Reverse(<<a, b>>) = [i \in 1 .. 2 |-> <<a, b>>[(2 - i) + 1]]
  BY DEF Reverse
<1>2. \A i \in 1 .. 2 : <<a, b>>[(2 - i) + 1] = <<b, a>>[i]
  OBVIOUS
<1> QED BY <1>1, <1>2

(* What a temperature is written as is read as that temperature, on both   *)
(* builds.                                                                 *)
LEMMA TemperatureComesBack ==
  ASSUME NEW v \in Temperatures
  PROVE  \E a, b \in Byte :
           /\ double_2_TEMPERATURE_2_BYTES(v) = <<a, b>>
           /\ TEMPERATURE_2_BYTES_2_double(<<a, b>>) = v
<1> DEFINE lo == v % 256
           hi == (v \div 256) % 256
<1>1. lo \in Byte /\ hi \in Byte /\ Int16(hi * 256 + lo) = v
  <2> DEFINE q == v \div 256
  <2>1. v \in Int /\ -2000 <= v /\ v <= 2000
    BY DEF Temperatures
  <2>2. lo \in 0 .. 255 /\ q \in -8 .. 7 /\ v = 256 * q + lo
    BY <2>1
  <2>3. hi = q % 256
    OBVIOUS
  <2> HIDE DEF lo, q, hi
  <2>4. hi \in 0 .. 255 /\ (hi = q \/ hi = q + 256)
    BY <2>2, <2>3
  <2> DEFINE w == hi * 256 + lo
  <2>5. w = v \/ w = v + 65536
    BY <2>2, <2>4
  <2> HIDE DEF w
  <2>6. (w + 32768) % 65536 = v + 32768
    BY ONLY <2>1, <2>5
  <2>7. Int16(w) = v
    BY <2>1, <2>6 DEF Int16
  <2> QED BY <2>2, <2>4, <2>7 DEF Byte, w
<1>2. LoHi(v) = <<lo, hi>>
  BY DEF LoHi
<1> HIDE DEF lo, hi
<1>3. Reverse(<<lo, hi>>) = <<hi, lo>> /\ Reverse(<<hi, lo>>) = <<lo, hi>>
  BY ReversedPair
<1>4. NTOH2(<<hi, lo>>) = hi * 256 + lo
  BY DEF NTOH2
<1>5. CASE HostSwaps
  <2>1. double_2_TEMPERATURE_2_BYTES(v) = <<hi, lo>>
    BY <1>2, <1>3, <1>5 DEF double_2_TEMPERATURE_2_BYTES, HTON2
  <2>2. TEMPERATURE_2_BYTES_2_double(<<hi, lo>>) = v
    BY <1>1, <1>4, <1>5 DEF TEMPERATURE_2_BYTES_2_double
  <2> QED BY <1>1, <2>1, <2>2
<1>6. CASE ~HostSwaps
  <2>1. double_2_TEMPERATURE_2_BYTES(v) = <<lo, hi>>
    BY <1>2, <1>6 DEF double_2_TEMPERATURE_2_BYTES
  <2>2. TEMPERATURE_2_BYTES_2_double(<<lo, hi>>) = v
    BY <1>1, <1>3, <1>4, <1>6 DEF TEMPERATURE_2_BYTES_2_double
  <2> QED BY <1>1, <2>1, <2>2
<1> QED BY <1>5, <1>6

-----------------------------------------------------------------------------
(* The data of a frame of temperatures.                                    *)

(* As many pieces of the same length, one behind the other.                *)
LEMMA FlattenFours ==
  ASSUME NEW S, NEW seqs \in Seq(Seq(S)), seqs # <<>>, \A i \in 1 .. Len(seqs) : Len(seqs[i]) = 4
  PROVE  /\ FlattenSeq(seqs) \in Seq(S)
         /\ Len(FlattenSeq(seqs)) = 4 * Len(seqs)
         /\ \A p \in 0 .. Len(seqs) - 1 : \A j \in 1 .. 4 :
              FlattenSeq(seqs)[4 * p + j] = seqs[p + 1][j]
<1> DEFINE k == Len(seqs)
           T == {m \in Nat : m \in 0 .. k => EndOfPiece(seqs, m) = 4 * m}
<1>1. k \in Nat
  OBVIOUS
<1>2. /\ FlattenSeq(seqs) \in Seq(S)
      /\ Len(FlattenSeq(seqs)) = EndOfPiece(seqs, k) /\ EndOfPiece(seqs, 0) = 0
      /\ \A i \in 1 .. k :
           /\ EndOfPiece(seqs, i) = EndOfPiece(seqs, i - 1) + 4
           /\ \A j \in 1 .. 4 : FlattenSeq(seqs)[EndOfPiece(seqs, i - 1) + j] = seqs[i][j]
  <2>1. /\ FlattenSeq(seqs) \in Seq(S)
        /\ Len(FlattenSeq(seqs)) = EndOfPiece(seqs, k) /\ EndOfPiece(seqs, 0) = 0
        /\ \A i \in 1 .. k :
             /\ EndOfPiece(seqs, i) = EndOfPiece(seqs, i - 1) + Len(seqs[i])
             /\ \A j \in 1 .. Len(seqs[i]) :
                  /\ EndOfPiece(seqs, i - 1) + j <= Len(FlattenSeq(seqs))
                  /\ FlattenSeq(seqs)[EndOfPiece(seqs, i - 1) + j] = seqs[i][j]
    BY FlattenProperties
  <2>2. \A i \in 1 .. k : Len(seqs[i]) = 4
    OBVIOUS
  <2> HIDE DEF k
  <2> QED BY ONLY <2>1, <2>2
<1> HIDE DEF k
<1>3. 0 \in T
  BY <1>2
<1>4. ASSUME NEW m \in T
      PROVE  m + 1 \in T
  <2>1. m \in Nat /\ m + 1 \in Nat /\ (m + 1) - 1 = m
    OBVIOUS
  <2>2. SUFFICES ASSUME m + 1 \in 0 .. k
                 PROVE  EndOfPiece(seqs, m + 1) = 4 * (m + 1)
    BY <2>1
  <2>3. m \in 0 .. k /\ m + 1 \in 1 .. k
    BY <1>1, <2>1, <2>2
  <2>4. EndOfPiece(seqs, m) = 4 * m /\ EndOfPiece(seqs, m + 1) = EndOfPiece(seqs, m) + 4
    BY <1>2, <2>1, <2>3
  <2> QED BY ONLY <2>1, <2>4
<1>5. T \in SUBSET Nat
  OBVIOUS
<1> HIDE DEF T
<1>6. T = Nat
  BY ONLY <1>3, <1>4, <1>5, SetInduction
<1>7. \A m \in 0 .. k : EndOfPiece(seqs, m) = 4 * m
  BY <1>1, <1>6 DEF T
<1>8. ASSUME NEW p \in 0 .. k - 1, NEW j \in 1 .. 4
      PROVE  FlattenSeq(seqs)[4 * p + j] = seqs[p + 1][j]
  <2>1. p + 1 \in 1 .. k /\ (p + 1) - 1 = p /\ p \in 0 .. k
    BY <1>1
  <2>2. FlattenSeq(seqs)[EndOfPiece(seqs, p) + j] = seqs[p + 1][j]
    BY <1>2, <2>1
  <2>3. EndOfPiece(seqs, p) = 4 * p
    BY <1>7, <2>1
  <2> QED BY ONLY <2>2, <2>3
<1>9. k \in 0 .. k
  BY <1>1
<1> QED BY <1>2, <1>7, <1>8, <1>9 DEF k

LEMMA FourBytes ==
  ASSUME NEW S, NEW w \in S, NEW x \in S, NEW y \in S, NEW z \in S
  PROVE  (<<w>> \o <<x, y>>) \o <<z>> = <<w, x, y, z>>
<1> DEFINE s == <<w>>
           t == <<x, y>>
           u == <<z>>
           st == s \o t
           all == <<w, x, y, z>>
<1>1. s \in Seq(S) /\ Len(s) = 1 /\ s[1] = w
  OBVIOUS
<1>2. t \in Seq(S) /\ Len(t) = 2 /\ t[1] = x /\ t[2] = y
  OBVIOUS
<1>3. u \in Seq(S) /\ Len(u) = 1 /\ u[1] = z
  OBVIOUS
<1>4. all \in Seq(S) /\ Len(all) = 4 /\ all[1] = w /\ all[2] = x /\ all[3] = y /\ all[4] = z
  OBVIOUS
<1> HIDE DEF s, t, u, all
<1>5. /\ st \in Seq(S) /\ Len(st) = 1 + 2
      /\ \A i \in 1 .. 1 + 2 : st[i] = IF i <= 1 THEN s[i] ELSE t[i - 1]
  <2>1. /\ s \o t \in Seq(S) /\ Len(s \o t) = Len(s) + Len(t)
        /\ \A i \in 1 .. Len(s) + Len(t) :
             (s \o t)[i] = IF i <= Len(s) THEN s[i] ELSE t[i - Len(s)]
    BY ONLY <1>1, <1>2, ConcatProperties
  <2> QED BY <1>1, <1>2, <2>1, Zenon
<1>6. st[1] = w /\ st[2] = x /\ st[3] = y
  BY <1>1, <1>2, <1>5
<1> HIDE DEF st
<1>7. /\ st \o u \in Seq(S) /\ Len(st \o u) = Len(st) + Len(u)
      /\ \A i \in 1 .. Len(st) + Len(u) :
           (st \o u)[i] = IF i <= Len(st) THEN st[i] ELSE u[i - Len(st)]
  BY ONLY <1>3, <1>5, ConcatProperties
<1>8. /\ Len(st \o u) = 4 /\ (st \o u)[1] = w /\ (st \o u)[2] = x /\ (st \o u)[3] = y
      /\ (st \o u)[4] = z
  BY <1>3, <1>5, <1>6, <1>7
<1>9. \A i \in 1 .. 4 : (st \o u)[i] = all[i]
  BY <1>4, <1>8
<1>10. st \o u = all
  BY <1>4, <1>7, <1>8, <1>9, SeqEqual
<1> QED BY <1>10 DEF s, t, u, st, all

(* The temperatures from a sensor on that a frame takes.                   *)
Taken(from) == Min({5, sensors - from})

(* The data of a frame: each temperature behind the number of its sensor.  *)
LEMMA PlainData ==
  ASSUME sensors \in 0 .. 28, temperature \in Seq(Temperatures),
         NEW from \in Nat, from < sensors
  PROVE  LET n == Taken(from)
             d == setMeasurementsData(from)
         IN  /\ n \in 1 .. 5 /\ from + n <= sensors
             /\ from + n = sensors \/ n = 5
             /\ d \in Seq(Byte) /\ Len(d) = 4 * n
             /\ \A p \in 0 .. n - 1 :
                  /\ d[4 * p + 1] = from + p
                  /\ <<d[4 * p + 2], d[4 * p + 3]>> =
                       double_2_TEMPERATURE_2_BYTES(temperature[from + p + 1])
<1> DEFINE n == Taken(from)
           t(x) == temperature[from + x]
           piece(x) == <<from + x - 1>> \o double_2_TEMPERATURE_2_BYTES(t(x)) \o <<0>>
           pieces == [x \in 1 .. n |-> piece(x)]
<1>1. n \in 1 .. 5 /\ from + n <= sensors /\ (from + n = sensors \/ n = 5)
  <2>1. {5, sensors - from} \in SUBSET Nat /\ {5, sensors - from} # {}
    OBVIOUS
  <2>2. n \in {5, sensors - from} /\ \A y \in {5, sensors - from} : n <= y
    BY <2>1, MinProperties DEF Taken
  <2> QED BY <2>2
<1>2. \A x \in 1 .. n : t(x) \in Temperatures /\ from + x - 1 \in Byte
  <2> SUFFICES ASSUME NEW x \in 1 .. n
               PROVE  t(x) \in Temperatures /\ from + x - 1 \in Byte
    OBVIOUS
  <2> HIDE DEF n
  <2>1. from + x \in 1 .. sensors /\ from + x - 1 \in 0 .. 255
    BY <1>1
  <2>2. temperature[from + x] \in Temperatures
    BY <2>1 DEF sensors
  <2>3. from + x - 1 \in Byte
    BY <2>1 DEF Byte
  <2> QED BY <2>2, <2>3
<1>3. setMeasurementsData(from) = FlattenSeq(pieces)
  BY DEF setMeasurementsData, Taken
<1> HIDE DEF n, t
<1>4. ASSUME NEW x \in 1 .. n
      PROVE  /\ piece(x) \in Seq(Byte) /\ Len(piece(x)) = 4
             /\ piece(x)[1] = from + x - 1
             /\ <<piece(x)[2], piece(x)[3]>> = double_2_TEMPERATURE_2_BYTES(t(x))
  <2>1. PICK a, b \in Byte : double_2_TEMPERATURE_2_BYTES(t(x)) = <<a, b>>
    BY <1>2, TemperatureComesBack
  <2> DEFINE s == from + x - 1
  <2>2. s \in Byte
    BY <1>2
  <2>3. 0 \in Byte
    BY DEF Byte
  <2> HIDE DEF s
  <2>4. (<<s>> \o <<a, b>>) \o <<0>> = <<s, a, b, 0>>
    BY <2>2, <2>3, FourBytes
  <2>5. piece(x) = <<s, a, b, 0>>
    BY <2>1, <2>4 DEF s
  <2>6. <<s, a, b, 0>> \in Seq(Byte)
    BY <2>2, <2>3
  <2> QED BY <2>1, <2>5, <2>6 DEF s
<1>5. /\ pieces \in Seq(Seq(Byte)) /\ Len(pieces) = n /\ pieces # <<>>
      /\ \A x \in 1 .. n : pieces[x] = piece(x)
  <2> DEFINE Q == Seq(Byte)
  <2>1. \A x \in 1 .. n : piece(x) \in Q
    BY <1>4
  <2> HIDE DEF Q, piece
  <2>2. pieces \in [1 .. n -> Q] /\ n \in Nat
    BY <1>1, <2>1
  <2> QED BY <1>1, <2>2, LenProperties DEF Q
<1> HIDE DEF pieces, piece
<1>6. /\ FlattenSeq(pieces) \in Seq(Byte) /\ Len(FlattenSeq(pieces)) = 4 * n
      /\ \A p \in 0 .. n - 1 : \A j \in 1 .. 4 :
           FlattenSeq(pieces)[4 * p + j] = pieces[p + 1][j]
  <2>1. \A x \in 1 .. Len(pieces) : Len(pieces[x]) = 4
    BY <1>4, <1>5
  <2>2. /\ FlattenSeq(pieces) \in Seq(Byte) /\ Len(FlattenSeq(pieces)) = 4 * Len(pieces)
        /\ \A p \in 0 .. Len(pieces) - 1 : \A j \in 1 .. 4 :
             FlattenSeq(pieces)[4 * p + j] = pieces[p + 1][j]
    BY <1>5, <2>1, FlattenFours
  <2> QED BY <1>5, <2>2
<1>7. ASSUME NEW p \in 0 .. n - 1
      PROVE  LET d == FlattenSeq(pieces)
             IN  /\ d[4 * p + 1] = from + p
                 /\ <<d[4 * p + 2], d[4 * p + 3]>> = double_2_TEMPERATURE_2_BYTES(t(p + 1))
  <2>1. p + 1 \in 1 .. n /\ from + (p + 1) - 1 = from + p
    BY <1>1
  <2>2. pieces[p + 1] = piece(p + 1)
    BY <1>5, <2>1
  <2> QED BY <1>4, <1>6, <2>1, <2>2
<1>8. \A p \in 0 .. n - 1 : t(p + 1) = temperature[from + p + 1]
  BY <1>1 DEF t
<1> QED BY <1>1, <1>3, <1>6, <1>7, <1>8 DEF n

-----------------------------------------------------------------------------
(* What frames of all kinds share.                                         *)

(* The smaller and the larger of two.                                     *)
LEMMA MinOfTwo ==
  ASSUME NEW a \in Int, NEW b \in Int
  PROVE  Min({a, b}) = IF a <= b THEN a ELSE b
<1> DEFINE m == IF a <= b THEN a ELSE b
<1>1. m \in {a, b} /\ \A y \in {a, b} : m <= y
  OBVIOUS
<1>2. \A x \in {a, b} : (\A y \in {a, b} : x <= y) => x = m
  OBVIOUS
<1> QED BY <1>1, <1>2 DEF Min

LEMMA MaxOfTwo ==
  ASSUME NEW a \in Int, NEW b \in Int
  PROVE  Max({a, b}) = IF a >= b THEN a ELSE b
<1> DEFINE m == IF a >= b THEN a ELSE b
<1>1. m \in {a, b} /\ \A y \in {a, b} : m >= y
  OBVIOUS
<1>2. \A x \in {a, b} : (\A y \in {a, b} : x >= y) => x = m
  OBVIOUS
<1> QED BY <1>1, <1>2 DEF Max

(* A byte string that has the length it is resized to.                     *)
LEMMA ResizedSame ==
  ASSUME NEW S, NEW s \in Seq(S)
  PROVE  Resized(s, Len(s)) = s
<1> DEFINE n == Len(s)
           zeros == [i \in 1 .. n - n |-> 0]
<1>1. n \in Nat /\ Min({n, n}) = n
  BY MinOfTwo
<1>2. SubSeq(s, 1, n) = s
  BY <1>1
<1>3. zeros = <<>>
  BY <1>1
<1>4. s \o <<>> = s
  OBVIOUS
<1> QED BY <1>1, <1>2, <1>3, <1>4 DEF Resized

LEMMA Appended ==
  ASSUME NEW S, NEW s \in Seq(S), NEW f \in S
  PROVE  LET t == Append(s, f)
         IN  /\ t \in Seq(S) /\ Len(t) = Len(s) + 1 /\ DOMAIN t = 1 .. Len(s) + 1
             /\ t[Len(s) + 1] = f
             /\ \A i \in 1 .. Len(s) : t[i] = s[i]
             /\ \A i \in 1 .. Len(s) + 1 : i \in 1 .. Len(s) \/ i = Len(s) + 1
<1>1. /\ Append(s, f) \in Seq(S) /\ Len(Append(s, f)) = Len(s) + 1
      /\ \A i \in 1 .. Len(s) : Append(s, f)[i] = s[i]
      /\ Append(s, f)[Len(s) + 1] = f
  BY AppendProperties
<1>2. DOMAIN Append(s, f) = 1 .. Len(s) + 1
  BY <1>1
<1>3. \A i \in 1 .. Len(s) + 1 : i \in 1 .. Len(s) \/ i = Len(s) + 1
  OBVIOUS
<1> QED BY <1>1, <1>2, <1>3

(* The items are other frames of a set.                                    *)
EachOnce(S) ==
  /\ items \in Seq(S)
  /\ \A j, k \in DOMAIN items : items[j].packet = items[k].packet => j = k

(* A frame arrives that has not.                                           *)
LEMMA PutKeepsEachOnce ==
  ASSUME NEW S, EachOnce(S), NEW f \in S, f.packet \notin Arrived, items' = Append(items, f)
  PROVE  /\ items' \in Seq(S)
         /\ \A j, k \in DOMAIN items' : items'[j].packet = items'[k].packet => j = k
<1> DEFINE n == Len(items)
           t == Append(items, f)
<1>1. items \in Seq(S) /\ n \in Nat /\ DOMAIN items = 1 .. n
  BY DEF EachOnce
<1>2. \A j \in 1 .. n : items[j].packet # f.packet
  BY <1>1 DEF Arrived, Range
<1>3. \A j, k \in 1 .. n : items[j].packet = items[k].packet => j = k
  BY <1>1 DEF EachOnce
<1>4. /\ t \in Seq(S) /\ DOMAIN t = 1 .. n + 1 /\ t[n + 1] = f
      /\ \A i \in 1 .. n : t[i] = items[i]
      /\ \A i \in 1 .. n + 1 : i \in 1 .. n \/ i = n + 1
  BY <1>1, Appended
<1> HIDE DEF t, n
<1>5. \A j, k \in 1 .. n + 1 : t[j].packet = t[k].packet => j = k
  BY <1>2, <1>3, <1>4
<1> QED BY <1>4, <1>5 DEF t

(* As many items as frames, each another one: every frame is an item.      *)
LEMMA EveryFrameArrived ==
  ASSUME NEW S, NEW n \in Nat, EachOnce(S), Len(items) = n,
         \A i \in DOMAIN items : items[i].packet \in 1 .. n
  PROVE  \A i \in 1 .. n : \E j \in DOMAIN items : items[j].packet = i
<1> DEFINE p == [j \in 1 .. n |-> items[j].packet]
<1>1. DOMAIN items = 1 .. n
  BY DEF EachOnce
<1>2. /\ p \in [1 .. n -> 1 .. n]
      /\ \A j, k \in 1 .. n : p[j] = p[k] => j = k
  BY <1>1 DEF EachOnce
<1>3. p \in Injection(1 .. n, 1 .. n) /\ IsFiniteSet(1 .. n)
  <2>1. IsFiniteSet(1 .. n)
    BY FS_Interval
  <2>2. p \in Injection(1 .. n, 1 .. n)
    BY <1>2 DEF Injection, IsInjective
  <2> QED BY <2>1, <2>2
<1>4. p \in Surjection(1 .. n, 1 .. n)
  BY ONLY <1>3, FS_Injection
<1>5. \A i \in 1 .. n : \E j \in 1 .. n : p[j] = i
  BY <1>4 DEF Surjection
<1> QED BY <1>1, <1>5

(* How wide differences are read, where the first item says it or one byte *)
(* is what they take.                                                      *)
LEMMA DataBits ==
  ASSUME NEW S, items \in Seq(S), WidthIsKnown,
         \A f \in Range(items) : IsFirst(f) => f.bits = bitsPerSample
  PROVE  bytesRequiredForBits(getDataBits) = dataBytes
<1>1. CASE items # <<>> /\ IsFirst(items[1])
  <2>1. items[1] \in Range(items)
    BY <1>1 DEF Range
  <2>2. getFirstHeader = {items[1]}
    BY <1>1 DEF getFirstHeader
  <2>3. getDataBits = items[1].bits
    BY <2>2 DEF getDataBits
  <2> QED BY <1>1, <2>1, <2>3 DEF dataBytes
<1>2. CASE ~(items # <<>> /\ IsFirst(items[1]))
  <2>1. getFirstHeader = {}
    BY <1>2 DEF getFirstHeader
  <2>2. getDataBits = 1 /\ dataBytes = 1
    BY <1>2, <2>1 DEF getDataBits, WidthIsKnown
  <2> QED BY <2>2 DEF bytesRequiredForBits
<1> QED BY <1>1, <1>2

-----------------------------------------------------------------------------
(* The frames of a plain measurement, and how they arrive.                 *)

(* The i-th frame build() makes.                                           *)
PlainFrame(i) ==
  IF i = 1 THEN Over(FirstHeader, [data |-> <<>>, size |-> MaxFrame])
  ELSE LET data == setMeasurementsData(5 * (i - 2))
       IN  Over(SecondHeader(i), [data |-> data, size |-> 4 + Len(data)])

PlainFrames == {PlainFrame(i) : i \in 1 .. PlainPackets}

PlainPhases ==
  \/ phase = "first" /\ Len(retVal) = 0 /\ ofs = 0
  \/ phase = "second" /\ Len(retVal) >= 1 /\ ofs = 5 * (Len(retVal) - 1)
  \/ phase = "built" /\ Len(retVal) = PlainPackets

(* The frames built are the first ones of the measurement.                 *)
PlainBuilt ==
  /\ retVal \in Seq(PlainFrames) /\ Len(retVal) <= PlainPackets
  /\ \A i \in DOMAIN retVal : retVal[i] = PlainFrame(i)

(* Those that have arrived are of them, each once.                         *)
PlainArrived ==
  /\ phase # "built" => items = <<>>
  /\ EachOnce(PlainFrames)

PlainInv ==
  /\ value \in Measurements
  /\ Kind = "plain" => PlainPhases /\ PlainBuilt /\ PlainArrived

LEMMA SensorsType ==
  ASSUME value \in Measurements
  PROVE  /\ sensors \in 0 .. 28 /\ temperature \in Seq(Temperatures)
         /\ PlainPackets \in 1 .. 7
         /\ \A i \in 2 .. PlainPackets : 5 * (i - 2) \in Nat /\ 5 * (i - 2) < sensors
         /\ 5 * (PlainPackets - 1) >= sensors
<1>1. temperature \in Seq(Temperatures) /\ Len(temperature) <= 28 /\ Len(temperature) \in Nat
  BY BuilderAssumption DEF temperature, Temperatures
<1>2. sensors \in 0 .. 28
  <2> DEFINE l == Len(temperature)
  <2>1. l \in Nat /\ l <= 28
    BY <1>1
  <2> HIDE DEF l
  <2>2. l \in 0 .. 28
    BY <2>1
  <2> QED BY <2>2 DEF l, sensors
<1> DEFINE s == sensors
           q == s \div 5
           rest == IF s % 5 = 0 THEN 0 ELSE 1
<1>3. PlainPackets = 1 + q + rest
  BY DEF PlainPackets
<1>4. q \in 0 .. 5 /\ rest \in {0, 1} /\ s > 5 * (q + rest - 1) /\ s <= 5 * (q + rest)
  BY <1>2
<1> HIDE DEF s, q, rest
<1>5. PlainPackets \in 1 .. 7
  BY <1>3, <1>4
<1>6. ASSUME NEW i \in 2 .. PlainPackets
      PROVE  5 * (i - 2) \in Nat /\ 5 * (i - 2) < sensors
  <2>1. i - 2 \in 0 .. q + rest - 1
    BY <1>3, <1>4
  <2>2. 5 * (i - 2) < s
    BY <1>2, <1>4, <2>1 DEF s
  <2> QED BY <2>1, <2>2 DEF s
<1>7. 5 * (PlainPackets - 1) >= sensors
  BY <1>2, <1>3, <1>4 DEF s
<1> QED BY <1>1, <1>2, <1>5, <1>6, <1>7

(* The fields of a frame.                                                  *)
LEMMA PlainFields ==
  ASSUME value \in Measurements, Kind = "plain", NEW i \in 1 .. PlainPackets
  PROVE  LET f == PlainFrame(i)
         IN  /\ f.packet = i
             /\ i = 1 => f.data = <<>> /\ f.size = MaxFrame /\ f.packets = PlainPackets
                         /\ f.bits = 0
             /\ i # 1 => f.data = setMeasurementsData(5 * (i - 2))
                         /\ f.size = 4 + Len(f.data)
<1>1. CASE i = 1
  BY <1>1 DEF PlainFrame, FirstHeader, Over
<1>2. CASE i # 1
  <2> DEFINE d == setMeasurementsData(5 * (i - 2))
             n == 4 + Len(d)
  <2>1. PlainFrame(i) = Over([packet |-> i], [data |-> d, size |-> n])
    BY <1>2 DEF PlainFrame, SecondHeader
  <2> HIDE DEF d, n
  <2>2. PlainFrame(i).packet = i /\ PlainFrame(i).data = d /\ PlainFrame(i).size = n
    BY <2>1 DEF Over
  <2> QED BY <1>2, <2>2 DEF d, n
<1> QED BY <1>1, <1>2

(* The measurement stays, and with it the frames that are to be built.     *)
LEMMA SamePlainFrames ==
  ASSUME value' = value, bitsPerSample' = bitsPerSample
  PROVE  /\ Kind' = Kind /\ PlainPackets' = PlainPackets /\ PlainFrames' = PlainFrames
         /\ \A i : PlainFrame(i)' = PlainFrame(i)
<1>1. Kind' = Kind /\ sensors' = sensors /\ temperature' = temperature /\ HostSwaps' = HostSwaps
  BY DEF Kind, sensors, temperature, HostSwaps
<1>2. PlainPackets' = PlainPackets
  BY <1>1 DEF PlainPackets
<1>3. FirstHeader' = FirstHeader
  BY <1>1, <1>2 DEF FirstHeader, SecondPackets, dataBytes
<1>4. ASSUME NEW from
      PROVE  setMeasurementsData(from)' = setMeasurementsData(from)
  BY <1>1 DEF setMeasurementsData, double_2_TEMPERATURE_2_BYTES
<1>5. ASSUME NEW i
      PROVE  PlainFrame(i)' = PlainFrame(i)
  BY <1>3, <1>4 DEF PlainFrame, SecondHeader, MaxFrame
<1>6. PlainFrames' = PlainFrames
  BY <1>2, <1>5 DEF PlainFrames
<1> QED BY <1>1, <1>2, <1>5, <1>6

LEMMA PlainInvInit == Init => PlainInv
<1> SUFFICES ASSUME Init
             PROVE  PlainInv
  OBVIOUS
<1>1. /\ value \in Measurements /\ retVal = <<>> /\ ofs = 0 /\ phase = "first" /\ items = <<>>
  BY DEF Init, BuilderInit
<1>2. PlainPackets \in 1 .. 7
  BY <1>1, SensorsType
<1>3. PlainPhases
  BY <1>1 DEF PlainPhases
<1>4. PlainBuilt
  BY <1>1, <1>2 DEF PlainBuilt
<1>5. PlainArrived
  BY <1>1 DEF PlainArrived, EachOnce
<1> QED BY <1>1, <1>3, <1>4, <1>5 DEF PlainInv

(* A frame is pushed: the next one of the measurement.                     *)
LEMMA PlainPushed ==
  ASSUME PlainBuilt, Len(retVal) + 1 \in 1 .. PlainPackets,
         retVal' = Append(retVal, PlainFrame(Len(retVal) + 1)),
         value' = value, bitsPerSample' = bitsPerSample
  PROVE  PlainBuilt' /\ Len(retVal') = Len(retVal) + 1
<1> DEFINE n == Len(retVal)
           S == PlainFrames
           f == PlainFrame(n + 1)
<1>1. /\ retVal \in Seq(S) /\ n \in Nat /\ n <= PlainPackets
      /\ \A i \in 1 .. n : retVal[i] = PlainFrame(i)
  BY DEF PlainBuilt
<1>2. f \in S
  BY DEF PlainFrames
<1>3. retVal' = Append(retVal, f) /\ n + 1 <= PlainPackets
  BY <1>1
<1> HIDE DEF n, S, f
<1>4. /\ retVal' \in Seq(S) /\ Len(retVal') = Len(retVal) + 1
      /\ \A i \in 1 .. Len(retVal) : retVal'[i] = retVal[i]
      /\ retVal'[Len(retVal) + 1] = f
  BY ONLY <1>1, <1>2, <1>3, AppendProperties
<1>5. \A i \in 1 .. n + 1 : i \in 1 .. n \/ i = n + 1
  BY <1>1
<1>6. \A i \in 1 .. n + 1 : retVal'[i] = PlainFrame(i)
  BY <1>1, <1>4, <1>5 DEF n, f
<1>7. PlainFrames' = S /\ PlainPackets' = PlainPackets /\ \A i : PlainFrame(i)' = PlainFrame(i)
  BY SamePlainFrames DEF S
<1>8. DOMAIN retVal' = 1 .. n + 1
  BY <1>4 DEF n
<1> QED BY <1>3, <1>4, <1>6, <1>7, <1>8 DEF PlainBuilt, n

LEMMA PlainInvStep == PlainInv /\ [Next]_vars => PlainInv'
<1> SUFFICES ASSUME PlainInv, [Next]_vars
             PROVE  PlainInv'
  OBVIOUS
<1>1. CASE UNCHANGED vars
  <2>1. /\ value' = value /\ bitsPerSample' = bitsPerSample /\ retVal' = retVal /\ ofs' = ofs
        /\ phase' = phase /\ items' = items
    BY <1>1 DEF vars, builderVars
  <2>2. /\ Kind' = Kind /\ PlainPackets' = PlainPackets /\ PlainFrames' = PlainFrames
        /\ \A i : PlainFrame(i)' = PlainFrame(i)
    BY <2>1, SamePlainFrames
  <2> QED BY <2>1, <2>2 DEF PlainInv, PlainPhases, PlainBuilt, PlainArrived, EachOnce
<1>2. CASE Next
  <2>1. value' = value /\ bitsPerSample' = bitsPerSample
    BY <1>2 DEF Next, Build, PlainFirst, PlainSecond, DeltaFirst, DeltaSecond, endBuild,
         HuffmanFirst, HuffmanSecond, endHuffmanChunk, Put, builderVars
  <2>2. /\ Kind' = Kind /\ PlainPackets' = PlainPackets /\ PlainFrames' = PlainFrames
        /\ \A i : PlainFrame(i)' = PlainFrame(i)
    BY <2>1, SamePlainFrames
  <2>3. value \in Measurements /\ value' \in Measurements
    BY <2>1 DEF PlainInv
  <2>4. SUFFICES ASSUME Kind = "plain"
                 PROVE  PlainPhases' /\ PlainBuilt' /\ PlainArrived'
    BY <2>2, <2>3 DEF PlainInv
  <2>5. PlainPhases /\ PlainBuilt /\ PlainArrived
    BY <2>4 DEF PlainInv
  <2>6. Len(retVal) \in Nat /\ PlainPackets \in 1 .. 7
    BY <2>3, <2>5, SensorsType DEF PlainBuilt
  <2>7. CASE PlainFirst /\ UNCHANGED items
    <3>1. phase = "first" /\ Len(retVal) = 0 /\ ofs = 0 /\ items = <<>> /\ phase' = "second"
          /\ ofs' = ofs /\ items' = items
      BY <2>5, <2>7 DEF PlainFirst, PlainPhases, PlainArrived
    <3>2. retVal' = Append(retVal, PlainFrame(Len(retVal) + 1))
      BY <2>7, <3>1 DEF PlainFirst, Push, PlainFrame
    <3>3. PlainBuilt' /\ Len(retVal') = 1
      BY <2>1, <2>5, <2>6, <3>1, <3>2, PlainPushed
    <3>4. PlainPhases'
      BY <3>1, <3>3 DEF PlainPhases
    <3>5. PlainArrived'
      BY <3>1 DEF PlainArrived, EachOnce
    <3> QED BY <3>3, <3>4, <3>5
  <2>8. CASE PlainSecond /\ UNCHANGED items
    <3>1. /\ phase = "second" /\ Len(retVal) >= 1 /\ ofs = 5 * (Len(retVal) - 1) /\ items = <<>>
          /\ phase' = "second" /\ ofs' = ofs + 5 /\ items' = items
          /\ Len(retVal) < retVal[1].packets
      BY <2>5, <2>8 DEF PlainSecond, PlainPhases, PlainArrived
    <3>2. Len(retVal) < PlainPackets
      <4>1. 1 \in DOMAIN retVal /\ 1 \in 1 .. PlainPackets
        BY <2>5, <2>6, <3>1 DEF PlainBuilt
      <4>2. retVal[1] = PlainFrame(1)
        BY <2>5, <4>1 DEF PlainBuilt
      <4>3. PlainFrame(1).packets = PlainPackets
        BY <2>3, <2>4, <4>1, PlainFields
      <4> QED BY <3>1, <4>2, <4>3
    <3>3. Len(retVal) + 1 \in 1 .. PlainPackets /\ Len(retVal) + 1 # 1
          /\ 5 * ((Len(retVal) + 1) - 2) = ofs
      BY <2>6, <3>1, <3>2
    <3>4. retVal' = Append(retVal, PlainFrame(Len(retVal) + 1))
      BY <2>8, <3>3 DEF PlainSecond, Push, PlainFrame
    <3>5. PlainBuilt' /\ Len(retVal') = Len(retVal) + 1
      BY <2>1, <2>5, <3>3, <3>4, PlainPushed
    <3>6. PlainPhases'
      BY <2>6, <3>1, <3>5 DEF PlainPhases
    <3>7. PlainArrived'
      BY <3>1 DEF PlainArrived, EachOnce
    <3> QED BY <3>5, <3>6, <3>7
  <2>9. CASE endBuild /\ UNCHANGED items
    <3>1. /\ phase = "second" /\ Len(retVal) = retVal[1].packets /\ phase' = "built"
          /\ retVal' = retVal /\ ofs' = ofs /\ items' = items /\ Len(retVal) >= 1
      BY <2>4, <2>5, <2>9 DEF endBuild, PlainPhases
    <3>2. Len(retVal) = PlainPackets
      <4>1. 1 \in DOMAIN retVal /\ 1 \in 1 .. PlainPackets
        BY <2>5, <2>6, <3>1 DEF PlainBuilt
      <4>2. retVal[1] = PlainFrame(1)
        BY <2>5, <4>1 DEF PlainBuilt
      <4>3. PlainFrame(1).packets = PlainPackets
        BY <2>3, <2>4, <4>1, PlainFields
      <4> QED BY <3>1, <4>2, <4>3
    <3> QED BY <2>2, <2>5, <3>1, <3>2 DEF PlainPhases, PlainBuilt, PlainArrived, EachOnce
  <2>10. CASE Put
    <3>1. /\ phase = "built" /\ UNCHANGED <<retVal, phase, ofs>>
      BY <2>10 DEF Put, builderVars
    <3>2. PICK f \in Range(retVal) : f.packet \notin Arrived /\ items' = Append(items, set(f))
      BY <2>10 DEF Put
    <3>3. set(f) = f
      BY <2>4 DEF set
    <3>4. f \in PlainFrames
      BY <2>5 DEF PlainBuilt, Range
    <3> DEFINE S == PlainFrames
    <3>5. EachOnce(S) /\ f \in S /\ items' = Append(items, f)
      BY <2>5, <3>2, <3>3, <3>4 DEF PlainArrived
    <3> HIDE DEF S
    <3>6. /\ items' \in Seq(S)
          /\ \A j, k \in DOMAIN items' : items'[j].packet = items'[k].packet => j = k
      BY <3>2, <3>5, PutKeepsEachOnce
    <3>12. PlainArrived'
      BY <2>2, <3>1, <3>6 DEF PlainArrived, EachOnce, S
    <3>13. PlainPhases' /\ PlainBuilt'
      BY <2>2, <2>5, <3>1 DEF PlainPhases, PlainBuilt
    <3> QED BY <3>12, <3>13
  <2> QED BY <1>2, <2>4, <2>7, <2>8, <2>9, <2>10 DEF Next, Build, DeltaFirst, DeltaSecond,
          HuffmanFirst, HuffmanSecond, endHuffmanChunk
<1> QED BY <1>1, <1>2

LEMMA PlainInvariant == Spec => []PlainInv
BY PlainInvInit, PlainInvStep, PTL DEF Spec

(* Every frame of a plain measurement is at most 24 bytes long.            *)
THEOREM PlainFramesFit == Spec => [](Kind = "plain" => FramesFit)
<1>1. PlainInv => (Kind = "plain" => FramesFit)
  <2> SUFFICES ASSUME PlainInv, Kind = "plain", NEW f \in Range(retVal)
               PROVE  f.size <= MaxFrame
    BY DEF FramesFit
  <2>1. value \in Measurements /\ PlainBuilt
    BY DEF PlainInv
  <2>2. PICK i \in 1 .. PlainPackets : f = PlainFrame(i)
    BY <2>1 DEF PlainBuilt, PlainFrames, Range
  <2>3. CASE i = 1
    BY <2>1, <2>2, <2>3, PlainFields DEF MaxFrame
  <2>4. CASE i # 1
    <3> DEFINE from == 5 * (i - 2)
    <3>1. i \in 2 .. PlainPackets
      BY <2>1, <2>4, SensorsType
    <3>2. from \in Nat /\ from < sensors /\ sensors \in 0 .. 28 /\ temperature \in Seq(Temperatures)
      BY <2>1, <3>1, SensorsType
    <3>3. f.size = 4 + Len(f.data) /\ f.data = setMeasurementsData(from)
      BY <2>1, <2>2, <2>4, PlainFields
    <3> HIDE DEF from
    <3>4. Taken(from) \in 1 .. 5 /\ Len(setMeasurementsData(from)) = 4 * Taken(from)
      BY <3>2, PlainData
    <3> QED BY <3>3, <3>4 DEF MaxFrame
  <2> QED BY <2>3, <2>4
<1> QED BY <1>1, PlainInvariant, PTL

-----------------------------------------------------------------------------
(* What LoggerCollection::get() makes of the items.                        *)

ValuesOf(f) == ItemValues(f, Offset(f))

(* The function FoldLeft() is defined with: the values of the items whose  *)
(* numbers are in s.                                                       *)
GetIter ==
  CHOOSE g : g = [s \in SUBSET DOMAIN items |->
                    IF s = {} THEN <<>>
                    ELSE Over(ValuesOf(items[Max(s)]), g[s \ {Max(s)}])]

LEMMA GetUnfolds == get = GetIter[DOMAIN items]
BY DEF get, FoldLeft, MapThenFoldSet, GetIter, ValuesOf

(* A non-empty set of numbers up to n has a largest one.                   *)
LEMMA MaxOfNumbers ==
  ASSUME NEW n \in Nat, NEW s \in SUBSET (0 .. n), s # {}
  PROVE  Max(s) \in s /\ \A y \in s : y <= Max(s)
<1> DEFINE U == {n - i : i \in s}
<1>1. U \in SUBSET Nat /\ U # {}
  <2>1. \A i \in s : i \in 0 .. n
    OBVIOUS
  <2>2. \A i \in s : n - i \in Nat
    BY <2>1
  <2>3. PICK i \in s : TRUE
    OBVIOUS
  <2> QED BY <2>2, <2>3
<1>2. PICK i \in s : n - i = Min(U)
  BY <1>1, MinProperties
<1>3. \A u \in U : Min(U) <= u
  BY <1>1, MinProperties
<1>4. \A y \in s : n - y \in U
  OBVIOUS
<1> HIDE DEF U
<1>5. \A y \in s : y <= i
  BY <1>2, <1>3, <1>4
<1> QED BY <1>5 DEF Max

LEMMA MaxOfInterval ==
  ASSUME NEW n \in Nat, NEW s \in SUBSET (1 .. n), s # {}
  PROVE  Max(s) \in s /\ \A y \in s : y <= Max(s)
<1>1. s \in SUBSET (0 .. n)
  OBVIOUS
<1> QED BY <1>1, MaxOfNumbers

LEMMA GetIterUnfolds ==
  ASSUME NEW S, items \in Seq(S)
  PROVE  \A s \in SUBSET DOMAIN items :
           GetIter[s] = IF s = {} THEN <<>>
                        ELSE Over(ValuesOf(items[Max(s)]), GetIter[s \ {Max(s)}])
<1> DEFINE n == Len(items)
           Is(g, m) == g = [s \in SUBSET (1 .. m) |->
                              IF s = {} THEN <<>>
                              ELSE Over(ValuesOf(items[Max(s)]), g[s \ {Max(s)}])]
           T == {m \in Nat : \E g : Is(g, m)}
<1>1. n \in Nat /\ DOMAIN items = 1 .. n
  OBVIOUS
<1>2. 0 \in T
  <2> DEFINE e == [s \in SUBSET (1 .. 0) |-> <<>>]
  <2>1. \A s \in SUBSET (1 .. 0) : s = {}
    OBVIOUS
  <2>2. Is(e, 0)
    BY <2>1
  <2> QED BY <2>2
<1>3. ASSUME NEW m \in T
      PROVE  m + 1 \in T
  <2>1. m \in Nat /\ m + 1 \in Nat
    BY <1>3
  <2>2. PICK g : Is(g, m)
    BY <1>3
  <2> DEFINE V(s) == ValuesOf(items[Max(s)])
             W(s) == s \ {Max(s)}
             h == [s \in SUBSET (1 .. m + 1) |-> IF s = {} THEN <<>> ELSE Over(V(s), g[W(s)])]
  <2>3. \A s \in SUBSET (1 .. m + 1) : s # {} => W(s) \in SUBSET (1 .. m)
    <3> SUFFICES ASSUME NEW s \in SUBSET (1 .. m + 1), s # {}, NEW y \in W(s)
                 PROVE  y \in 1 .. m
      OBVIOUS
    <3>1. Max(s) \in s /\ y \in s /\ y # Max(s) /\ y <= Max(s)
      <4>1. Max(s) \in s /\ \A z \in s : z <= Max(s)
        <5> HIDE DEF W
        <5> QED BY <2>1, MaxOfInterval
      <4>2. y \in s /\ y # Max(s)
        BY DEF W
      <4> QED BY ONLY <4>1, <4>2
    <3>2. Max(s) \in 1 .. m + 1 /\ y \in 1 .. m + 1
      BY <3>1
    <3> QED BY ONLY <2>1, <3>1, <3>2
  <2>4. \A s \in SUBSET (1 .. m) : s \in SUBSET (1 .. m + 1)
    BY <2>1
  <2>5. \A s \in SUBSET (1 .. m) : g[s] = IF s = {} THEN <<>> ELSE Over(V(s), g[W(s)])
    BY <2>2
  <2> HIDE DEF V, W
  <2>6. /\ h = [s \in SUBSET (1 .. m + 1) |-> IF s = {} THEN <<>> ELSE Over(V(s), g[W(s)])]
        /\ \A s \in SUBSET (1 .. m + 1) : h[s] = IF s = {} THEN <<>> ELSE Over(V(s), g[W(s)])
    OBVIOUS
  <2> HIDE DEF h
  <2>7. \A s \in SUBSET (1 .. m) : h[s] = g[s]
    BY ONLY <2>4, <2>5, <2>6
  <2>8. \A s \in SUBSET (1 .. m + 1) : s # {} => h[W(s)] = g[W(s)]
    BY ONLY <2>3, <2>7
  <2>9. h = [s \in SUBSET (1 .. m + 1) |-> IF s = {} THEN <<>> ELSE Over(V(s), h[W(s)])]
    BY ONLY <2>6, <2>8
  <2>10. Is(h, m + 1)
    BY <2>9 DEF V, W
  <2> QED BY <2>1, <2>10
<1>4. T \in SUBSET Nat
  OBVIOUS
<1> HIDE DEF T
<1>5. T = Nat
  BY ONLY <1>2, <1>3, <1>4, SetInduction
<1>6. \E g : Is(g, n)
  BY <1>1, <1>5 DEF T
<1>7. GetIter = CHOOSE g : Is(g, n)
  BY <1>1 DEF GetIter
<1>8. Is(GetIter, n)
  <2> HIDE DEF Is
  <2> QED BY <1>6, <1>7
<1> QED BY <1>1, <1>8

(* A sensor has the value one of the items has for it.                     *)
LEMMA GetCovers ==
  ASSUME NEW S, items \in Seq(S)
  PROVE  /\ \A s : s \in DOMAIN get <=> \E i \in DOMAIN items : s \in DOMAIN ValuesOf(items[i])
         /\ \A s \in DOMAIN get : \E i \in DOMAIN items :
              s \in DOMAIN ValuesOf(items[i]) /\ get[s] = ValuesOf(items[i])[s]
<1> DEFINE n == Len(items)
           V(i) == ValuesOf(items[i])
           Read(m) == GetIter[1 .. m]
           Covered(m) ==
             /\ \A s : s \in DOMAIN Read(m) <=> \E i \in 1 .. m : s \in DOMAIN V(i)
             /\ \A s \in DOMAIN Read(m) : \E i \in 1 .. m :
                  s \in DOMAIN V(i) /\ Read(m)[s] = V(i)[s]
           T == {m \in Nat : m <= n => Covered(m)}
<1>1. n \in Nat /\ DOMAIN items = 1 .. n
  OBVIOUS
<1>2. 0 \in T
  <2>1. 1 .. 0 = {}
    OBVIOUS
  <2>2. Read(0) = <<>>
    BY <1>1, <2>1, GetIterUnfolds
  <2>3. DOMAIN Read(0) = {}
    BY <2>2
  <2> HIDE DEF V, Read
  <2>4. Covered(0)
    BY <2>1, <2>3
  <2> HIDE DEF Covered
  <2> QED BY <2>4
<1>3. ASSUME NEW m \in T
      PROVE  m + 1 \in T
  <2> SUFFICES ASSUME m \in Nat, m + 1 <= n, m <= n => Covered(m)
               PROVE  Covered(m + 1)
    OBVIOUS
  <2>1. m + 1 \in 1 .. m + 1 /\ 1 .. m + 1 \in SUBSET (1 .. n) /\ m + 1 \in Nat /\ m <= n
    BY <1>1
  <2>2. 1 .. m + 1 # {}
    BY <2>1
  <2>3. Max(1 .. m + 1) = m + 1
    <3>1. /\ Max(1 .. m + 1) \in 1 .. m + 1
          /\ \A y \in 1 .. m + 1 : y <= Max(1 .. m + 1)
      BY <1>1, <2>1, <2>2, MaxOfInterval
    <3> DEFINE x == Max(1 .. m + 1)
    <3>2. x \in 1 .. m + 1 /\ m + 1 <= x
      BY <2>1, <3>1
    <3> HIDE DEF x
    <3>3. x = m + 1
      BY ONLY <2>1, <3>2
    <3> QED BY <3>3 DEF x
  <2>4. (1 .. m + 1) \ {m + 1} = 1 .. m
    BY ONLY <2>1
  <2>5. Read(m + 1) = Over(V(m + 1), Read(m))
    BY <1>1, <2>1, <2>2, <2>3, <2>4, GetIterUnfolds
  <2>6. Covered(m)
    BY <2>1
  <2> HIDE DEF V, Read
  <2>7. /\ DOMAIN Read(m + 1) = DOMAIN V(m + 1) \cup DOMAIN Read(m)
        /\ \A s \in DOMAIN V(m + 1) \cup DOMAIN Read(m) :
             Read(m + 1)[s] = IF s \in DOMAIN V(m + 1) THEN V(m + 1)[s] ELSE Read(m)[s]
    BY <2>5 DEF Over
  <2>8. \A i : i \in 1 .. m + 1 <=> i \in 1 .. m \/ i = m + 1
    BY ONLY <2>1
  <2> QED BY ONLY <2>6, <2>7, <2>8, Zenon
<1>4. T \in SUBSET Nat
  OBVIOUS
<1> HIDE DEF T
<1>5. T = Nat
  BY ONLY <1>2, <1>3, <1>4, SetInduction
<1>6. Covered(n)
  BY <1>1, <1>5 DEF T
<1>7. get = Read(n)
  BY <1>1, GetUnfolds
<1> HIDE DEF Read, V
<1>8. /\ \A s : s \in DOMAIN get <=> \E i \in 1 .. n : s \in DOMAIN V(i)
      /\ \A s \in DOMAIN get : \E i \in 1 .. n : s \in DOMAIN V(i) /\ get[s] = V(i)[s]
  BY <1>6, <1>7, Zenon
<1> QED BY <1>1, <1>8, Zenon DEF V

(* getRaw(), of data where each four bytes begin with the next sensor.     *)
LEMMA RawOfData ==
  ASSUME NEW f, NEW n \in Nat, NEW from \in Nat,
         f.data \in Seq(Byte), Len(f.data) = 4 * n,
         \A p \in 0 .. n - 1 : f.data[4 * p + 1] = from + p
  PROVE  /\ DOMAIN getRaw(f) = from .. from + n - 1
         /\ \A p \in 0 .. n - 1 : getRaw(f)[from + p] = <<f.data[4 * p + 2], f.data[4 * p + 3]>>
<1> DEFINE d == f.data
           at(p) == SubSeq(d, 4 * p + 1, 4 * p + 4)
           ps == 0 .. Len(d) \div 4 - 1
           chosen(s) == CHOOSE q \in ps : at(q)[1] = s
<1>1. ps = 0 .. n - 1
  <2> DEFINE l == Len(d)
  <2>1. l = 4 * n
    OBVIOUS
  <2> HIDE DEF l
  <2>2. l \div 4 = n
    BY ONLY <2>1
  <2> QED BY <2>2 DEF l
<1>2. ASSUME NEW p \in 0 .. n - 1
      PROVE  at(p)[1] = from + p /\ at(p)[2] = d[4 * p + 2] /\ at(p)[3] = d[4 * p + 3]
  <2> DEFINE a == 4 * p + 1
             b == 4 * p + 4
  <2>1. /\ a \in 1 .. Len(d) + 1 /\ b \in 0 .. Len(d) /\ a <= b /\ b - a + 1 = 4
        /\ a + 1 = 4 * p + 2 /\ a + 2 = 4 * p + 3
    OBVIOUS
  <2>2. d \in Seq(Byte)
    OBVIOUS
  <2> HIDE DEF a, b, d
  <2>3. \A i \in 1 .. b - a + 1 : SubSeq(d, a, b)[i] = d[a + i - 1]
    BY <2>1, <2>2, SubSeqProperties
  <2>4. SubSeq(d, a, b)[1] = d[a] /\ SubSeq(d, a, b)[2] = d[a + 1] /\ SubSeq(d, a, b)[3] = d[a + 2]
    BY <2>1, <2>3
  <2> QED BY <2>1, <2>4 DEF a, b, d
<1>3. getRaw(f) = [s \in {at(p)[1] : p \in ps} |-> <<at(chosen(s))[2], at(chosen(s))[3]>>]
  BY DEF getRaw
<1> HIDE DEF ps, at
<1>4. {at(p)[1] : p \in ps} = from .. from + n - 1
  <2>1. \A p \in 0 .. n - 1 : from + p \in from .. from + n - 1
    OBVIOUS
  <2>2. \A s \in from .. from + n - 1 : s - from \in 0 .. n - 1 /\ from + (s - from) = s
    OBVIOUS
  <2>3. \A p \in ps : at(p)[1] \in from .. from + n - 1
    BY <1>1, <1>2, <2>1
  <2>4. \A s \in from .. from + n - 1 : \E p \in ps : at(p)[1] = s
    BY <1>1, <1>2, <2>2
  <2> QED BY <2>3, <2>4
<1>5. ASSUME NEW p \in 0 .. n - 1
      PROVE  chosen(from + p) = p
  <2>1. p \in ps /\ at(p)[1] = from + p
    BY <1>1, <1>2
  <2>2. chosen(from + p) \in ps /\ at(chosen(from + p))[1] = from + p
    BY <2>1
  <2> DEFINE q == chosen(from + p)
  <2>3. q \in 0 .. n - 1 /\ from + q = from + p
    BY <1>1, <1>2, <2>2
  <2> HIDE DEF q
  <2>4. q = p
    BY <2>3
  <2> QED BY <2>4 DEF q
<1> HIDE DEF chosen
<1>6. ASSUME NEW p \in 0 .. n - 1
      PROVE  getRaw(f)[from + p] = <<d[4 * p + 2], d[4 * p + 3]>>
  <2>1. from + p \in from .. from + n - 1
    OBVIOUS
  <2>2. getRaw(f)[from + p] = <<at(chosen(from + p))[2], at(chosen(from + p))[3]>>
    BY <1>3, <1>4, <2>1
  <2> QED BY <1>2, <1>5, <2>2
<1> QED BY <1>3, <1>4, <1>6

(* The sensors whose temperatures the i-th frame has.                      *)
SensorsIn(i) ==
  IF i = 1 THEN {} ELSE 5 * (i - 2) .. 5 * (i - 2) + Taken(5 * (i - 2)) - 1

LEMMA RawOfFrame ==
  ASSUME value \in Measurements, Kind = "plain", NEW i \in 1 .. PlainPackets
  PROVE  /\ DOMAIN getRaw(PlainFrame(i)) = SensorsIn(i)
         /\ SensorsIn(i) \subseteq 0 .. sensors - 1
         /\ \A s \in SensorsIn(i) :
              getRaw(PlainFrame(i))[s] = double_2_TEMPERATURE_2_BYTES(temperature[s + 1])
<1> DEFINE f == PlainFrame(i)
<1>1. CASE i = 1
  <2>1. f.data = <<>>
    BY <1>1, PlainFields
  <2>2. f.data \in Seq(Byte) /\ Len(f.data) = 4 * 0
    BY <2>1
  <2>3. \A p \in 0 .. 0 - 1 : f.data[4 * p + 1] = 0 + p
    OBVIOUS
  <2> HIDE DEF f
  <2>4. DOMAIN getRaw(f) = 0 .. 0 + 0 - 1
    BY <2>2, <2>3, RawOfData
  <2>5. DOMAIN getRaw(f) = {}
    BY <2>4
  <2> QED BY <1>1, <2>5 DEF SensorsIn, f
<1>2. CASE i # 1
  <2> DEFINE from == 5 * (i - 2)
             n == Taken(from)
             d == setMeasurementsData(from)
  <2>1. i \in 2 .. PlainPackets
    BY <1>2, SensorsType
  <2>2. from \in Nat /\ from < sensors /\ sensors \in 0 .. 28 /\ temperature \in Seq(Temperatures)
    BY <2>1, SensorsType
  <2>3. f.data = d
    BY <1>2, PlainFields
  <2>4. SensorsIn(i) = from .. from + n - 1
    BY <1>2 DEF SensorsIn
  <2> HIDE DEF from, f
  <2>5. /\ n \in 1 .. 5 /\ from + n <= sensors /\ d \in Seq(Byte) /\ Len(d) = 4 * n
        /\ \A p \in 0 .. n - 1 :
             /\ d[4 * p + 1] = from + p
             /\ <<d[4 * p + 2], d[4 * p + 3]>> =
                  double_2_TEMPERATURE_2_BYTES(temperature[from + p + 1])
    BY <2>2, PlainData
  <2> HIDE DEF d, n
  <2>6. n \in Nat
    BY <2>5
  <2>7. /\ DOMAIN getRaw(f) = from .. from + n - 1
        /\ \A p \in 0 .. n - 1 : getRaw(f)[from + p] = <<f.data[4 * p + 2], f.data[4 * p + 3]>>
    BY <2>2, <2>3, <2>5, <2>6, RawOfData
  <2>8. \A p \in 0 .. n - 1 :
          getRaw(f)[from + p] = double_2_TEMPERATURE_2_BYTES(temperature[from + p + 1])
    BY <2>3, <2>5, <2>7
  <2>9. \A s \in from .. from + n - 1 :
          s - from \in 0 .. n - 1 /\ from + (s - from) = s /\ s \in 0 .. sensors - 1
    BY <2>2, <2>5
  <2>10. \A s \in from .. from + n - 1 :
           getRaw(f)[s] = double_2_TEMPERATURE_2_BYTES(temperature[s + 1])
    BY <2>8, <2>9
  <2> QED BY <2>4, <2>7, <2>9, <2>10 DEF f
<1> QED BY <1>1, <1>2

(* A sensor's temperature is what its bytes are read as.                   *)
LEMMA SensorComesBack ==
  ASSUME value \in Measurements, NEW s \in 0 .. sensors - 1
  PROVE  TEMPERATURE_2_BYTES_2_double(double_2_TEMPERATURE_2_BYTES(temperature[s + 1])) =
           temperature[s + 1]
<1>1. temperature[s + 1] \in Temperatures
  <2>1. sensors \in 0 .. 28 /\ temperature \in Seq(Temperatures)
    BY SensorsType
  <2>2. s + 1 \in 1 .. sensors
    BY <2>1
  <2> QED BY <2>1, <2>2 DEF sensors
<1>2. PICK a, b \in Byte :
        /\ double_2_TEMPERATURE_2_BYTES(temperature[s + 1]) = <<a, b>>
        /\ TEMPERATURE_2_BYTES_2_double(<<a, b>>) = temperature[s + 1]
  BY <1>1, TemperatureComesBack
<1> QED BY <1>2

(* What is read of a sensor is what it measured.                           *)
LEMMA PlainRead ==
  ASSUME PlainInv, Kind = "plain"
  PROVE  IsMeasured(get)
<1>1. /\ value \in Measurements /\ items \in Seq(PlainFrames)
  BY DEF PlainInv, PlainArrived, EachOnce
<1>2. /\ \A s : s \in DOMAIN get <=> \E j \in DOMAIN items : s \in DOMAIN ValuesOf(items[j])
      /\ \A s \in DOMAIN get : \E j \in DOMAIN items :
           s \in DOMAIN ValuesOf(items[j]) /\ get[s] = ValuesOf(items[j])[s]
  BY <1>1, GetCovers
<1>3. ASSUME NEW s \in DOMAIN get
      PROVE  s \in 0 .. sensors - 1 /\ TEMPERATURE_2_BYTES_2_double(get[s]) = temperature[s + 1]
  <2>1. PICK j \in DOMAIN items : s \in DOMAIN ValuesOf(items[j]) /\ get[s] = ValuesOf(items[j])[s]
    BY <1>2
  <2>2. PICK i \in 1 .. PlainPackets : items[j] = PlainFrame(i)
    BY <1>1, <2>1 DEF PlainFrames
  <2>3. ValuesOf(items[j]) = getRaw(PlainFrame(i))
    BY <2>2 DEF ValuesOf, ItemValues
  <2>4. /\ s \in SensorsIn(i) /\ s \in 0 .. sensors - 1
        /\ get[s] = double_2_TEMPERATURE_2_BYTES(temperature[s + 1])
    <3>1. /\ DOMAIN getRaw(PlainFrame(i)) = SensorsIn(i)
          /\ SensorsIn(i) \subseteq 0 .. sensors - 1
          /\ \A x \in SensorsIn(i) :
               getRaw(PlainFrame(i))[x] = double_2_TEMPERATURE_2_BYTES(temperature[x + 1])
      BY <1>1, RawOfFrame
    <3> QED BY <2>1, <2>3, <3>1
  <2> QED BY <1>1, <2>4, SensorComesBack
<1> QED BY <1>3 DEF IsMeasured

(* In whatever order the frames of a plain measurement arrive, and         *)
(* whichever are missing: what LoggerCollection::get() reads of a sensor   *)
(* is what that sensor measured.                                           *)
THEOREM PlainReadIsMeasured == Spec => [](Kind = "plain" => ReadIsMeasured)
<1>1. PlainInv => (Kind = "plain" => ReadIsMeasured)
  BY PlainRead DEF ReadIsMeasured
<1> QED BY <1>1, PlainInvariant, PTL

-----------------------------------------------------------------------------
(* When all frames have arrived.                                           *)

(* As many items as frames, each another one: every frame is an item.      *)
LEMMA AllPlainArrived ==
  ASSUME PlainInv, Kind = "plain", AllArrived
  PROVE  \A i \in 1 .. PlainPackets : \E j \in DOMAIN items : items[j] = PlainFrame(i)
<1> DEFINE n == PlainPackets
           S == PlainFrames
<1>1. value \in Measurements /\ EachOnce(S) /\ n \in Nat /\ Len(items) = n
  BY SensorsType DEF PlainInv, PlainArrived, AllArrived, PlainPhases
<1>2. \A f \in S : f.packet \in 1 .. n /\ f = PlainFrame(f.packet)
  BY <1>1, PlainFields DEF PlainFrames
<1> HIDE DEF n, S
<1>3. \A j \in DOMAIN items : items[j] \in S
  BY <1>1 DEF EachOnce
<1>4. \A i \in 1 .. n : \E j \in DOMAIN items : items[j].packet = i
  BY <1>1, <1>2, <1>3, EveryFrameArrived
<1> QED BY <1>2, <1>3, <1>4 DEF n

(* Every sensor is in one of the frames.                                   *)
LEMMA EverySensorIsSent ==
  ASSUME value \in Measurements, Kind = "plain", NEW s \in 0 .. sensors - 1
  PROVE  \E i \in 1 .. PlainPackets : s \in SensorsIn(i)
<1> DEFINE q == s \div 5
           i == q + 2
           from == 5 * q
           n == Taken(from)
<1>1. sensors \in 0 .. 28 /\ temperature \in Seq(Temperatures) /\ PlainPackets \in 1 .. 7
      /\ 5 * (PlainPackets - 1) >= sensors
  BY SensorsType
<1>2. s \in Nat /\ s < sensors
  BY <1>1
<1>3. q \in Nat /\ from <= s /\ s <= from + 4
  BY <1>2
<1> HIDE DEF q
<1>4. i \in 1 .. PlainPackets /\ i # 1 /\ i - 2 = q
  <2>1. 5 * q < 5 * (PlainPackets - 1)
    BY <1>1, <1>2, <1>3
  <2>2. q < PlainPackets - 1
    BY <1>1, <1>3, <2>1
  <2> QED BY <1>1, <1>3, <2>2
<1>5. from \in Nat /\ from < sensors
  BY <1>1, <1>2, <1>3
<1>6. SensorsIn(i) = from .. from + n - 1
  BY <1>4 DEF SensorsIn
<1> HIDE DEF from, i
<1>7. n \in 1 .. 5 /\ (from + n = sensors \/ n = 5)
  BY <1>1, <1>5, PlainData
<1> HIDE DEF n
<1>8. s \in from .. from + n - 1
  BY <1>1, <1>2, <1>3, <1>5, <1>7
<1> QED BY <1>4, <1>6, <1>8

(* When all frames of a plain measurement have arrived, every sensor's     *)
(* temperature is read, and no other.                                      *)
THEOREM PlainAllIsRead == Spec => [](Kind = "plain" => AllIsRead)
<1>1. PlainInv => (Kind = "plain" => AllIsRead)
  <2> SUFFICES ASSUME PlainInv, Kind = "plain", AllArrived
               PROVE  IsMeasured(get) /\ DOMAIN get = 0 .. sensors - 1
    BY DEF AllIsRead
  <2>1. value \in Measurements /\ items \in Seq(PlainFrames)
    BY DEF PlainInv, PlainArrived, EachOnce
  <2>2. IsMeasured(get) /\ DOMAIN get \subseteq 0 .. sensors - 1
    BY PlainRead DEF IsMeasured
  <2>3. ASSUME NEW s \in 0 .. sensors - 1
        PROVE  s \in DOMAIN get
    <3>1. PICK i \in 1 .. PlainPackets : s \in SensorsIn(i)
      BY <2>1, EverySensorIsSent
    <3>2. PICK j \in DOMAIN items : items[j] = PlainFrame(i)
      BY AllPlainArrived
    <3>3. ValuesOf(items[j]) = getRaw(PlainFrame(i))
      BY <3>2 DEF ValuesOf, ItemValues
    <3>4. DOMAIN getRaw(PlainFrame(i)) = SensorsIn(i)
      BY <2>1, RawOfFrame
    <3> QED BY <2>1, <3>1, <3>3, <3>4, GetCovers
  <2> QED BY <2>2, <2>3
<1> QED BY <1>1, PlainInvariant, PTL

-----------------------------------------------------------------------------
(* Differences, as they are sent and as they are read.                     *)

Shorts == {d \in Int : -32768 <= d /\ d <= 32767}
Words  == {w \in Int : 0 <= w /\ w <= 65535}

(* The bytes of a difference give it back: both of any, and the low one of *)
(* a difference of one byte.                                               *)
LEMMA DifferenceComesBack ==
  ASSUME NEW d \in Shorts
  PROVE  \E a, b \in Byte :
           /\ LoHi(d) = <<a, b>>
           /\ Int16(a + 256 * b) = d
           /\ d \in -128 .. 127 => ((a + 128) % 256) - 128 = d
<1> DEFINE q == d \div 256
           a == d % 256
           b == q % 256
<1>1. d \in Int /\ -32768 <= d /\ d <= 32767
  BY DEF Shorts
<1>2. a \in 0 .. 255 /\ q \in -128 .. 127 /\ d = 256 * q + a
  BY <1>1
<1>3. LoHi(d) = <<a, b>>
  BY DEF LoHi
<1>4. b \in 0 .. 255 /\ (b = q \/ b = q + 256)
  <2> HIDE DEF q
  <2> QED BY <1>2
<1> HIDE DEF a, b
<1>5. Int16(a + 256 * b) = d
  <2> DEFINE w == a + 256 * b
  <2>1. w = d \/ w = d + 65536
    BY <1>2, <1>4
  <2> HIDE DEF w
  <2>2. (w + 32768) % 65536 = d + 32768
    BY ONLY <1>1, <2>1
  <2>3. Int16(w) = d
    BY <1>1, <2>2 DEF Int16
  <2> QED BY <2>3 DEF w
<1>6. ASSUME d \in -128 .. 127
      PROVE  ((a + 128) % 256) - 128 = d
  <2>1. a = d \/ a = d + 256
    BY <1>1, <1>2, <1>6
  <2>2. (a + 128) % 256 = d + 128
    BY <1>1, <1>6, <2>1
  <2> QED BY <1>1, <2>2
<1>7. a \in Byte /\ b \in Byte
  BY ONLY <1>2, <1>4 DEF Byte
<1> QED BY <1>3, <1>5, <1>6, <1>7, Zenon

(* What is added to a number to get another, modulo 2^16, gives its bytes. *)
LEMMA DifferenceAdded ==
  ASSUME NEW x \in Words, NEW y \in Words
  PROVE  Int16(y - x) \in Shorts /\ HTON2(x + Int16(y - x)) = HTON2(y)
<1> DEFINE d == Int16(y - x)
           z == x + d
<1>1. x \in Int /\ y \in Int /\ 0 <= x /\ x <= 65535 /\ 0 <= y /\ y <= 65535
  BY DEF Words
<1>2. /\ d \in Int /\ -32768 <= d /\ d <= 32767
      /\ d = y - x \/ d = y - x + 65536 \/ d = y - x - 65536
  <2> DEFINE e == y - x
             m == (e + 32768) % 65536
  <2>1. e \in Int /\ -65535 <= e /\ e <= 65535
    BY <1>1
  <2> HIDE DEF e
  <2>2. /\ m \in Int /\ 0 <= m /\ m <= 65535
        /\ m = e + 32768 \/ m = e + 98304 \/ m = e - 32768
    BY ONLY <2>1
  <2> HIDE DEF m
  <2>3. d = m - 32768
    BY DEF Int16, m, e
  <2> HIDE DEF d
  <2>4. /\ d \in Int /\ -32768 <= d /\ d <= 32767
        /\ d = e \/ d = e + 65536 \/ d = e - 65536
    BY ONLY <2>1, <2>2, <2>3
  <2> QED BY <2>4 DEF e
<1> HIDE DEF d
<1>3. z = y \/ z = y + 65536 \/ z = y - 65536
  BY <1>1, <1>2
<1> HIDE DEF z
<1> DEFINE q == y \div 256
           r == y % 256
<1>4. q \in 0 .. 255 /\ r \in 0 .. 255 /\ y = 256 * q + r
  BY <1>1
<1> HIDE DEF q, r
<1>5. z % 256 = r /\ (z \div 256 = q \/ z \div 256 = q + 256 \/ z \div 256 = q - 256)
  BY <1>3, <1>4
<1> DEFINE zq == z \div 256
<1>6. zq % 256 = q % 256
  <2> HIDE DEF zq
  <2>1. zq = q \/ zq = q + 256 \/ zq = q - 256
    BY <1>5 DEF zq
  <2> QED BY <1>4, <2>1
<1>7. LoHi(z) = LoHi(y)
  BY <1>5, <1>6 DEF LoHi, q, r
<1>8. HTON2(z) = HTON2(y)
  BY <1>7 DEF HTON2
<1>9. d \in Shorts
  BY <1>2 DEF Shorts
<1> QED BY <1>8, <1>9, Zenon DEF d, z

LEMMA WordOfBytes ==
  ASSUME NEW a \in Byte, NEW b \in Byte
  PROVE  NTOH2(<<a, b>>) \in Words /\ HTON2(NTOH2(<<a, b>>)) = <<a, b>>
<1> DEFINE y == a * 256 + b
           q == y \div 256
<1>1. a \in 0 .. 255 /\ b \in 0 .. 255
  BY DEF Byte
<1>2. y \in Int /\ 0 <= y /\ y <= 65535 /\ y % 256 = b /\ q = a
  BY <1>1
<1>3. q % 256 = a
  <2> HIDE DEF q
  <2> QED BY <1>1, <1>2
<1>4. NTOH2(<<a, b>>) = y
  BY DEF NTOH2
<1>5. LoHi(y) = <<b, a>>
  BY <1>2, <1>3 DEF LoHi
<1> HIDE DEF y
<1>6. HTON2(y) = <<a, b>>
  BY <1>5, ReversedPair DEF HTON2
<1> QED BY <1>2, <1>4, <1>6 DEF Words

Calculated == value \in Measurements /\ calcDeltas

(* The differences of a measurement to its base.                           *)
LEMMA DeltasType ==
  ASSUME Calculated
  PROVE  /\ diffInt \in Seq(Shorts) /\ Len(diffInt) \in 0 .. 28
         /\ Len(diffInt) <= sensors /\ Len(diffInt) <= Len(value.base) /\ Len(value.base) \in Nat
         /\ Len(value.base) >= sensors => Len(diffInt) = sensors
         /\ Len(diffInt) = sensors \/ Len(diffInt) = Len(value.base)
         /\ \A i \in 1 .. Len(diffInt) :
              HTON2(NTOH2(double_2_TEMPERATURE_2_BYTES(value.base[i])) + diffInt[i]) =
                double_2_TEMPERATURE_2_BYTES(temperature[i])
<1> DEFINE n == Min({sensors, Len(value.base)})
           y(i) == NTOH2(double_2_TEMPERATURE_2_BYTES(temperature[i]))
           x(i) == NTOH2(double_2_TEMPERATURE_2_BYTES(value.base[i]))
           d(i) == Int16(y(i) - x(i))
<1>1. /\ sensors \in 0 .. 28 /\ temperature \in Seq(Temperatures)
      /\ value.base \in Seq(Temperatures) /\ Len(value.base) \in Nat
  BY SensorsType, BuilderAssumption DEF Calculated, Temperatures
<1>2. /\ n \in 0 .. 28 /\ n <= sensors /\ n <= Len(value.base)
      /\ Len(value.base) >= sensors => n = sensors
      /\ n = sensors \/ n = Len(value.base)
  <2> DEFINE s == sensors
             l == Len(value.base)
  <2>1. s \in 0 .. 28 /\ l \in Nat
    BY <1>1
  <2> HIDE DEF s, l
  <2>2. Min({s, l}) = IF s <= l THEN s ELSE l
    BY <2>1, MinOfTwo
  <2> DEFINE m == Min({s, l})
  <2>3. m \in 0 .. 28 /\ m <= s /\ m <= l /\ (l >= s => m = s) /\ (m = s \/ m = l)
    BY <2>1, <2>2
  <2> QED BY <2>3 DEF s, l
<1>3. diffInt = [i \in 1 .. n |-> d(i)]
  BY DEF Calculated, calcDeltas, Deltas
<1> HIDE DEF n
<1>4. ASSUME NEW i \in 1 .. n
      PROVE  d(i) \in Shorts /\ HTON2(x(i) + d(i)) = double_2_TEMPERATURE_2_BYTES(temperature[i])
  <2>1. i \in 1 .. sensors /\ i \in 1 .. Len(value.base)
    BY <1>1, <1>2
  <2>2. temperature[i] \in Temperatures /\ value.base[i] \in Temperatures
    BY <1>1, <2>1 DEF sensors
  <2>3. PICK a, b \in Byte : double_2_TEMPERATURE_2_BYTES(temperature[i]) = <<a, b>>
    BY <2>2, TemperatureComesBack
  <2>4. PICK e, f \in Byte : double_2_TEMPERATURE_2_BYTES(value.base[i]) = <<e, f>>
    BY <2>2, TemperatureComesBack
  <2>5. y(i) \in Words /\ HTON2(y(i)) = <<a, b>>
    BY <2>3, WordOfBytes
  <2>6. x(i) \in Words
    BY <2>4, WordOfBytes
  <2> HIDE DEF x, y
  <2> QED BY <2>3, <2>5, <2>6, DifferenceAdded
<1> HIDE DEF d
<1>5. /\ diffInt \in Seq(Shorts) /\ Len(diffInt) = n /\ \A i \in 1 .. n : diffInt[i] = d(i)
  <2>1. n \in Nat /\ diffInt \in [1 .. n -> Shorts]
    BY <1>2, <1>3, <1>4
  <2> QED BY <1>3, <2>1, LenProperties
<1> QED BY <1>1, <1>2, <1>4, <1>5 DEF d

-----------------------------------------------------------------------------
(* The data of a frame of differences.                                     *)

(* Where the differences need it, they are sent in two bytes.              *)
WidthSuffices == dataBytes = 1 => \A i \in DOMAIN diffInt : diffInt[i] \in -128 .. 127

(* The differences from one on that a frame of c takes.                    *)
DiffsTaken(from, c) == Min({c, Max({0, Len(diffInt) - from})})

LEMMA DiffsTakenType ==
  ASSUME Len(diffInt) \in Nat, NEW from \in Nat, NEW c \in Nat
  PROVE  LET n == DiffsTaken(from, c)
         IN  /\ n \in 0 .. c
             /\ n > 0 => from + n <= Len(diffInt)
             /\ n = c \/ from + n >= Len(diffInt)
             /\ from + c <= Len(diffInt) => n = c
<1> DEFINE l == Len(diffInt)
           m == Max({0, l - from})
<1> HIDE DEF l
<1>1. l \in Nat
  BY DEF l
<1>2. m = IF 0 >= l - from THEN 0 ELSE l - from
  BY <1>1, MaxOfTwo
<1>3. m \in Nat
  BY <1>1, <1>2
<1> HIDE DEF m
<1>4. Min({c, m}) = IF c <= m THEN c ELSE m
  BY <1>3, MinOfTwo
<1>5. DiffsTaken(from, c) = Min({c, m})
  BY DEF DiffsTaken, m, l
<1> DEFINE n == Min({c, m})
<1>6. n \in 0 .. c /\ (n > 0 => from + n <= l) /\ (n = c \/ from + n >= l) /\ (from + c <= l => n = c)
  BY <1>1, <1>2, <1>3, <1>4
<1> QED BY <1>5, <1>6 DEF l

(* Differences that stand in a frame are read from it, if they are as      *)
(* narrow as the bytes they take.                                          *)
LEMMA DifferencesData ==
  ASSUME Calculated, NEW from \in Nat, NEW c \in Nat
  PROVE  LET n == DiffsTaken(from, c)
             data == Differences(from, c)
         IN  /\ data \in Seq(Byte) /\ Len(data) = n * dataBytes
             /\ WidthSuffices =>
                  \A j \in 0 .. n - 1 : getDiff(data, 0, dataBytes, j) = diffInt[from + j + 1]
<1> DEFINE n == DiffsTaken(from, c)
           data == Differences(from, c)
           b == dataBytes
           of(j) == LoHi(diffInt[from + UpDiv(j, b)])[1 + ((j - 1) % b)]
<1>1. diffInt \in Seq(Shorts) /\ Len(diffInt) \in 0 .. 28
  BY DeltasType
<1>2. n \in Nat /\ n \in 0 .. c /\ (n > 0 => from + n <= Len(diffInt))
  <2>1. Len(diffInt) \in Nat
    BY <1>1
  <2>2. n \in 0 .. c /\ (n > 0 => from + n <= Len(diffInt))
    BY <2>1, DiffsTakenType
  <2> QED BY <2>2
<1>3. b \in {1, 2}
  BY DEF dataBytes, bytesRequiredForBits
<1>4. data = [j \in 1 .. n * b |-> of(j)]
  BY DEF Differences, DiffsTaken
<1> HIDE DEF n
<1>5. ASSUME NEW j \in 0 .. n - 1
      PROVE  from + j + 1 \in 1 .. Len(diffInt) /\ diffInt[from + j + 1] \in Shorts
  <2>1. from + j + 1 \in 1 .. Len(diffInt)
    BY <1>1, <1>2
  <2> QED BY <1>1, <2>1
<1>6. CASE b = 1
  <2>1. \A j \in 0 .. n - 1 : of(j + 1) = LoHi(diffInt[from + j + 1])[1]
    <3> SUFFICES ASSUME NEW j \in 0 .. n - 1
                 PROVE  of(j + 1) = LoHi(diffInt[from + j + 1])[1]
      OBVIOUS
    <3>1. UpDiv(j + 1, 1) = j + 1 /\ 1 + (((j + 1) - 1) % 1) = 1 /\ from + (j + 1) = from + j + 1
      BY <1>2 DEF UpDiv
    <3> QED BY <1>6, <3>1
  <2>2. data = [j \in 1 .. n |-> of(j)]
    BY <1>2, <1>4, <1>6
  <2> HIDE DEF of, data, b
  <2>3. \A j \in 1 .. n : of(j) \in Byte
    <3> SUFFICES ASSUME NEW j \in 1 .. n
                 PROVE  of(j) \in Byte
      OBVIOUS
    <3>1. j - 1 \in 0 .. n - 1 /\ (j - 1) + 1 = j
      BY <1>2
    <3> QED BY <1>5, <2>1, <3>1, DifferenceComesBack
  <2>4. data \in Seq(Byte) /\ Len(data) = n /\ \A j \in 0 .. n - 1 : data[j + 1] = of(j + 1)
    <3>1. data \in [1 .. n -> Byte]
      BY <2>2, <2>3
    <3> QED BY <1>2, <2>2, <3>1, LenProperties
  <2>5. ASSUME WidthSuffices, NEW j \in 0 .. n - 1
        PROVE  getDiff(data, 0, b, j) = diffInt[from + j + 1]
    <3>1. diffInt[from + j + 1] \in -128 .. 127
      <4>1. from + j + 1 \in DOMAIN diffInt
        BY <1>1, <1>5
      <4>2. \A i \in DOMAIN diffInt : diffInt[i] \in -128 .. 127
        BY <1>6, <2>5 DEF WidthSuffices, b
      <4> QED BY ONLY <4>1, <4>2
    <3>2. 0 + j * 1 + 1 = j + 1
      BY <1>2
    <3>3. getDiff(data, 0, b, j) = ((data[j + 1] + 128) % 256) - 128
      BY <1>6, <3>2 DEF getDiff
    <3>4. data[j + 1] = LoHi(diffInt[from + j + 1])[1]
      BY <2>1, <2>4
    <3> QED BY <1>5, <3>1, <3>3, <3>4, DifferenceComesBack
  <2>6. n * b = n
    BY <1>2, <1>6
  <2> QED BY <2>4, <2>5, <2>6 DEF n, data, b
<1>7. CASE b = 2
  <2>1. \A j \in 0 .. n - 1 : /\ of(2 * j + 1) = LoHi(diffInt[from + j + 1])[1]
                              /\ of(2 * j + 2) = LoHi(diffInt[from + j + 1])[2]
    <3> SUFFICES ASSUME NEW j \in 0 .. n - 1
                 PROVE  /\ of(2 * j + 1) = LoHi(diffInt[from + j + 1])[1]
                        /\ of(2 * j + 2) = LoHi(diffInt[from + j + 1])[2]
      OBVIOUS
    <3>1. /\ UpDiv(2 * j + 1, 2) = j + 1 /\ 1 + (((2 * j + 1) - 1) % 2) = 1
          /\ UpDiv(2 * j + 2, 2) = j + 1 /\ 1 + (((2 * j + 2) - 1) % 2) = 2
          /\ from + (j + 1) = from + j + 1
      BY <1>2 DEF UpDiv
    <3> QED BY <1>7, <3>1
  <2>2. data = [j \in 1 .. 2 * n |-> of(j)]
    BY <1>2, <1>4, <1>7
  <2> HIDE DEF of, data, b
  <2>3. \A j \in 1 .. 2 * n : \E k \in 0 .. n - 1 : j = 2 * k + 1 \/ j = 2 * k + 2
    <3> SUFFICES ASSUME NEW j \in 1 .. 2 * n
                 PROVE  \E k \in 0 .. n - 1 : j = 2 * k + 1 \/ j = 2 * k + 2
      OBVIOUS
    <3> DEFINE k == (j - 1) \div 2
    <3>1. k \in 0 .. n - 1 /\ (j = 2 * k + 1 \/ j = 2 * k + 2)
      BY <1>2
    <3> QED BY <3>1
  <2>4. \A j \in 1 .. 2 * n : of(j) \in Byte
    <3> SUFFICES ASSUME NEW j \in 1 .. 2 * n
                 PROVE  of(j) \in Byte
      OBVIOUS
    <3>1. PICK k \in 0 .. n - 1 : j = 2 * k + 1 \/ j = 2 * k + 2
      BY <2>3
    <3>2. PICK x, y \in Byte : LoHi(diffInt[from + k + 1]) = <<x, y>>
      BY <1>5, DifferenceComesBack
    <3> QED BY <2>1, <3>1, <3>2
  <2>5. /\ data \in Seq(Byte) /\ Len(data) = 2 * n
        /\ \A j \in 0 .. n - 1 : data[2 * j + 1] = of(2 * j + 1) /\ data[2 * j + 2] = of(2 * j + 2)
    <3>1. data \in [1 .. 2 * n -> Byte] /\ 2 * n \in Nat
      BY <1>2, <2>2, <2>4
    <3>2. \A j \in 0 .. n - 1 : 2 * j + 1 \in 1 .. 2 * n /\ 2 * j + 2 \in 1 .. 2 * n
      BY <1>2
    <3>3. data \in Seq(Byte) /\ Len(data) = 2 * n
      BY <3>1, LenProperties
    <3> QED BY <2>2, <3>2, <3>3
  <2>6. ASSUME NEW j \in 0 .. n - 1
        PROVE  getDiff(data, 0, b, j) = diffInt[from + j + 1]
    <3>1. 0 + j * 2 + 1 = 2 * j + 1 /\ (0 + j * 2 + 1) + 1 = 2 * j + 2
      BY <1>2
    <3>2. getDiff(data, 0, b, j) = Int16(data[2 * j + 1] + 256 * data[2 * j + 2])
      BY <1>7, <3>1 DEF getDiff
    <3>3. PICK x, y \in Byte : /\ LoHi(diffInt[from + j + 1]) = <<x, y>>
                               /\ Int16(x + 256 * y) = diffInt[from + j + 1]
      BY <1>5, DifferenceComesBack
    <3>4. data[2 * j + 1] = x /\ data[2 * j + 2] = y
      BY <2>1, <2>5, <3>3
    <3> QED BY <3>2, <3>3, <3>4
  <2>7. n * b = 2 * n
    BY <1>2, <1>7
  <2> QED BY <2>5, <2>6, <2>7 DEF n, data, b
<1> QED BY <1>3, <1>6, <1>7

(* The frame f holds c differences (or as many as are left) from from on,  *)
(* and getByDiff() reads it at the offset of these.                        *)
HoldsDiffs(f, offset, from, c) ==
  /\ Calculated /\ WidthSuffices
  /\ offset \in Nat /\ from \in 0 .. 255 /\ c \in Nat
  /\ f.data = Differences(from, c)
  /\ bytesRequiredForBits(getDataBits) = dataBytes
  /\ offset \div dataBytes = from
  /\ offset # 0 \/ IsFirst(f)

(* What is read there: the temperatures of these sensors.                  *)
DiffsAreRead(f, offset, from, c) ==
  /\ DOMAIN getByDiff(f, offset) = from .. from + DiffsTaken(from, c) - 1
  /\ \A s \in from .. from + DiffsTaken(from, c) - 1 :
       /\ s \in 0 .. sensors - 1
       /\ getByDiff(f, offset)[s] = double_2_TEMPERATURE_2_BYTES(temperature[s + 1])

(* A frame of the differences from one on, read at its offset, gives the   *)
(* temperatures of these sensors.                                          *)
LEMMA GetByDiffReads ==
  \A f, offset, from, c : HoldsDiffs(f, offset, from, c) => DiffsAreRead(f, offset, from, c)
<1> SUFFICES ASSUME NEW f, NEW offset, NEW from, NEW c, HoldsDiffs(f, offset, from, c)
             PROVE  DiffsAreRead(f, offset, from, c)
  OBVIOUS
<1> SUFFICES /\ DOMAIN getByDiff(f, offset) = from .. from + DiffsTaken(from, c) - 1
             /\ \A s \in from .. from + DiffsTaken(from, c) - 1 :
                  /\ s \in 0 .. sensors - 1
                  /\ getByDiff(f, offset)[s] = double_2_TEMPERATURE_2_BYTES(temperature[s + 1])
  BY DEF DiffsAreRead
<1>a. /\ Calculated /\ WidthSuffices
      /\ offset \in Nat /\ from \in 0 .. 255 /\ c \in Nat
      /\ f.data = Differences(from, c)
      /\ bytesRequiredForBits(getDataBits) = dataBytes
      /\ offset \div dataBytes = from
      /\ offset # 0 \/ IsFirst(f)
  BY DEF HoldsDiffs
<1> USE <1>a
<1> DEFINE n == DiffsTaken(from, c)
           b == dataBytes
           data == f.data
           of(s) == HTON2(NTOH2(double_2_TEMPERATURE_2_BYTES(value.base[s + 1]))
                            + getDiff(data, 0, b, s - from))
           cnt == (Len(data) - 0) \div b
           ss == {s \in from .. from + cnt - 1 : s < Len(value.base)}
<1>1. /\ Len(diffInt) \in 0 .. 28 /\ Len(diffInt) <= sensors /\ Len(diffInt) <= Len(value.base)
      /\ Len(value.base) \in Nat /\ sensors \in 0 .. 28
      /\ \A i \in 1 .. Len(diffInt) :
           HTON2(NTOH2(double_2_TEMPERATURE_2_BYTES(value.base[i])) + diffInt[i]) =
             double_2_TEMPERATURE_2_BYTES(temperature[i])
  BY DeltasType, SensorsType DEF Calculated
<1>2. n \in 0 .. c /\ (n > 0 => from + n <= Len(diffInt))
  <2>1. from \in Nat /\ Len(diffInt) \in Nat
    BY <1>1
  <2> QED BY <2>1, DiffsTakenType
<1>3. b \in {1, 2}
  BY DEF dataBytes, bytesRequiredForBits
<1>4. Len(data) = n * b /\ \A j \in 0 .. n - 1 : getDiff(data, 0, b, j) = diffInt[from + j + 1]
  <2>1. from \in Nat
    OBVIOUS
  <2>2. /\ Len(Differences(from, c)) = DiffsTaken(from, c) * dataBytes
        /\ \A j \in 0 .. DiffsTaken(from, c) - 1 :
             getDiff(Differences(from, c), 0, dataBytes, j) = diffInt[from + j + 1]
    BY <2>1, DifferencesData
  <2>3. data = Differences(from, c)
    OBVIOUS
  <2> HIDE DEF data
  <2> QED BY <2>2, <2>3, Zenon
<1>5. from % 256 = from
  OBVIOUS
<1>6. getByDiff(f, offset) = [s \in ss |-> of(s)]
  BY <1>5 DEF getByDiff
<1> HIDE DEF n, b, data
<1>7. cnt = n
  BY <1>2, <1>3, <1>4
<1>8. \A s \in from .. from + n - 1 :
        /\ s - from \in 0 .. n - 1 /\ from + (s - from) + 1 = s + 1
        /\ s + 1 \in 1 .. Len(diffInt) /\ s \in 0 .. sensors - 1 /\ s < Len(value.base)
  <2> DEFINE l == Len(diffInt)
             m == Len(value.base)
             k == sensors
  <2>1. l \in 0 .. 28 /\ l <= k /\ l <= m /\ m \in Nat /\ k \in 0 .. 28 /\ (n > 0 => from + n <= l)
    BY <1>1, <1>2
  <2> HIDE DEF l, m, k
  <2>2. \A s \in from .. from + n - 1 :
          /\ s - from \in 0 .. n - 1 /\ from + (s - from) + 1 = s + 1
          /\ s + 1 \in 1 .. l /\ s \in 0 .. k - 1 /\ s < m
    BY <1>2, <2>1
  <2> QED BY <2>2 DEF l, m, k
<1> HIDE DEF cnt
<1>9. ss = from .. from + n - 1
  BY <1>7, <1>8
<1> HIDE DEF ss
<1>10. ASSUME NEW s \in from .. from + n - 1
       PROVE  of(s) = double_2_TEMPERATURE_2_BYTES(temperature[s + 1])
  <2>1. getDiff(data, 0, b, s - from) = diffInt[s + 1]
    BY <1>4, <1>8
  <2> QED BY <1>1, <1>8, <2>1
<1> HIDE DEF of
<1> QED BY <1>6, <1>8, <1>9, <1>10 DEF n

-----------------------------------------------------------------------------
(* The frames of differences, and how they arrive.                         *)

(* The first frame is full: build() grows one that is not (366).           *)
FirstIsFull == 6 \div dataBytes <= Len(diffInt)

DeltaFits == Kind = "delta" /\ FirstIsFull

DeltaPackets == SecondPackets(Len(diffInt)) + 1

(* The differences of the i-th frame: how many come before, and how many   *)
(* there is room for.                                                      *)
DeltaFrom(i)  == IF i = 1 THEN 0 ELSE (6 + (i - 2) * 20) \div dataBytes
DeltaCount(i) == IF i = 1 THEN 6 \div dataBytes ELSE 20 \div dataBytes
DeltaData(i)  == Differences(DeltaFrom(i), DeltaCount(i))

(* The i-th frame build() makes.                                           *)
DeltaFrame(i) ==
  IF i = 1 THEN Over(FirstHeader, [data |-> DeltaData(1), size |-> MaxFrame])
  ELSE Over(SecondHeader(i), [data |-> DeltaData(i), size |-> 4 + Len(DeltaData(i))])

DeltaFrames == {DeltaFrame(i) : i \in 1 .. DeltaPackets}

LEMMA DeltaNumbers ==
  ASSUME Calculated, FirstIsFull
  PROVE  /\ dataBytes \in {1, 2} /\ DeltaPackets \in 1 .. 5
         /\ SecondPackets(Len(diffInt)) \in Nat
         /\ \A i \in 1 .. DeltaPackets :
              /\ DeltaFrom(i) \in 0 .. 255 /\ DeltaCount(i) \in 1 .. 20
              /\ DeltaFrom(i) \in Nat /\ DeltaCount(i) \in Nat
              /\ DeltaCount(i) * dataBytes = IF i = 1 THEN 6 ELSE 20
         /\ \A s \in 0 .. Len(diffInt) - 1 : \E i \in 1 .. DeltaPackets :
              DeltaFrom(i) <= s /\ s < DeltaFrom(i) + DeltaCount(i)
<1> DEFINE l == Len(diffInt)
           b == dataBytes
           first == 6 \div b
           rest == l - Min({first, l})
           full == (rest * b) \div 20
<1>1. l \in 0 .. 28 /\ b \in {1, 2} /\ first <= l
  BY DeltasType DEF dataBytes, bytesRequiredForBits, FirstIsFull
<1> DEFINE more == IF rest > (full * 20) \div b THEN full + 1 ELSE full
<1>2. DeltaPackets = more + 1 /\ SecondPackets(Len(diffInt)) = more
  BY DEF DeltaPackets, SecondPackets
<1>3. \A i : /\ DeltaFrom(i) = IF i = 1 THEN 0 ELSE (6 + (i - 2) * 20) \div b
             /\ DeltaCount(i) = IF i = 1 THEN first ELSE 20 \div b
  BY DEF DeltaFrom, DeltaCount
<1> HIDE DEF l, b
<1>4. first \in {3, 6} /\ first * b = 6 /\ rest = l - first
  <2>1. first \in {3, 6} /\ first * b = 6
    BY <1>1
  <2> HIDE DEF first
  <2>2. Min({first, l}) = first
    BY <1>1, <2>1, MinOfTwo
  <2> QED BY <2>1, <2>2
<1>5. CASE b = 1
  <2>1. first = 6 /\ rest = l - 6
    BY <1>4, <1>5
  <2>2. rest \in 0 .. 22
    BY <1>1, <2>1
  <2>3. full = rest \div 20
    BY <1>5, <2>2
  <2> HIDE DEF rest, full, first
  <2>4. full \in 0 .. 1 /\ (full = 0 => rest < 20) /\ (full = 1 => rest >= 20) /\ (full * 20) \div b = full * 20
    BY <1>5, <2>2, <2>3
  <2>5. DeltaPackets \in 1 .. 3 /\ (DeltaPackets = 1 => rest = 0) /\ (DeltaPackets = 2 => rest <= 20)
    BY <1>2, <2>2, <2>4
  <2>6. \A i \in 1 .. DeltaPackets :
          /\ DeltaFrom(i) = IF i = 1 THEN 0 ELSE 6 + (i - 2) * 20
          /\ DeltaCount(i) = IF i = 1 THEN 6 ELSE 20
    BY <1>3, <1>5, <2>1, <2>5
  <2>7. \A s \in 0 .. l - 1 : \E i \in 1 .. DeltaPackets :
          DeltaFrom(i) <= s /\ s < DeltaFrom(i) + DeltaCount(i)
    <3> SUFFICES ASSUME NEW s \in 0 .. l - 1
                 PROVE  \E i \in 1 .. DeltaPackets :
                          DeltaFrom(i) <= s /\ s < DeltaFrom(i) + DeltaCount(i)
      OBVIOUS
    <3>1. CASE s < 6
      <4>1. 1 \in 1 .. DeltaPackets /\ DeltaFrom(1) = 0 /\ DeltaCount(1) = 6
        BY <2>5, <2>6
      <4> QED BY <1>1, <3>1, <4>1
    <3>2. CASE s >= 6 /\ s < 26
      <4>1. 2 \in 1 .. DeltaPackets
        BY <1>1, <2>1, <2>5, <3>2
      <4>2. DeltaFrom(2) = 6 /\ DeltaCount(2) = 20
        BY <2>6, <4>1
      <4> QED BY <1>1, <3>2, <4>1, <4>2
    <3>3. CASE s >= 26
      <4>1. 3 \in 1 .. DeltaPackets
        BY <1>1, <2>1, <2>5, <3>3
      <4>2. DeltaFrom(3) = 26 /\ DeltaCount(3) = 20
        BY <2>6, <4>1
      <4> QED BY <1>1, <3>3, <4>1, <4>2
    <3> QED BY <1>1, <3>1, <3>2, <3>3
  <2>8. SecondPackets(l) \in Nat
    BY <1>2, <2>2, <2>4 DEF l
  <2>9. \A i \in 1 .. DeltaPackets :
          /\ DeltaFrom(i) \in 0 .. 255 /\ DeltaCount(i) \in 1 .. 20
          /\ DeltaFrom(i) \in Nat /\ DeltaCount(i) \in Nat
          /\ DeltaCount(i) * b = IF i = 1 THEN 6 ELSE 20
    BY <1>5, <2>5, <2>6
  <2>10. b \in {1, 2} /\ DeltaPackets \in 1 .. 5
    BY <1>1, <2>5
  <2> QED BY <2>7, <2>8, <2>9, <2>10 DEF l, b
<1>6. CASE b = 2
  <2>1. first = 3 /\ rest = l - 3
    BY <1>4, <1>6
  <2>2. rest \in 0 .. 25
    BY <1>1, <2>1
  <2>3. full = (rest * 2) \div 20
    BY <1>6, <2>2
  <2> HIDE DEF rest, full, first
  <2>4. /\ full \in 0 .. 2 /\ (full = 0 => rest < 10) /\ (full = 1 => rest >= 10 /\ rest < 20)
        /\ (full = 2 => rest >= 20) /\ (full * 20) \div b = full * 10
    BY <1>6, <2>2, <2>3
  <2>5. /\ DeltaPackets \in 1 .. 4 /\ (DeltaPackets = 1 => rest = 0) /\ (DeltaPackets = 2 => rest <= 10)
        /\ DeltaPackets = 3 => rest <= 20
    BY <1>2, <2>2, <2>4
  <2>6. \A i \in 1 .. DeltaPackets :
          /\ DeltaFrom(i) = IF i = 1 THEN 0 ELSE 3 + (i - 2) * 10
          /\ DeltaCount(i) = IF i = 1 THEN 3 ELSE 10
    BY <1>3, <1>6, <2>1, <2>5
  <2>7. \A s \in 0 .. l - 1 : \E i \in 1 .. DeltaPackets :
          DeltaFrom(i) <= s /\ s < DeltaFrom(i) + DeltaCount(i)
    <3> SUFFICES ASSUME NEW s \in 0 .. l - 1
                 PROVE  \E i \in 1 .. DeltaPackets :
                          DeltaFrom(i) <= s /\ s < DeltaFrom(i) + DeltaCount(i)
      OBVIOUS
    <3>1. CASE s < 3
      <4>1. 1 \in 1 .. DeltaPackets /\ DeltaFrom(1) = 0 /\ DeltaCount(1) = 3
        BY <2>5, <2>6
      <4> QED BY <1>1, <3>1, <4>1
    <3>2. CASE s >= 3 /\ s < 13
      <4>1. 2 \in 1 .. DeltaPackets
        BY <1>1, <2>1, <2>5, <3>2
      <4>2. DeltaFrom(2) = 3 /\ DeltaCount(2) = 10
        BY <2>6, <4>1
      <4> QED BY <1>1, <3>2, <4>1, <4>2
    <3>3. CASE s >= 13 /\ s < 23
      <4>1. 3 \in 1 .. DeltaPackets
        BY <1>1, <2>1, <2>5, <3>3
      <4>2. DeltaFrom(3) = 13 /\ DeltaCount(3) = 10
        BY <2>6, <4>1
      <4> QED BY <1>1, <3>3, <4>1, <4>2
    <3>4. CASE s >= 23
      <4>1. 4 \in 1 .. DeltaPackets
        BY <1>1, <2>1, <2>5, <3>4
      <4>2. DeltaFrom(4) = 23 /\ DeltaCount(4) = 10
        BY <2>6, <4>1
      <4> QED BY <1>1, <3>4, <4>1, <4>2
    <3> QED BY <1>1, <3>1, <3>2, <3>3, <3>4
  <2>8. SecondPackets(l) \in Nat
    BY <1>2, <2>2, <2>4 DEF l
  <2>9. \A i \in 1 .. DeltaPackets :
          /\ DeltaFrom(i) \in 0 .. 255 /\ DeltaCount(i) \in 1 .. 20
          /\ DeltaFrom(i) \in Nat /\ DeltaCount(i) \in Nat
          /\ DeltaCount(i) * b = IF i = 1 THEN 6 ELSE 20
    BY <1>6, <2>5, <2>6
  <2>10. b \in {1, 2} /\ DeltaPackets \in 1 .. 5
    BY <1>1, <2>5
  <2> QED BY <2>7, <2>8, <2>9, <2>10 DEF l, b
<1> QED BY <1>1, <1>5, <1>6

(* The measurement stays, and with it all that is calculated from it.      *)
LEMMA SameDifferences ==
  ASSUME value' = value, diffInt' = diffInt, bitsPerSample' = bitsPerSample
  PROVE  /\ Calculated' = Calculated /\ Kind' = Kind /\ sensors' = sensors /\ dataBytes' = dataBytes
         /\ \A from, c : Differences(from, c)' = Differences(from, c)
         /\ FirstHeader' = FirstHeader
         /\ \A n : SecondPackets(n)' = SecondPackets(n)
         /\ WidthSuffices' = WidthSuffices
<1>1. /\ Kind' = Kind /\ sensors' = sensors /\ temperature' = temperature /\ HostSwaps' = HostSwaps
      /\ dataBytes' = dataBytes
  BY DEF Kind, sensors, temperature, HostSwaps, dataBytes
<1>2. \A n : SecondPackets(n)' = SecondPackets(n)
  BY <1>1 DEF SecondPackets
<1>3. PlainPackets' = PlainPackets
  BY <1>1 DEF PlainPackets
<1>4. FirstHeader' = FirstHeader
  BY <1>1, <1>2, <1>3 DEF FirstHeader
<1>5. Deltas' = Deltas
  BY <1>1 DEF Deltas, double_2_TEMPERATURE_2_BYTES
<1>6. MaxDiff' = MaxDiff
  BY DEF MaxDiff, FoldLeft, MapThenFoldSet
<1>7. Calculated' = Calculated
  BY <1>5, <1>6 DEF Calculated, calcDeltas
<1>8. ASSUME NEW from, NEW c
      PROVE  Differences(from, c)' = Differences(from, c)
  BY <1>1 DEF Differences
<1>9. WidthSuffices' = WidthSuffices
  BY <1>1 DEF WidthSuffices
<1> QED BY <1>1, <1>2, <1>4, <1>7, <1>8, <1>9

LEMMA SameDeltaFrames ==
  ASSUME value' = value, diffInt' = diffInt, bitsPerSample' = bitsPerSample
  PROVE  /\ DeltaFits' = DeltaFits /\ DeltaPackets' = DeltaPackets /\ DeltaFrames' = DeltaFrames
         /\ \A i : DeltaFrame(i)' = DeltaFrame(i)
<1>1. /\ Kind' = Kind /\ dataBytes' = dataBytes /\ WidthSuffices' = WidthSuffices
      /\ FirstHeader' = FirstHeader
      /\ \A from, c : Differences(from, c)' = Differences(from, c)
      /\ \A n : SecondPackets(n)' = SecondPackets(n)
  BY SameDifferences
<1>2. DeltaFits' = DeltaFits
  BY <1>1 DEF DeltaFits, FirstIsFull
<1>3. DeltaPackets' = DeltaPackets
  BY <1>1 DEF DeltaPackets
<1>4. ASSUME NEW i
      PROVE  DeltaFrame(i)' = DeltaFrame(i)
  <2>1. DeltaData(i)' = DeltaData(i) /\ DeltaData(1)' = DeltaData(1)
    BY <1>1 DEF DeltaData, DeltaFrom, DeltaCount
  <2> QED BY <1>1, <2>1 DEF DeltaFrame, SecondHeader, MaxFrame
<1>5. DeltaFrames' = DeltaFrames
  BY <1>3, <1>4 DEF DeltaFrames
<1> QED BY <1>2, <1>3, <1>4, <1>5

(* The fields of a frame; LoggerItem::set() cuts nothing off.              *)
LEMMA DeltaFields ==
  ASSUME Calculated, DeltaFits, NEW i \in 1 .. DeltaPackets
  PROVE  LET f == DeltaFrame(i)
         IN  /\ f.packet = i /\ f.data = DeltaData(i) /\ set(f) = f
             /\ i = 1 => f.bits = bitsPerSample /\ f.size = MaxFrame
             /\ i # 1 => f.size = 4 + Len(f.data) /\ Len(f.data) <= 20
             /\ i = 1 => DeltaData(1) \in Seq(Byte) /\ Len(DeltaData(1)) = 6
<1> DEFINE d == DeltaData(i)
           n == DiffsTaken(DeltaFrom(i), DeltaCount(i))
<1>1. /\ dataBytes \in {1, 2} /\ DeltaPackets \in 1 .. 5
      /\ DeltaFrom(i) \in 0 .. 255 /\ DeltaCount(i) \in 1 .. 20
      /\ DeltaCount(i) * dataBytes = IF i = 1 THEN 6 ELSE 20
  BY DeltaNumbers DEF DeltaFits
<1>2. DeltaFrom(i) \in Nat /\ DeltaCount(i) \in Nat /\ Len(diffInt) \in Nat
  <2>1. Len(diffInt) \in Nat
    BY DeltasType
  <2>2. DeltaFrom(i) \in Nat /\ DeltaCount(i) \in Nat
    BY DeltaNumbers DEF DeltaFits
  <2> QED BY <2>1, <2>2
<1>3. d \in Seq(Byte) /\ Len(d) = n * dataBytes
  BY <1>2, DifferencesData DEF DeltaFits, DeltaData
<1>4. n \in 0 .. DeltaCount(i) /\ (DeltaFrom(i) + DeltaCount(i) <= Len(diffInt) => n = DeltaCount(i))
  BY <1>2, DiffsTakenType
<1> HIDE DEF n
<1>5. CASE i = 1
  <2>1. n = DeltaCount(i)
    BY <1>2, <1>4, <1>5 DEF DeltaFits, FirstIsFull, DeltaFrom, DeltaCount
  <2>2. Len(d) = 6
    BY <1>1, <1>3, <1>5, <2>1
  <2> HIDE DEF d
  <2>3. DeltaFrame(i) = Over(FirstHeader, [data |-> d, size |-> MaxFrame])
    BY <1>5 DEF DeltaFrame, d
  <2> DEFINE f == DeltaFrame(i)
  <2>4. f.packet = i /\ f.data = d /\ f.size = MaxFrame /\ f.bits = bitsPerSample
    BY <1>5, <2>3 DEF Over, FirstHeader, DeltaFits
  <2>5. f = [x \in DOMAIN f |-> f[x]]
    BY <2>3 DEF Over
  <2>6. SubSeq(f.data, 1, Min({Len(f.data), 6})) = d
    <3>1. Min({6, 6}) = 6
      BY MinOfTwo
    <3>2. SubSeq(d, 1, 6) = d
      <4>1. d \in Seq(Byte)
        BY <1>3 DEF d
      <4>2. SubSeq(d, 1, Len(d)) = d
        BY ONLY <4>1
      <4> QED BY <2>2, <4>2
    <3> QED BY <2>2, <2>4, <3>1, <3>2
  <2>7. Min({f.size, MaxFrame}) = f.size
    <3>1. Min({24, 24}) = 24
      BY MinOfTwo
    <3> QED BY <2>4, <3>1 DEF MaxFrame
  <2> HIDE DEF f
  <2>8. [f EXCEPT !.data = SubSeq(@, 1, Min({Len(@), 6})), !.size = Min({@, MaxFrame})] = f
    BY <2>4, <2>5, <2>6, <2>7
  <2>9. set(f) = f
    BY <2>4, <1>5, <2>8 DEF set, IsFirst, DeltaFits
  <2> QED BY <1>3, <1>5, <2>2, <2>4, <2>9 DEF d, f
<1>6. CASE i # 1
  <2>1. n * dataBytes <= 20
    BY <1>1, <1>4, <1>6
  <2> DEFINE m == 4 + Len(d)
  <2> HIDE DEF d, m
  <2>2. DeltaFrame(i) = Over([packet |-> i], [data |-> d, size |-> m])
    BY <1>6 DEF DeltaFrame, SecondHeader, d, m
  <2> DEFINE f == DeltaFrame(i)
  <2>3. f.packet = i /\ f.data = d /\ f.size = m
    BY <2>2 DEF Over
  <2>4. set(f) = f
    BY <1>6, <2>3 DEF set, IsFirst
  <2> QED BY <1>3, <1>6, <2>1, <2>3, <2>4 DEF d, f, m
<1> QED BY <1>5, <1>6

DeltaPhases ==
  \/ phase = "first" /\ Len(retVal) = 0 /\ ofs = 0
  \/ phase = "second" /\ ofs \in 0 .. DeltaPackets - 1 /\ Len(retVal) = ofs + 1
  \/ phase = "built" /\ Len(retVal) = DeltaPackets

(* The frames built are the first ones of the measurement.                 *)
DeltaBuilt ==
  /\ retVal \in Seq(DeltaFrames) /\ Len(retVal) <= DeltaPackets
  /\ \A i \in DOMAIN retVal : retVal[i] = DeltaFrame(i)

(* Those that have arrived are of them, each once.                         *)
DeltaArrived ==
  /\ phase # "built" => items = <<>>
  /\ EachOnce(DeltaFrames)

DeltaInv == Calculated /\ (DeltaFits => DeltaPhases /\ DeltaBuilt /\ DeltaArrived)

LEMMA DeltaInvInit == Init => DeltaInv
<1> SUFFICES ASSUME Init
             PROVE  DeltaInv
  OBVIOUS
<1>1. Calculated /\ retVal = <<>> /\ ofs = 0 /\ phase = "first" /\ items = <<>>
  BY DEF Init, BuilderInit, Calculated
<1>2. SUFFICES ASSUME DeltaFits
               PROVE  DeltaPhases /\ DeltaBuilt /\ DeltaArrived
  BY <1>1 DEF DeltaInv
<1>3. DeltaPackets \in 1 .. 5
  BY <1>1, <1>2, DeltaNumbers DEF DeltaFits
<1>4. DeltaPhases
  BY <1>1 DEF DeltaPhases
<1>5. DeltaBuilt
  BY <1>1, <1>3 DEF DeltaBuilt
<1>6. DeltaArrived
  BY <1>1 DEF DeltaArrived, EachOnce
<1> QED BY <1>4, <1>5, <1>6

(* A frame is pushed: the next one of the measurement.                     *)
LEMMA DeltaPushed ==
  ASSUME DeltaBuilt, Len(retVal) + 1 \in 1 .. DeltaPackets,
         retVal' = Append(retVal, DeltaFrame(Len(retVal) + 1)),
         value' = value, diffInt' = diffInt, bitsPerSample' = bitsPerSample
  PROVE  DeltaBuilt' /\ Len(retVal') = Len(retVal) + 1
<1> DEFINE n == Len(retVal)
           S == DeltaFrames
           f == DeltaFrame(n + 1)
           t == Append(retVal, f)
<1>1. retVal \in Seq(S) /\ n \in Nat /\ n <= DeltaPackets /\ \A i \in 1 .. n : retVal[i] = DeltaFrame(i)
  BY DEF DeltaBuilt
<1>2. f \in S
  BY DEF DeltaFrames
<1>3. retVal' = t
  OBVIOUS
<1> HIDE DEF S, f
<1>4. /\ t \in Seq(S) /\ Len(t) = n + 1 /\ DOMAIN t = 1 .. n + 1 /\ t[n + 1] = f
      /\ \A i \in 1 .. n : t[i] = retVal[i]
      /\ \A i \in 1 .. n + 1 : i \in 1 .. n \/ i = n + 1
  BY <1>1, <1>2, Appended
<1> HIDE DEF t
<1>5. \A i \in 1 .. n + 1 : t[i] = DeltaFrame(i)
  BY <1>1, <1>4 DEF f
<1>6. DeltaFrames' = S /\ DeltaPackets' = DeltaPackets /\ \A i : DeltaFrame(i)' = DeltaFrame(i)
  BY SameDeltaFrames DEF S
<1>7. n + 1 <= DeltaPackets
  BY <1>1
<1> QED BY <1>3, <1>4, <1>5, <1>6, <1>7 DEF DeltaBuilt

LEMMA DeltaInvStep == DeltaInv /\ [Next]_vars => DeltaInv'
<1> SUFFICES ASSUME DeltaInv, [Next]_vars
             PROVE  DeltaInv'
  OBVIOUS
<1>1. value' = value /\ diffInt' = diffInt /\ bitsPerSample' = bitsPerSample
  BY DEF vars, Next, Build, PlainFirst, PlainSecond, DeltaFirst, DeltaSecond, endBuild,
     HuffmanFirst, HuffmanSecond, endHuffmanChunk, Put, builderVars
<1>2. /\ Calculated' = Calculated
      /\ DeltaFits' = DeltaFits /\ DeltaPackets' = DeltaPackets /\ DeltaFrames' = DeltaFrames
      /\ \A i : DeltaFrame(i)' = DeltaFrame(i)
  BY <1>1, SameDifferences, SameDeltaFrames
<1>3. Calculated /\ Calculated'
  BY <1>2 DEF DeltaInv
<1>4. SUFFICES ASSUME DeltaFits
               PROVE  DeltaPhases' /\ DeltaBuilt' /\ DeltaArrived'
  BY <1>2, <1>3 DEF DeltaInv
<1>5. DeltaPhases /\ DeltaBuilt /\ DeltaArrived /\ Kind = "delta"
  BY <1>4 DEF DeltaInv, DeltaFits
<1>6. /\ Len(retVal) \in Nat /\ DeltaPackets \in 1 .. 5
      /\ SecondPackets(Len(diffInt)) = DeltaPackets - 1
      /\ dataBytes \in {1, 2}
  <2>1. DeltaPackets \in 1 .. 5 /\ SecondPackets(Len(diffInt)) \in Nat /\ dataBytes \in {1, 2}
    BY <1>3, <1>4, DeltaNumbers DEF DeltaFits
  <2>2. Len(retVal) \in Nat
    BY <1>5 DEF DeltaBuilt
  <2> QED BY <2>1, <2>2 DEF DeltaPackets
<1>7. CASE UNCHANGED vars
  <2>1. retVal' = retVal /\ ofs' = ofs /\ phase' = phase /\ items' = items
    BY <1>7 DEF vars, builderVars
  <2> QED BY <1>2, <1>5, <2>1 DEF DeltaPhases, DeltaBuilt, DeltaArrived, EachOnce
<1>8. CASE DeltaFirst /\ UNCHANGED items
  <2>1. /\ phase = "first" /\ Len(retVal) = 0 /\ ofs = 0 /\ items = <<>>
        /\ phase' = "second" /\ ofs' = ofs /\ items' = items
    BY <1>5, <1>8 DEF DeltaFirst, DeltaPhases, DeltaArrived
  <2>2. ~(6 \div dataBytes > Len(diffInt))
    <3>1. Len(diffInt) \in Nat /\ 6 \div dataBytes \in Nat
      BY <1>3, <1>6, DeltasType
    <3> QED BY <1>4, <3>1 DEF DeltaFits, FirstIsFull
  <2>3. retVal' = Append(retVal, Over(FirstHeader,
                    [data |-> Resized(DeltaData(1), 6), size |-> MaxFrame]))
    <3>1. MaxFrame - 18 = 6
      BY DEF MaxFrame
    <3> QED BY <1>8, <2>2, <3>1 DEF DeltaFirst, Push, DeltaData, DeltaFrom, DeltaCount
  <2>4. 1 \in 1 .. DeltaPackets
    BY <1>6
  <2>5. DeltaData(1) \in Seq(Byte) /\ Len(DeltaData(1)) = 6
    BY <1>3, <1>4, <2>4, DeltaFields
  <2>6. Resized(DeltaData(1), 6) = DeltaData(1)
    BY <2>5, ResizedSame
  <2>7. retVal' = Append(retVal, DeltaFrame(Len(retVal) + 1))
    BY <2>1, <2>3, <2>6 DEF DeltaFrame
  <2>8. DeltaBuilt' /\ Len(retVal') = 1
    BY <1>1, <1>5, <2>1, <2>4, <2>7, DeltaPushed
  <2>9. DeltaPhases'
    BY <1>2, <1>6, <2>1, <2>8 DEF DeltaPhases
  <2> QED BY <2>1, <2>8, <2>9 DEF DeltaArrived, EachOnce
<1>9. CASE DeltaSecond /\ UNCHANGED items
  <2>1. /\ phase = "second" /\ ofs \in 0 .. DeltaPackets - 1 /\ Len(retVal) = ofs + 1
        /\ items = <<>> /\ phase' = "second" /\ ofs' = ofs + 1 /\ items' = items
        /\ ofs < DeltaPackets - 1
    BY <1>5, <1>6, <1>9 DEF DeltaSecond, DeltaPhases, DeltaArrived
  <2> DEFINE i == ofs + 2
  <2>2. /\ i \in 1 .. DeltaPackets /\ i # 1 /\ i = Len(retVal) + 1
        /\ 6 + (i - 2) * 20 = 6 + ofs * 20
    BY <1>6, <2>1
  <2>3. DeltaData(i) = Differences((6 + ofs * 20) \div dataBytes, 20 \div dataBytes)
    BY <2>2 DEF DeltaData, DeltaFrom, DeltaCount
  <2>4. retVal' = Append(retVal, DeltaFrame(i))
    BY <1>9, <2>2, <2>3 DEF DeltaSecond, Push, DeltaFrame
  <2> HIDE DEF i
  <2>5. DeltaBuilt' /\ Len(retVal') = Len(retVal) + 1
    BY <1>1, <1>5, <2>2, <2>4, DeltaPushed
  <2>6. DeltaPhases'
    BY <1>2, <1>6, <2>1, <2>5 DEF DeltaPhases
  <2> QED BY <2>1, <2>5, <2>6 DEF DeltaArrived, EachOnce
<1>10. CASE endBuild /\ UNCHANGED items
  <2>1. /\ phase = "second" /\ ofs = DeltaPackets - 1 /\ Len(retVal) = ofs + 1 /\ items = <<>>
        /\ phase' = "built" /\ retVal' = retVal /\ items' = items
    BY <1>5, <1>6, <1>10 DEF endBuild, DeltaPhases, DeltaArrived
  <2>2. DeltaPhases'
    BY <1>2, <1>6, <2>1 DEF DeltaPhases
  <2> QED BY <1>2, <1>5, <2>1, <2>2 DEF DeltaBuilt, DeltaArrived, EachOnce
<1>11. CASE Put
  <2>1. phase = "built" /\ UNCHANGED <<retVal, phase, ofs>>
    BY <1>11 DEF Put, builderVars
  <2>2. PICK f \in Range(retVal) : f.packet \notin Arrived /\ items' = Append(items, set(f))
    BY <1>11 DEF Put
  <2>3. f \in DeltaFrames
    BY <1>5, <2>2 DEF DeltaBuilt, Range
  <2>4. set(f) = f
    BY <1>3, <1>4, <2>3, DeltaFields DEF DeltaFrames
  <2> DEFINE S == DeltaFrames
  <2>5. EachOnce(S) /\ f \in S /\ items' = Append(items, f)
    BY <1>5, <2>2, <2>3, <2>4 DEF DeltaArrived
  <2> HIDE DEF S
  <2>6. /\ items' \in Seq(S)
        /\ \A j, k \in DOMAIN items' : items'[j].packet = items'[k].packet => j = k
    BY <2>2, <2>5, PutKeepsEachOnce
  <2>7. DeltaArrived'
    BY <1>2, <2>1, <2>6 DEF DeltaArrived, EachOnce, S
  <2>8. DeltaPhases' /\ DeltaBuilt'
    BY <1>2, <1>5, <2>1 DEF DeltaPhases, DeltaBuilt
  <2> QED BY <2>7, <2>8
<1> QED BY <1>5, <1>7, <1>8, <1>9, <1>10, <1>11 DEF Next, Build, PlainFirst, PlainSecond,
        HuffmanFirst, HuffmanSecond, endHuffmanChunk

LEMMA DeltaInvariant == Spec => []DeltaInv
BY DeltaInvInit, DeltaInvStep, PTL DEF Spec

-----------------------------------------------------------------------------
(* The bytes of the Huffman frames that come before.                       *)

(* The function MapThenSumSet() is defined with.                           *)
BytesIter(S) ==
  CHOOSE g : g = [s \in SUBSET S |->
                    IF s = {} THEN 0
                    ELSE Len((CHOOSE x \in s : TRUE).data) + g[s \ {CHOOSE x \in s : TRUE}]]

Before(packet) == {f \in Range(items) : Kind = "huffman" /\ f.packet < packet}

LEMMA OffsetUnfolds ==
  ASSUME NEW packet
  PROVE  getHuffmanPacketMeasurementOffset(packet) = BytesIter(Before(packet))[Before(packet)]
BY DEF getHuffmanPacketMeasurementOffset, MapThenSumSet, MapThenFoldSet, BytesIter, Before

LEMMA BytesIterUnfolds ==
  ASSUME NEW S, IsFiniteSet(S)
  PROVE  /\ BytesIter(S)[{}] = 0
         /\ \A s \in SUBSET S : s # {} =>
              \E x \in s : BytesIter(S)[s] = Len(x.data) + BytesIter(S)[s \ {x}]
<1> DEFINE n == Cardinality(S)
           X(s) == CHOOSE x \in s : TRUE
           V(s) == Len(X(s).data)
           W(s) == s \ {X(s)}
           Is(g, m) == \A s \in SUBSET S : Cardinality(s) <= m =>
                         g[s] = IF s = {} THEN 0 ELSE V(s) + g[W(s)]
           T == {m \in Nat : \E g : Is(g, m)}
           F(g) == [s \in SUBSET S |-> IF s = {} THEN 0 ELSE V(s) + g[W(s)]]
<1>1. n \in Nat /\ \A s \in SUBSET S : Cardinality(s) \in Nat /\ Cardinality(s) <= n
  BY FS_CardinalityType, FS_Subset
<1>2. ASSUME NEW s \in SUBSET S, s # {}
      PROVE  X(s) \in s /\ W(s) \in SUBSET S /\ Cardinality(W(s)) = Cardinality(s) - 1
  <2>1. X(s) \in s
    BY <1>2
  <2>2. IsFiniteSet(s)
    BY FS_Subset
  <2> HIDE DEF X
  <2>3. Cardinality(s \ {X(s)}) = Cardinality(s) - 1
    BY <2>1, <2>2, FS_RemoveElement
  <2> QED BY <2>1, <2>3
<1>3. {} \in SUBSET S /\ \A s \in SUBSET S : Cardinality(s) <= 0 => s = {}
  <2>1. \A s \in SUBSET S : IsFiniteSet(s)
    BY FS_Subset
  <2>2. \A s \in SUBSET S : Cardinality(s) = 0 => s = {}
    BY <2>1, FS_EmptySet
  <2> QED BY <1>1, <2>2
<1> HIDE DEF V, W, X
<1>4. 0 \in T
  <2> DEFINE e == [s \in SUBSET S |-> 0]
  <2>1. Is(e, 0)
    BY <1>3
  <2> QED BY <2>1
<1>5. ASSUME NEW m \in T
      PROVE  m + 1 \in T
  <2>1. m \in Nat /\ m + 1 \in Nat
    BY <1>5
  <2>2. PICK g : Is(g, m)
    BY <1>5
  <2> DEFINE h == F(g)
  <2>3. \A s \in SUBSET S : h[s] = IF s = {} THEN 0 ELSE V(s) + g[W(s)]
    OBVIOUS
  <2> HIDE DEF h
  <2>4. \A s \in SUBSET S : Cardinality(s) <= m => h[s] = g[s]
    BY <2>2, <2>3
  <2>5. \A s \in SUBSET S : s # {} /\ Cardinality(s) <= m + 1 => h[W(s)] = g[W(s)]
    <3> SUFFICES ASSUME NEW s \in SUBSET S, s # {}, Cardinality(s) <= m + 1
                 PROVE  h[W(s)] = g[W(s)]
      OBVIOUS
    <3>1. W(s) \in SUBSET S /\ Cardinality(W(s)) = Cardinality(s) - 1 /\ Cardinality(s) \in Nat
      BY <1>1, <1>2
    <3>2. Cardinality(W(s)) <= m
      BY <2>1, <3>1
    <3> QED BY <2>4, <3>1, <3>2
  <2>6. Is(h, m + 1)
    <3> SUFFICES ASSUME NEW s \in SUBSET S, Cardinality(s) <= m + 1
                 PROVE  h[s] = IF s = {} THEN 0 ELSE V(s) + h[W(s)]
      OBVIOUS
    <3> QED BY <2>3, <2>5
  <2> QED BY <2>1, <2>6
<1>6. T \in SUBSET Nat
  OBVIOUS
<1> HIDE DEF T
<1>7. T = Nat
  BY ONLY <1>4, <1>5, <1>6, SetInduction
<1>8. PICK g : Is(g, n)
  BY <1>1, <1>7 DEF T
<1> DEFINE h == F(g)
<1>9. h = F(h)
  <2>1. \A s \in SUBSET S : h[s] = IF s = {} THEN 0 ELSE V(s) + g[W(s)]
    OBVIOUS
  <2>2. \A s \in SUBSET S : h[s] = g[s]
    BY <1>1, <1>8, <2>1
  <2> HIDE DEF h
  <2>3. \A s \in SUBSET S : s # {} => h[W(s)] = g[W(s)]
    BY <1>2, <2>2
  <2>4. h = [s \in SUBSET S |-> IF s = {} THEN 0 ELSE V(s) + g[W(s)]]
    BY DEF h
  <2> QED BY <2>3, <2>4
<1>10. BytesIter(S) = CHOOSE f : f = F(f)
  BY DEF BytesIter, V, W, X
<1>11. BytesIter(S) = F(BytesIter(S))
  <2> HIDE DEF F
  <2> QED BY <1>9, <1>10
<1>12. \A s \in SUBSET S :
         BytesIter(S)[s] = IF s = {} THEN 0 ELSE V(s) + BytesIter(S)[W(s)]
  BY <1>11
<1>13. ASSUME NEW s \in SUBSET S, s # {}
       PROVE  \E x \in s : BytesIter(S)[s] = Len(x.data) + BytesIter(S)[s \ {x}]
  <2>1. X(s) \in s /\ BytesIter(S)[s] = V(s) + BytesIter(S)[W(s)]
    BY <1>2, <1>12, <1>13
  <2>2. V(s) = Len(X(s).data) /\ W(s) = s \ {X(s)}
    BY DEF V, W
  <2> QED BY <2>1, <2>2
<1> QED BY <1>3, <1>12, <1>13

(* Of other frames there are none.                                         *)
LEMMA NoOffset ==
  ASSUME NEW packet, Kind # "huffman" \/ \A f \in Range(items) : ~(f.packet < packet)
  PROVE  getHuffmanPacketMeasurementOffset(packet) = 0
<1>1. Before(packet) = {}
  BY DEF Before
<1>2. IsFiniteSet({})
  BY FS_EmptySet
<1> QED BY <1>1, <1>2, OffsetUnfolds, BytesIterUnfolds

-----------------------------------------------------------------------------
(* Theorems of the frames of differences.                                  *)

(* Every frame of differences is at most 24 bytes long, if the first one   *)
(* is full.                                                                *)
THEOREM DeltaFramesFit == Spec => [](DeltaFits => FramesFit)
<1>1. DeltaInv => (DeltaFits => FramesFit)
  <2> SUFFICES ASSUME DeltaInv, DeltaFits, NEW f \in Range(retVal)
               PROVE  f.size <= MaxFrame
    BY DEF FramesFit
  <2>1. Calculated /\ retVal \in Seq(DeltaFrames)
    BY DEF DeltaInv, DeltaBuilt
  <2>2. PICK i \in 1 .. DeltaPackets : f = DeltaFrame(i)
    BY <2>1 DEF DeltaFrames, Range
  <2>3. CASE i = 1
    BY <2>1, <2>2, <2>3, DeltaFields DEF MaxFrame
  <2>4. CASE i # 1
    <3>1. f.size = 4 + Len(f.data) /\ Len(f.data) <= 20
      BY <2>1, <2>2, <2>4, DeltaFields
    <3>2. f.data \in Seq(Byte)
      <4>1. DeltaFrom(i) \in Nat /\ DeltaCount(i) \in Nat
        BY <2>1, DeltaNumbers DEF DeltaFits
      <4>2. f.data = Differences(DeltaFrom(i), DeltaCount(i))
        BY <2>1, <2>2, DeltaFields DEF DeltaData
      <4> QED BY <2>1, <4>1, <4>2, DifferencesData DEF DeltaFits
    <3>3. Len(f.data) \in Nat
      BY <3>2
    <3> QED BY <3>1, <3>3 DEF MaxFrame
  <2> QED BY <2>3, <2>4
<1> QED BY <1>1, DeltaInvariant, PTL

(* What is read of a frame once the width of its differences is known.     *)
LEMMA DeltaFrameRead ==
  ASSUME DeltaInv, DeltaFits, WidthSuffices, WidthIsKnown, NEW i \in 1 .. DeltaPackets
  PROVE  LET r == ValuesOf(DeltaFrame(i))
             n == DiffsTaken(DeltaFrom(i), DeltaCount(i))
         IN  /\ DOMAIN r = DeltaFrom(i) .. DeltaFrom(i) + n - 1
             /\ \A s \in DeltaFrom(i) .. DeltaFrom(i) + n - 1 :
                  /\ s \in 0 .. sensors - 1
                  /\ r[s] = double_2_TEMPERATURE_2_BYTES(temperature[s + 1])
<1> DEFINE f == DeltaFrame(i)
           from == DeltaFrom(i)
           c == DeltaCount(i)
           offset == IF i = 1 THEN 0 ELSE 6 + (i - 2) * 20
<1>1. Calculated /\ Kind = "delta" /\ items \in Seq(DeltaFrames)
  BY DEF DeltaInv, DeltaFits, DeltaArrived, EachOnce
<1>2. /\ f.packet = i /\ f.data = Differences(from, c)
      /\ \A k \in 1 .. DeltaPackets : IsFirst(DeltaFrame(k)) => DeltaFrame(k).bits = bitsPerSample
  BY <1>1, DeltaFields DEF DeltaData, IsFirst
<1>3. bytesRequiredForBits(getDataBits) = dataBytes
  <2>1. \A x \in Range(items) : IsFirst(x) => x.bits = bitsPerSample
    BY <1>1, <1>2 DEF Range, DeltaFrames
  <2> QED BY <1>1, <2>1, DataBits
<1>4. dataBytes \in {1, 2} /\ DeltaPackets \in 1 .. 5 /\ from \in 0 .. 255
  <2>1. dataBytes \in {1, 2} /\ DeltaPackets \in 1 .. 5
    BY <1>1, DeltaNumbers DEF DeltaFits
  <2>2. from \in 0 .. 255
    BY <1>1, DeltaNumbers DEF DeltaFits
  <2> QED BY <2>1, <2>2
<1>5. c \in Nat
  <2>1. c \in 1 .. 20
    BY <1>1, DeltaNumbers DEF DeltaFits
  <2> HIDE DEF c
  <2> QED BY <2>1
<1>6. offset \in Nat /\ offset \div dataBytes = from /\ (offset # 0 \/ IsFirst(f))
  <2>1. CASE i = 1
    <3>1. 0 \div dataBytes = 0
      BY <1>4
    <3> QED BY <1>2, <2>1, <3>1 DEF DeltaFrom, IsFirst
  <2>2. CASE i # 1
    <3>1. offset \in Nat /\ offset # 0
      BY <1>4, <2>2
    <3> QED BY <2>2, <3>1 DEF DeltaFrom
  <2> QED BY <2>1, <2>2
<1>7. Offset(f) = offset
  <2>1. CASE i = 1
    BY <1>1, <1>2, <2>1, NoOffset DEF Offset, IsFirst
  <2>2. CASE i # 1
    BY <1>1, <1>2, <2>2 DEF Offset, IsFirst
  <2> QED BY <2>1, <2>2
<1>8. ValuesOf(f) = getByDiff(f, offset)
  BY <1>1, <1>7 DEF ValuesOf, ItemValues
<1> HIDE DEF f, from, c, offset
<1>9. f.data = Differences(from, c) /\ from \in 0 .. 255 /\ Calculated /\ WidthSuffices
  BY <1>1, <1>2, <1>4, Zenon
<1>10. /\ DOMAIN getByDiff(f, offset) = from .. from + DiffsTaken(from, c) - 1
       /\ \A s \in from .. from + DiffsTaken(from, c) - 1 :
            /\ s \in 0 .. sensors - 1
            /\ getByDiff(f, offset)[s] = double_2_TEMPERATURE_2_BYTES(temperature[s + 1])
  <2>1. offset \in Nat /\ offset \div dataBytes = from
    BY <1>6
  <2>2. offset # 0 \/ IsFirst(f)
    BY <1>6
  <2>3. HoldsDiffs(f, offset, from, c)
    BY <1>3, <1>5, <1>9, <2>1, <2>2 DEF HoldsDiffs
  <2>4. DiffsAreRead(f, offset, from, c)
    BY ONLY <2>3, GetByDiffReads
  <2> QED BY <2>4 DEF DiffsAreRead
<1> QED BY <1>8, <1>10, Zenon DEF f, from, c

LEMMA DeltaRead ==
  ASSUME DeltaInv, DeltaFits, WidthSuffices, WidthIsKnown
  PROVE  IsMeasured(get)
<1>1. Calculated /\ items \in Seq(DeltaFrames)
  BY DEF DeltaInv, DeltaArrived, EachOnce
<1>2. ASSUME NEW s \in DOMAIN get
      PROVE  s \in 0 .. sensors - 1 /\ TEMPERATURE_2_BYTES_2_double(get[s]) = temperature[s + 1]
  <2>1. PICK j \in DOMAIN items : s \in DOMAIN ValuesOf(items[j]) /\ get[s] = ValuesOf(items[j])[s]
    BY <1>1, GetCovers
  <2>2. PICK i \in 1 .. DeltaPackets : items[j] = DeltaFrame(i)
    BY <1>1, <2>1 DEF DeltaFrames
  <2>3. s \in 0 .. sensors - 1 /\ get[s] = double_2_TEMPERATURE_2_BYTES(temperature[s + 1])
    BY <2>1, <2>2, DeltaFrameRead
  <2> QED BY <1>1, <2>3, SensorComesBack DEF Calculated
<1> QED BY <1>2 DEF IsMeasured

(* Whichever frames of differences are missing: what                       *)
(* LoggerCollection::get() reads of a sensor is what that sensor measured, *)
(* in every order of arrival if the differences take one byte each, and in *)
(* every one that begins with the first frame if they take two; where the  *)
(* first frame is full and the differences fit the bytes they are sent in. *)
THEOREM DeltaReadIsMeasured == Spec => [](DeltaFits /\ WidthSuffices => ReadIsMeasured)
<1>1. DeltaInv => (DeltaFits /\ WidthSuffices => ReadIsMeasured)
  BY DeltaRead DEF ReadIsMeasured, Readable, DeltaFits
<1> QED BY <1>1, DeltaInvariant, PTL

(* When all frames of differences to a base of as many sensors have        *)
(* arrived, of two bytes each the first one first, every sensor's          *)
(* temperature is read, and no other.                                      *)
THEOREM DeltaAllIsRead ==
  Spec => [](DeltaFits /\ WidthSuffices /\ Len(value.base) >= sensors => AllIsRead)
<1>1. DeltaInv => (DeltaFits /\ WidthSuffices /\ Len(value.base) >= sensors => AllIsRead)
  <2> SUFFICES ASSUME DeltaInv, DeltaFits, WidthSuffices, Len(value.base) >= sensors,
                      AllArrived, Readable
               PROVE  IsMeasured(get) /\ DOMAIN get = 0 .. sensors - 1
    BY DEF AllIsRead
  <2> DEFINE n == DeltaPackets
             S == DeltaFrames
  <2>1. Calculated /\ EachOnce(S) /\ Len(items) = n /\ n \in 1 .. 5
    BY DeltaNumbers DEF DeltaInv, DeltaArrived, AllArrived, DeltaPhases, DeltaFits
  <2>2. \A f \in S : f.packet \in 1 .. n /\ f = DeltaFrame(f.packet)
    BY <2>1, DeltaFields DEF DeltaFrames
  <2>3. \A i \in 1 .. n : \E j \in DOMAIN items : items[j] = DeltaFrame(i)
    <3> HIDE DEF n, S
    <3>1. \A j \in DOMAIN items : items[j] \in S
      BY <2>1 DEF EachOnce
    <3>2. \A i \in 1 .. n : \E j \in DOMAIN items : items[j].packet = i
      BY <2>1, <2>2, <3>1, EveryFrameArrived
    <3> QED BY <2>2, <3>1, <3>2
  <2>4. WidthIsKnown
    BY DEF Readable, DeltaFits
  <2>5. IsMeasured(get) /\ DOMAIN get \subseteq 0 .. sensors - 1
    BY <2>4, DeltaRead DEF IsMeasured
  <2>6. ASSUME NEW s \in 0 .. sensors - 1
        PROVE  s \in DOMAIN get
    <3>1. s \in 0 .. Len(diffInt) - 1 /\ Len(diffInt) \in Nat
      BY <2>1, DeltasType
    <3>2. PICK i \in 1 .. n : DeltaFrom(i) <= s /\ s < DeltaFrom(i) + DeltaCount(i)
      BY <2>1, <3>1, DeltaNumbers DEF DeltaFits
    <3> DEFINE from == DeltaFrom(i)
               c == DeltaCount(i)
               k == DiffsTaken(from, c)
               l == Len(diffInt)
    <3>4. from \in Nat /\ c \in Nat
      BY <2>1, DeltaNumbers DEF DeltaFits
    <3>5. k \in 0 .. c /\ (k = c \/ from + k >= l)
      <4> HIDE DEF from, c
      <4> QED BY <3>1, <3>4, DiffsTakenType
    <3>6. s \in from .. from + k - 1
      <4> HIDE DEF from, c, k, l
      <4>1. s \in 0 .. l - 1 /\ from <= s /\ s < from + c
        BY <3>1, <3>2 DEF from, c, l
      <4> QED BY <3>1, <3>4, <3>5, <4>1 DEF l
    <3>7. s \in DOMAIN ValuesOf(DeltaFrame(i))
      BY <2>4, <3>6, DeltaFrameRead
    <3>8. PICK j \in DOMAIN items : items[j] = DeltaFrame(i)
      BY <2>3
    <3> QED BY <2>1, <3>7, <3>8, GetCovers DEF EachOnce
  <2> QED BY <2>5, <2>6
<1> QED BY <1>1, DeltaInvariant, PTL

-----------------------------------------------------------------------------
(* The width of the differences.                                           *)

Larger(m, d) == LET a == IF d < 0 THEN -d ELSE d
                IN  IF a > m THEN Int16(a) ELSE m

(* The function FoldLeft() is defined with: the largest magnitude of the   *)
(* differences whose numbers are in s.                                     *)
LargestIter ==
  CHOOSE g : g = [s \in SUBSET DOMAIN diffInt |->
                    IF s = {} THEN 0 ELSE Larger(g[s \ {Max(s)}], diffInt[Max(s)])]

LEMMA MaxDiffUnfolds == MaxDiff = LargestIter[DOMAIN diffInt]
BY DEF MaxDiff, FoldLeft, MapThenFoldSet, LargestIter, Larger

LEMMA LargestIterUnfolds ==
  ASSUME diffInt \in Seq(Shorts)
  PROVE  \A s \in SUBSET DOMAIN diffInt :
           LargestIter[s] = IF s = {} THEN 0 ELSE Larger(LargestIter[s \ {Max(s)}], diffInt[Max(s)])
<1> DEFINE n == Len(diffInt)
           Is(g, m) == g = [s \in SUBSET (1 .. m) |->
                              IF s = {} THEN 0 ELSE Larger(g[s \ {Max(s)}], diffInt[Max(s)])]
           T == {m \in Nat : \E g : Is(g, m)}
<1>1. n \in Nat /\ DOMAIN diffInt = 1 .. n
  OBVIOUS
<1>2. 0 \in T
  <2> DEFINE e == [s \in SUBSET (1 .. 0) |-> 0]
  <2>1. \A s \in SUBSET (1 .. 0) : s = {}
    OBVIOUS
  <2>2. Is(e, 0)
    BY <2>1
  <2> QED BY <2>2
<1>3. ASSUME NEW m \in T
      PROVE  m + 1 \in T
  <2>1. m \in Nat /\ m + 1 \in Nat
    BY <1>3
  <2>2. PICK g : Is(g, m)
    BY <1>3
  <2> DEFINE V(s) == diffInt[Max(s)]
             W(s) == s \ {Max(s)}
             h == [s \in SUBSET (1 .. m + 1) |-> IF s = {} THEN 0 ELSE Larger(g[W(s)], V(s))]
  <2>3. \A s \in SUBSET (1 .. m + 1) : s # {} => W(s) \in SUBSET (1 .. m)
    <3> SUFFICES ASSUME NEW s \in SUBSET (1 .. m + 1), s # {}, NEW y \in W(s)
                 PROVE  y \in 1 .. m
      OBVIOUS
    <3>1. Max(s) \in s /\ y \in s /\ y # Max(s) /\ y <= Max(s)
      <4>1. Max(s) \in s /\ \A z \in s : z <= Max(s)
        <5> HIDE DEF W
        <5> QED BY <2>1, MaxOfInterval
      <4>2. y \in s /\ y # Max(s)
        BY DEF W
      <4> QED BY ONLY <4>1, <4>2
    <3>2. Max(s) \in 1 .. m + 1 /\ y \in 1 .. m + 1
      BY <3>1
    <3> QED BY ONLY <2>1, <3>1, <3>2
  <2>4. \A s \in SUBSET (1 .. m) : s \in SUBSET (1 .. m + 1)
    BY <2>1
  <2>5. \A s \in SUBSET (1 .. m) : g[s] = IF s = {} THEN 0 ELSE Larger(g[W(s)], V(s))
    BY <2>2
  <2> HIDE DEF V, W
  <2>6. /\ h = [s \in SUBSET (1 .. m + 1) |-> IF s = {} THEN 0 ELSE Larger(g[W(s)], V(s))]
        /\ \A s \in SUBSET (1 .. m + 1) : h[s] = IF s = {} THEN 0 ELSE Larger(g[W(s)], V(s))
    OBVIOUS
  <2> HIDE DEF h
  <2>7. \A s \in SUBSET (1 .. m) : h[s] = g[s]
    BY ONLY <2>4, <2>5, <2>6
  <2>8. \A s \in SUBSET (1 .. m + 1) : s # {} => h[W(s)] = g[W(s)]
    BY ONLY <2>3, <2>7
  <2>9. h = [s \in SUBSET (1 .. m + 1) |-> IF s = {} THEN 0 ELSE Larger(h[W(s)], V(s))]
    BY ONLY <2>6, <2>8
  <2>10. Is(h, m + 1)
    BY <2>9 DEF V, W
  <2> QED BY <2>1, <2>10
<1>4. T \in SUBSET Nat
  OBVIOUS
<1> HIDE DEF T
<1>5. T = Nat
  BY ONLY <1>2, <1>3, <1>4, SetInduction
<1>6. \E g : Is(g, n)
  BY <1>1, <1>5 DEF T
<1>7. LargestIter = CHOOSE g : Is(g, n)
  BY <1>1 DEF LargestIter
<1>8. Is(LargestIter, n)
  <2> HIDE DEF Is
  <2> QED BY <1>6, <1>7
<1> QED BY <1>1, <1>8

(* An int16_t holds every magnitude.                                       *)
MagnitudesFit == \A i \in DOMAIN diffInt : diffInt[i] # -32768

(* Then maxDiff is not less than any of them.                              *)
LEMMA MaxDiffIsLargest ==
  ASSUME diffInt \in Seq(Shorts), MagnitudesFit
  PROVE  /\ MaxDiff \in Nat /\ MaxDiff \in Shorts
         /\ \A i \in DOMAIN diffInt : -MaxDiff <= diffInt[i] /\ diffInt[i] <= MaxDiff
<1> DEFINE n == Len(diffInt)
           most(m) == LargestIter[1 .. m]
           Is(m) == /\ most(m) \in Nat /\ most(m) \in Shorts
                    /\ \A i \in 1 .. m : -most(m) <= diffInt[i] /\ diffInt[i] <= most(m)
           T == {m \in Nat : m <= n => Is(m)}
<1>1. n \in Nat /\ DOMAIN diffInt = 1 .. n
  OBVIOUS
<1>a. diffInt \in Seq(Shorts)
  OBVIOUS
<1>b. \A s \in SUBSET DOMAIN diffInt :
        LargestIter[s] = IF s = {} THEN 0 ELSE Larger(LargestIter[s \ {Max(s)}], diffInt[Max(s)])
  BY ONLY <1>a, LargestIterUnfolds
<1>2. 0 \in T
  <2>1. 1 .. 0 = {} /\ {} \in SUBSET DOMAIN diffInt
    OBVIOUS
  <2>2. LargestIter[{}] = 0
    BY ONLY <1>b, <2>1
  <2>3. 0 \in Shorts
    BY DEF Shorts
  <2>4. Is(0)
    BY <2>1, <2>2, <2>3
  <2> QED BY <2>4
<1>3. ASSUME NEW m \in T
      PROVE  m + 1 \in T
  <2>1. m \in Nat /\ m + 1 \in Nat
    BY <1>3
  <2>2. SUFFICES ASSUME m + 1 <= n
                 PROVE  Is(m + 1)
    BY <2>1
  <2>3. Is(m)
    BY <1>1, <1>3, <2>1, <2>2
  <2> DEFINE d == diffInt[m + 1]
             x == LargestIter[1 .. m]
             y == LargestIter[1 .. m + 1]
  <2>4. m + 1 \in 1 .. m + 1 /\ 1 .. m + 1 \in SUBSET (1 .. n) /\ m + 1 \in Nat /\ m <= n
    BY <1>1, <2>1, <2>2
  <2>a. 1 .. m + 1 # {}
    BY <2>4
  <2>5. Max(1 .. m + 1) = m + 1
    <3>1. /\ Max(1 .. m + 1) \in 1 .. m + 1
          /\ \A z \in 1 .. m + 1 : z <= Max(1 .. m + 1)
      BY ONLY <1>1, <2>4, <2>a, MaxOfInterval
    <3> DEFINE q == Max(1 .. m + 1)
    <3>2. q \in 1 .. m + 1 /\ m + 1 <= q
      BY ONLY <2>4, <3>1
    <3> HIDE DEF q
    <3>3. q = m + 1
      BY ONLY <2>1, <3>2
    <3> QED BY <3>3 DEF q
  <2>6. (1 .. m + 1) \ {m + 1} = 1 .. m
    BY ONLY <2>1
  <2>7. y = Larger(x, d)
    BY ONLY <1>a, <1>1, <2>4, <2>a, <2>5, <2>6, LargestIterUnfolds
  <2>8. d \in Int /\ -32767 <= d /\ d <= 32767
    <3>1. m + 1 \in DOMAIN diffInt
      BY <1>1, <2>1, <2>2
    <3>2. d \in Shorts /\ d # -32768
      BY <3>1 DEF MagnitudesFit
    <3> QED BY <3>2 DEF Shorts
  <2>9. x \in Nat /\ x \in Shorts /\ \A i \in 1 .. m : -x <= diffInt[i] /\ diffInt[i] <= x
    BY <2>3
  <2>10. \A i \in 1 .. m : diffInt[i] \in Int
    <3>1. \A i \in 1 .. m : i \in DOMAIN diffInt
      BY <1>1, <2>1, <2>2
    <3> QED BY <3>1 DEF Shorts
  <2> HIDE DEF x, y, d
  <2>11. y \in Nat /\ y \in Shorts /\ x <= y /\ -y <= d /\ d <= y
    <3> DEFINE a == IF d < 0 THEN -d ELSE d
    <3>1. a \in Nat /\ a <= 32767 /\ -a <= d /\ d <= a
      BY ONLY <2>8
    <3>2. y = IF a > x THEN Int16(a) ELSE x
      BY <2>7 DEF Larger
    <3> HIDE DEF a
    <3>3. Int16(a) = a
      <4>1. (a + 32768) % 65536 = a + 32768
        BY ONLY <3>1
      <4> QED BY <3>1, <4>1 DEF Int16
    <3> QED BY ONLY <2>8, <2>9, <3>1, <3>2, <3>3 DEF Shorts
  <2>12. \A i \in 1 .. m : -y <= diffInt[i] /\ diffInt[i] <= y
    BY ONLY <2>9, <2>10, <2>11
  <2>13. \A i \in 1 .. m + 1 : i \in 1 .. m \/ i = m + 1
    BY <2>1
  <2>14. \A i \in 1 .. m + 1 : -y <= diffInt[i] /\ diffInt[i] <= y
    BY ONLY <2>11, <2>12, <2>13 DEF d
  <2> QED BY <2>11, <2>14 DEF y
<1>4. T \in SUBSET Nat
  OBVIOUS
<1> HIDE DEF T
<1>5. T = Nat
  BY ONLY <1>2, <1>3, <1>4, SetInduction
<1>6. Is(n)
  BY <1>1, <1>5 DEF T
<1>7. MaxDiff = LargestIter[1 .. n]
  BY <1>1, MaxDiffUnfolds
<1> DEFINE x == LargestIter[1 .. n]
<1>8. x \in Nat /\ x \in Shorts /\ \A i \in 1 .. n : -x <= diffInt[i] /\ diffInt[i] <= x
  BY <1>6
<1> HIDE DEF x, n
<1> QED BY <1>1, <1>7, <1>8 DEF x

(* Up to seven bits leave room for the sign.                               *)
LEMMA NarrowMagnitude ==
  ASSUME NEW v \in Nat, calcRequiredBits(v) <= 7
  PROVE  v < 128
<1> DEFINE S == {b \in 0 .. 14 : v < 2 ^ b}
           U == S \cup {15}
<1>1. U \in SUBSET Nat /\ U # {}
  OBVIOUS
<1>2. Min(U) \in U
  BY <1>1, MinProperties
<1>3. Min(U) = calcRequiredBits(v)
  BY DEF calcRequiredBits
<1>4. PICK b \in 0 .. 7 : v < 2 ^ b
  <2> DEFINE k == Min(U)
  <2>1. k \in S \/ k = 15
    BY <1>2
  <2>2. k <= 7
    BY <1>3
  <2> HIDE DEF k
  <2>3. k \in S
    BY <2>1, <2>2
  <2>4. k \in 0 .. 14 /\ v < 2 ^ k
    BY <2>3
  <2>5. k \in 0 .. 7
    BY ONLY <2>2, <2>4
  <2> WITNESS k \in 0 .. 7
  <2> QED BY <2>4
<1>5. 2 ^ 0 = 1 /\ 2 ^ 1 = 2 /\ 2 ^ 2 = 4 /\ 2 ^ 3 = 8
  OBVIOUS
<1>6. 2 ^ 4 = 16 /\ 2 ^ 5 = 32 /\ 2 ^ 6 = 64 /\ 2 ^ 7 = 128
  OBVIOUS
<1>7. b = 0 \/ b = 1 \/ b = 2 \/ b = 3 \/ b = 4 \/ b = 5 \/ b = 6 \/ b = 7
  OBVIOUS
<1>8. 2 ^ b <= 128 /\ 2 ^ b \in Int
  <2>1. CASE b = 0
    BY <1>5, <2>1
  <2>2. CASE b = 1
    BY <1>5, <2>2
  <2>3. CASE b = 2
    BY <1>5, <2>3
  <2>4. CASE b = 3
    BY <1>5, <2>4
  <2>5. CASE b = 4
    BY <1>6, <2>5
  <2>6. CASE b = 5
    BY <1>6, <2>6
  <2>7. CASE b = 6
    BY <1>6, <2>7
  <2>8. CASE b = 7
    BY <1>6, <2>8
  <2> QED BY <1>7, <2>1, <2>2, <2>3, <2>4, <2>5, <2>6, <2>7, <2>8
<1> DEFINE p == 2 ^ b
<1> HIDE DEF p
<1>9. v < p /\ p <= 128 /\ p \in Int
  BY <1>4, <1>8 DEF p
<1> QED BY <1>9

(* Where HTON2 swaps, the difference of two temperatures is that of their  *)
(* sixteenths.                                                             *)
LEMMA SwappedDifference ==
  ASSUME HostSwaps, NEW t \in Temperatures, NEW b \in Temperatures
  PROVE  Int16(NTOH2(double_2_TEMPERATURE_2_BYTES(t)) - NTOH2(double_2_TEMPERATURE_2_BYTES(b))) = t - b
<1>1. ASSUME NEW v \in Temperatures
      PROVE  NTOH2(double_2_TEMPERATURE_2_BYTES(v)) = v \/ NTOH2(double_2_TEMPERATURE_2_BYTES(v)) = v + 65536
  <2> DEFINE lo == v % 256
             q == v \div 256
             hi == q % 256
  <2>1. v \in Int /\ -2000 <= v /\ v <= 2000
    BY DEF Temperatures
  <2>2. lo \in 0 .. 255 /\ q \in -8 .. 7 /\ v = 256 * q + lo
    BY <2>1
  <2>3. double_2_TEMPERATURE_2_BYTES(v) = <<hi, lo>>
    <3>1. LoHi(v) = <<lo, hi>>
      BY DEF LoHi
    <3> HIDE DEF lo, hi
    <3> QED BY <3>1, ReversedPair DEF double_2_TEMPERATURE_2_BYTES, HTON2
  <2>4. NTOH2(double_2_TEMPERATURE_2_BYTES(v)) = hi * 256 + lo
    BY <2>3 DEF NTOH2
  <2> HIDE DEF lo, q
  <2>5. hi = q \/ hi = q + 256
    BY ONLY <2>2
  <2> HIDE DEF hi
  <2>6. hi * 256 + lo = v \/ hi * 256 + lo = v + 65536
    BY ONLY <2>1, <2>2, <2>5
  <2> QED BY <2>4, <2>6
<1> DEFINE x == NTOH2(double_2_TEMPERATURE_2_BYTES(t))
           y == NTOH2(double_2_TEMPERATURE_2_BYTES(b))
<1>2. (x = t \/ x = t + 65536) /\ (y = b \/ y = b + 65536)
  BY <1>1
<1>3. t \in Int /\ -2000 <= t /\ t <= 2000 /\ b \in Int /\ -2000 <= b /\ b <= 2000
  BY DEF Temperatures
<1> HIDE DEF x, y
<1> DEFINE w == x - y
<1>4. w \in Int /\ (w = t - b \/ w = (t - b) + 65536 \/ w = (t - b) - 65536)
  BY ONLY <1>2, <1>3
<1> HIDE DEF w
<1>5. (w + 32768) % 65536 = (t - b) + 32768
  BY ONLY <1>3, <1>4
<1>6. Int16(w) = t - b
  BY <1>3, <1>5 DEF Int16
<1> QED BY <1>6 DEF w, x, y

(* The builder chooses a width that holds every difference with its sign,  *)
(* unless the largest takes eight bits (445 takes one byte of them), where *)
(* HTON2 swaps.                                                            *)
LEMMA WidthOfDifferences ==
  ASSUME Calculated, HostSwaps, bitsPerSample # 8
  PROVE  WidthSuffices
<1>1. diffInt \in Seq(Shorts)
  BY DeltasType
<1>2. MagnitudesFit
  <2> SUFFICES ASSUME NEW i \in DOMAIN diffInt
               PROVE  diffInt[i] # -32768
    BY DEF MagnitudesFit
  <2>1. diffInt = Deltas
    BY DEF Calculated, calcDeltas
  <2>2. /\ i \in DOMAIN Deltas
        /\ Deltas[i] = Int16(NTOH2(double_2_TEMPERATURE_2_BYTES(temperature[i]))
                               - NTOH2(double_2_TEMPERATURE_2_BYTES(value.base[i])))
    BY <2>1 DEF Deltas
  <2>3. i \in 1 .. Len(diffInt) /\ Len(diffInt) <= sensors /\ Len(diffInt) <= Len(value.base)
    BY <1>1, DeltasType
  <2>4. /\ sensors \in 0 .. 28 /\ temperature \in Seq(Temperatures)
        /\ value.base \in Seq(Temperatures) /\ Len(value.base) \in Nat /\ Len(diffInt) \in Nat
    BY SensorsType, DeltasType, BuilderAssumption DEF Calculated, Temperatures
  <2>5. i \in 1 .. Len(temperature) /\ i \in 1 .. Len(value.base)
    BY <2>3, <2>4 DEF sensors
  <2>6. temperature[i] \in Temperatures /\ value.base[i] \in Temperatures
    BY <2>4, <2>5
  <2>7. diffInt[i] = temperature[i] - value.base[i]
    BY <2>1, <2>2, <2>6, SwappedDifference
  <2> DEFINE x == temperature[i]
             y == value.base[i]
  <2>9. diffInt[i] = x - y /\ x \in Temperatures /\ y \in Temperatures
    BY <2>6, <2>7
  <2> HIDE DEF x, y
  <2>8. x \in Int /\ -2000 <= x /\ x <= 2000 /\ y \in Int /\ -2000 <= y /\ y <= 2000
    BY ONLY <2>9 DEF Temperatures
  <2> QED BY <2>8, <2>9
<1>3. /\ MaxDiff \in Nat /\ MaxDiff \in Shorts
      /\ \A i \in DOMAIN diffInt : -MaxDiff <= diffInt[i] /\ diffInt[i] <= MaxDiff
  BY <1>1, <1>2, MaxDiffIsLargest
<1>4. SUFFICES ASSUME dataBytes = 1, NEW i \in DOMAIN diffInt
               PROVE  diffInt[i] \in -128 .. 127
  BY DEF WidthSuffices
<1> DEFINE m == MaxDiff
           d == diffInt[i]
<1>5. m \in Nat /\ m % 65536 = m
  <2>1. m \in Nat /\ m \in Shorts
    BY <1>3
  <2> HIDE DEF m
  <2> QED BY ONLY <2>1 DEF Shorts
<1>6. bitsPerSample = calcRequiredBits(m)
  BY <1>5 DEF Calculated, calcDeltas
<1>7. bitsPerSample \in Nat
  <2> DEFINE U == {k \in 0 .. 14 : m < 2 ^ k} \cup {15}
  <2>1. U \in SUBSET Nat /\ U # {}
    OBVIOUS
  <2>2. Min(U) \in Nat
    BY <2>1, MinProperties
  <2> QED BY <1>6, <2>2 DEF calcRequiredBits
<1>8. bitsPerSample <= 7
  BY <1>4, <1>7 DEF dataBytes, bytesRequiredForBits
<1>9. d \in Int /\ -m <= d /\ d <= m
  <2>1. d \in Shorts
    BY <1>1
  <2> QED BY <1>3, <2>1 DEF Shorts
<1> HIDE DEF m, d
<1>10. m < 128
  <2>1. calcRequiredBits(m) <= 7
    BY <1>6, <1>8, Zenon
  <2> QED BY ONLY <1>5, <2>1, NarrowMagnitude
<1>11. d \in -128 .. 127
  BY ONLY <1>5, <1>9, <1>10
<1> QED BY <1>11 DEF d

(* Of loggers built like those in the field, the width the builder chooses *)
(* loses no difference, but for magnitudes of exactly eight bits.          *)
THEOREM WidthIsEnough == Spec => [](HostSwaps /\ bitsPerSample # 8 => WidthSuffices)
<1>1. DeltaInv => (HostSwaps /\ bitsPerSample # 8 => WidthSuffices)
  BY WidthOfDifferences DEF DeltaInv
<1> QED BY <1>1, DeltaInvariant, PTL

-----------------------------------------------------------------------------
(* The bytes a frame takes when it is compressed.                          *)

LEMMA Joined ==
  ASSUME NEW S, NEW t \in Seq(S), NEW w \in Seq(S)
  PROVE  t \o w \in Seq(S) /\ Len(t \o w) = Len(t) + Len(w)
BY ConcatProperties, Zenon

LEMMA CodeLength ==
  ASSUME NEW b \in Byte
  PROVE  Len(Code(b)) \in 1 .. 10
<1>1. CASE b \in {0, 1, 2, 3, 4, 252, 253, 254, 255}
  <2>1. /\ Len(Code(0)) = 1 /\ Len(Code(1)) = 4 /\ Len(Code(2)) = 5 /\ Len(Code(3)) = 6
        /\ Len(Code(4)) = 7
    BY DEF Code
  <2>2. /\ Len(Code(252)) = 7 /\ Len(Code(253)) = 5 /\ Len(Code(254)) = 5
        /\ Len(Code(255)) = 4
    BY DEF Code
  <2>3. CASE b \in {0, 1, 2, 3, 4}
    BY <2>1, <2>3
  <2>4. CASE b \in {252, 253, 254, 255}
    BY <2>2, <2>4
  <2> QED BY <1>1, <2>3, <2>4
<1>2. CASE b \notin {0, 1, 2, 3, 4, 252, 253, 254, 255}
  <2>1. Code(b) = <<0, 1>> \o Bits8(b)
    BY <1>2 DEF Code
  <2>2. Bits8(b) \in Seq(Int) /\ Len(Bits8(b)) = 8
    BY DEF Bits8, Byte
  <2> DEFINE tag == <<0, 1>>
  <2>5. tag \in Seq(Int) /\ Len(tag) = 2
    OBVIOUS
  <2> HIDE DEF tag
  <2>3. Len(tag \o Bits8(b)) = Len(tag) + Len(Bits8(b))
    BY ONLY <2>2, <2>5, Joined
  <2>4. Len(<<0, 1>> \o Bits8(b)) = 10
    BY <2>2, <2>3, <2>5 DEF tag
  <2> QED BY <2>1, <2>4
<1> QED BY <1>1, <1>2

(* The function MapThenSumSet() is defined with, in CompressedSize().      *)
BitsIter(s) ==
  CHOOSE g : g = [t \in SUBSET (3 .. Len(s)) |->
                    IF t = {} THEN 0
                    ELSE Len(Code(s[CHOOSE x \in t : TRUE])) + g[t \ {CHOOSE x \in t : TRUE}]]

LEMMA SizeUnfolds ==
  ASSUME NEW s
  PROVE  CompressedSize(s) = 2 + UpDiv(BitsIter(s)[3 .. Len(s)], 8)
BY DEF CompressedSize, MapThenSumSet, MapThenFoldSet, BitsIter

LEMMA BitsIterUnfolds ==
  ASSUME NEW q, NEW S, S = 3 .. Len(q), IsFiniteSet(S)
  PROVE  /\ BitsIter(q)[{}] = 0
         /\ \A s \in SUBSET S : s # {} =>
              \E x \in s : BitsIter(q)[s] = Len(Code(q[x])) + BitsIter(q)[s \ {x}]
<1> DEFINE n == Cardinality(S)
           X(s) == CHOOSE x \in s : TRUE
           V(s) == Len(Code(q[X(s)]))
           W(s) == s \ {X(s)}
           Is(g, m) == \A s \in SUBSET S : Cardinality(s) <= m =>
                         g[s] = IF s = {} THEN 0 ELSE V(s) + g[W(s)]
           T == {m \in Nat : \E g : Is(g, m)}
           F(g) == [s \in SUBSET S |-> IF s = {} THEN 0 ELSE V(s) + g[W(s)]]
<1>1. n \in Nat /\ \A s \in SUBSET S : Cardinality(s) \in Nat /\ Cardinality(s) <= n
  BY FS_CardinalityType, FS_Subset
<1>2. ASSUME NEW s \in SUBSET S, s # {}
      PROVE  X(s) \in s /\ W(s) \in SUBSET S /\ Cardinality(W(s)) = Cardinality(s) - 1
  <2>1. X(s) \in s
    BY <1>2
  <2>2. IsFiniteSet(s)
    BY FS_Subset
  <2> HIDE DEF X
  <2>3. Cardinality(s \ {X(s)}) = Cardinality(s) - 1
    BY <2>1, <2>2, FS_RemoveElement
  <2> QED BY <2>1, <2>3
<1>3. {} \in SUBSET S /\ \A s \in SUBSET S : Cardinality(s) <= 0 => s = {}
  <2>1. \A s \in SUBSET S : IsFiniteSet(s)
    BY FS_Subset
  <2>2. \A s \in SUBSET S : Cardinality(s) = 0 => s = {}
    BY <2>1, FS_EmptySet
  <2> QED BY <1>1, <2>2
<1> HIDE DEF V, W, X
<1>4. 0 \in T
  <2> DEFINE e == [s \in SUBSET S |-> 0]
  <2>1. Is(e, 0)
    BY <1>3
  <2> QED BY <2>1
<1>5. ASSUME NEW m \in T
      PROVE  m + 1 \in T
  <2>1. m \in Nat /\ m + 1 \in Nat
    BY <1>5
  <2>2. PICK g : Is(g, m)
    BY <1>5
  <2> DEFINE h == F(g)
  <2>3. \A s \in SUBSET S : h[s] = IF s = {} THEN 0 ELSE V(s) + g[W(s)]
    OBVIOUS
  <2> HIDE DEF h
  <2>4. \A s \in SUBSET S : Cardinality(s) <= m => h[s] = g[s]
    BY <2>2, <2>3
  <2>5. \A s \in SUBSET S : s # {} /\ Cardinality(s) <= m + 1 => h[W(s)] = g[W(s)]
    <3> SUFFICES ASSUME NEW s \in SUBSET S, s # {}, Cardinality(s) <= m + 1
                 PROVE  h[W(s)] = g[W(s)]
      OBVIOUS
    <3>1. W(s) \in SUBSET S /\ Cardinality(W(s)) = Cardinality(s) - 1 /\ Cardinality(s) \in Nat
      BY <1>1, <1>2
    <3>2. Cardinality(W(s)) <= m
      BY <2>1, <3>1
    <3> QED BY <2>4, <3>1, <3>2
  <2>6. Is(h, m + 1)
    <3> SUFFICES ASSUME NEW s \in SUBSET S, Cardinality(s) <= m + 1
                 PROVE  h[s] = IF s = {} THEN 0 ELSE V(s) + h[W(s)]
      OBVIOUS
    <3> QED BY <2>3, <2>5
  <2> QED BY <2>1, <2>6
<1>6. T \in SUBSET Nat
  OBVIOUS
<1> HIDE DEF T
<1>7. T = Nat
  BY ONLY <1>4, <1>5, <1>6, SetInduction
<1>8. PICK g : Is(g, n)
  BY <1>1, <1>7 DEF T
<1> DEFINE h == F(g)
<1>9. h = F(h)
  <2>1. \A s \in SUBSET S : h[s] = IF s = {} THEN 0 ELSE V(s) + g[W(s)]
    OBVIOUS
  <2>2. \A s \in SUBSET S : h[s] = g[s]
    BY <1>1, <1>8, <2>1
  <2> HIDE DEF h
  <2>3. \A s \in SUBSET S : s # {} => h[W(s)] = g[W(s)]
    BY <1>2, <2>2
  <2>4. h = [s \in SUBSET S |-> IF s = {} THEN 0 ELSE V(s) + g[W(s)]]
    BY DEF h
  <2> QED BY <2>3, <2>4
<1>10. BitsIter(q) = CHOOSE f : f = F(f)
  BY DEF BitsIter, V, W, X
<1>11. BitsIter(q) = F(BitsIter(q))
  <2> HIDE DEF F
  <2> QED BY <1>9, <1>10
<1>12. \A s \in SUBSET S :
         BitsIter(q)[s] = IF s = {} THEN 0 ELSE V(s) + BitsIter(q)[W(s)]
  BY <1>11
<1>13. ASSUME NEW s \in SUBSET S, s # {}
       PROVE  \E x \in s : BitsIter(q)[s] = Len(Code(q[x])) + BitsIter(q)[s \ {x}]
  <2>1. X(s) \in s /\ BitsIter(q)[s] = V(s) + BitsIter(q)[W(s)]
    BY <1>2, <1>12, <1>13
  <2>2. V(s) = Len(Code(q[X(s)])) /\ W(s) = s \ {X(s)}
    BY DEF V, W
  <2> QED BY <2>1, <2>2
<1> QED BY <1>3, <1>12, <1>13

(* Each byte takes up to ten bits.                                         *)
LEMMA BitsBound ==
  ASSUME NEW q \in Seq(Byte), NEW k \in Nat, Len(q) <= k + 2
  PROVE  BitsIter(q)[3 .. Len(q)] \in Nat /\ BitsIter(q)[3 .. Len(q)] <= 10 * k
<1> DEFINE S == 3 .. Len(q)
           B(s) == BitsIter(q)[s]
           T == {m \in Nat : \A s \in SUBSET S : Cardinality(s) = m => B(s) \in Nat /\ B(s) <= 10 * m}
<1>1. Len(q) \in Nat /\ IsFiniteSet(S) /\ Cardinality(S) = IF 3 > Len(q) THEN 0 ELSE Len(q) - 2
  <2>1. Len(q) \in Nat
    OBVIOUS
  <2>2. IsFiniteSet(S) /\ Cardinality(S) = IF 3 > Len(q) THEN 0 ELSE (Len(q) - 3) + 1
    <3> DEFINE l == Len(q)
    <3>1. l \in Int /\ 3 \in Int
      BY <2>1
    <3> HIDE DEF l
    <3>2. IsFiniteSet(3 .. l) /\ Cardinality(3 .. l) = IF 3 > l THEN 0 ELSE (l - 3) + 1
      BY ONLY <3>1, FS_Interval
    <3> QED BY <3>2 DEF l
  <2> QED BY <2>1, <2>2
<1>2. /\ B({}) = 0
      /\ \A s \in SUBSET S : s # {} => \E x \in s : B(s) = Len(Code(q[x])) + B(s \ {x})
  BY <1>1, BitsIterUnfolds
<1>3. \A s \in SUBSET S : IsFiniteSet(s)
  BY <1>1, FS_Subset
<1>4. \A x \in S : Len(Code(q[x])) \in 1 .. 10
  <2> SUFFICES ASSUME NEW x \in S
               PROVE  Len(Code(q[x])) \in 1 .. 10
    OBVIOUS
  <2>1. x \in 1 .. Len(q)
    BY <1>1
  <2>2. q[x] \in Byte
    BY <2>1
  <2> QED BY <2>2, CodeLength
<1> HIDE DEF B, S
<1>5. 0 \in T
  <2> SUFFICES ASSUME NEW s \in SUBSET S, Cardinality(s) = 0
               PROVE  B(s) \in Nat /\ B(s) <= 10 * 0
    OBVIOUS
  <2>1. s = {}
    BY <1>3, FS_EmptySet
  <2> QED BY <1>2, <2>1
<1>6. ASSUME NEW m \in T
      PROVE  m + 1 \in T
  <2>1. m \in Nat /\ m + 1 \in Nat /\ \A s \in SUBSET S : Cardinality(s) = m => B(s) \in Nat /\ B(s) <= 10 * m
    BY <1>6
  <2>2. ASSUME NEW s \in SUBSET S, Cardinality(s) = m + 1
        PROVE  B(s) \in Nat /\ B(s) <= 10 * (m + 1)
    <3>1. s # {}
      <4> SUFFICES ASSUME s = {}
                   PROVE  FALSE
        OBVIOUS
      <4>1. Cardinality(s) = 0
        BY FS_EmptySet
      <4>2. m + 1 = 0
        BY ONLY <2>2, <4>1
      <4> QED BY ONLY <2>1, <4>2
    <3>2. PICK x \in s : B(s) = Len(Code(q[x])) + B(s \ {x})
      BY <1>2, <3>1
    <3>3. Cardinality(s \ {x}) = m /\ s \ {x} \in SUBSET S
      <4>1. Cardinality(s \ {x}) = Cardinality(s) - 1
        BY <1>3, FS_RemoveElement
      <4> QED BY <2>1, <2>2, <4>1
    <3>4. B(s \ {x}) \in Nat /\ B(s \ {x}) <= 10 * m
      BY <2>1, <3>3
    <3> DEFINE l == Len(Code(q[x]))
               y == B(s \ {x})
               z == B(s)
    <3>5. l \in 1 .. 10 /\ z = l + y /\ y \in Nat /\ y <= 10 * m
      BY <1>4, <3>2, <3>4
    <3> HIDE DEF l, y, z
    <3>6. z \in Nat /\ z <= 10 * (m + 1)
      BY ONLY <2>1, <3>5
    <3> QED BY <3>6 DEF z
  <2> QED BY <2>1, <2>2
<1>7. T \in SUBSET Nat
  OBVIOUS
<1> HIDE DEF T
<1>8. T = Nat
  BY ONLY <1>5, <1>6, <1>7, SetInduction
<1> DEFINE c == Cardinality(S)
           b == B(S)
<1>9. c \in Nat /\ S \in SUBSET S
  BY <1>1
<1>10. b \in Nat /\ b <= 10 * c
  BY <1>8, <1>9 DEF T
<1> DEFINE l == Len(q)
<1>11. l \in Nat /\ k \in Nat /\ l <= k + 2 /\ c = IF 3 > l THEN 0 ELSE l - 2
  BY <1>1
<1> HIDE DEF b, c, l
<1>12. b \in Nat /\ b <= 10 * k
  BY ONLY <1>10, <1>11
<1> QED BY <1>12 DEF b, B, S

LEMMA SizeBound ==
  ASSUME NEW q \in Seq(Byte), NEW k \in Nat, Len(q) <= k + 2
  PROVE  /\ CompressedSize(q) \in Nat /\ 2 <= CompressedSize(q)
         /\ 8 * (CompressedSize(q) - 2) <= 10 * k + 7
<1> DEFINE bits == BitsIter(q)[3 .. Len(q)]
           c == CompressedSize(q)
<1>1. bits \in Nat /\ bits <= 10 * k /\ k \in Nat
  BY BitsBound
<1>2. c = 2 + ((bits + 8) - 1) \div 8
  <2>1. c = 2 + UpDiv(bits, 8)
    BY SizeUnfolds
  <2> HIDE DEF bits, c
  <2> QED BY ONLY <1>1, <2>1 DEF UpDiv
<1> HIDE DEF bits, c
<1>3. c \in Nat /\ 2 <= c /\ 8 * (c - 2) <= 10 * k + 7
  BY ONLY <1>1, <1>2
<1> QED BY <1>3 DEF c

-----------------------------------------------------------------------------
(* Huffman frames, and how they arrive.                                    *)

(* std::string::resize() gives a string of bytes of the length asked for.  *)
LEMMA ResizedType ==
  ASSUME NEW s \in Seq(Byte), NEW n \in Nat
  PROVE  Resized(s, n) \in Seq(Byte) /\ Len(Resized(s, n)) = n
<1> DEFINE l == Len(s)
           m == Min({n, l})
           cut == SubSeq(s, 1, m)
           zeros == [i \in 1 .. n - l |-> 0]
<1>1. l \in Nat /\ m = IF n <= l THEN n ELSE l
  BY MinOfTwo
<1>2. m \in Nat /\ m <= l /\ m <= n
  BY <1>1
<1>3. cut \in Seq(Byte) /\ Len(cut) = m
  <2> HIDE DEF m
  <2>1. \A i \in 1 .. m : s[i] \in Byte
    BY <1>1, <1>2
  <2>2. cut = [i \in 1 .. m |-> s[i]]
    BY <1>1, <1>2
  <2>3. cut \in [1 .. m -> Byte]
    BY <2>1, <2>2
  <2> HIDE DEF cut
  <2> QED BY <1>2, <2>3, LenProperties
<1>4. zeros \in Seq(Byte) /\ Len(zeros) = n - m
  <2> DEFINE k == n - m
  <2>1. k \in Nat /\ 1 .. n - l = 1 .. k
    BY <1>1
  <2> HIDE DEF k
  <2>2. zeros \in [1 .. k -> Byte]
    BY <2>1 DEF Byte
  <2> HIDE DEF zeros
  <2>3. zeros \in Seq(Byte) /\ Len(zeros) = k
    BY <2>1, <2>2, LenProperties
  <2> QED BY <2>3 DEF k
<1>5. Resized(s, n) = cut \o zeros
  BY DEF Resized
<1> HIDE DEF cut, zeros, m
<1>6. cut \o zeros \in Seq(Byte) /\ Len(cut \o zeros) = Len(cut) + Len(zeros)
  BY <1>3, <1>4, Joined
<1> QED BY <1>2, <1>3, <1>4, <1>5, <1>6

(* The i-th frame buildHuffmanChunk() makes: sz1 sensors, or what is left. *)
HuffFrom(i) == (i - 1) * sz1

HuffTaken(i) == Min({sz1, sensors - HuffFrom(i)})

HuffData(i) == Resized(Differences(HuffFrom(i), sz1), HuffTaken(i) * dataBytes)

HuffFrame(i) ==
  IF i = 1
  THEN Over(FirstHeader, [data |-> HuffData(1),
                          size |-> 8 + CompressedSize(MeasureDeltaHeader \o HuffData(1))])
  ELSE Over(SecondHeader(i), [data |-> HuffData(i), size |-> 4 + CompressedSize(HuffData(i))])

(* The frames that have sensors left for them.                             *)
HuffHas(i) == i = 1 \/ (sz1 > 0 /\ HuffFrom(i) < sensors)

HuffAll == {HuffFrame(i) : i \in Nat}

LEMMA HuffNumbers ==
  ASSUME Calculated, sz1 \in 0 .. sensors, NEW i \in Nat, i > 0, HuffHas(i)
  PROVE  /\ HuffFrom(i) \in Nat /\ HuffFrom(i) <= 28
         /\ HuffTaken(i) \in Nat /\ HuffTaken(i) <= sz1 /\ sz1 \in Nat /\ sz1 <= 28
         /\ HuffTaken(i) = IF HuffFrom(i) + sz1 <= sensors THEN sz1 ELSE sensors - HuffFrom(i)
         /\ i = 1 => HuffFrom(i) = 0 /\ HuffTaken(i) = sz1
<1> DEFINE s == sensors
           z == sz1
           f == HuffFrom(i)
<1>1. s \in 0 .. 28 /\ z \in 0 .. s
  BY SensorsType DEF Calculated
<1>2. f = (i - 1) * z /\ (i = 1 \/ f < s)
  BY DEF HuffFrom, HuffHas
<1>3. HuffTaken(i) = Min({z, s - f})
  BY DEF HuffTaken
<1> HIDE DEF s, z, f
<1>4. f \in Nat /\ (i = 1 => f = 0)
  <2>1. i - 1 \in Nat /\ z \in Nat
    BY ONLY <1>1, i \in Nat, i > 0
  <2> QED BY <1>2, <2>1
<1>5. z \in Nat /\ z <= 28 /\ s \in Nat /\ s <= 28 /\ f <= s
  BY ONLY <1>1, <1>2, <1>4
<1>6. Min({z, s - f}) = IF z <= s - f THEN z ELSE s - f
  BY <1>4, <1>5, MinOfTwo
<1> DEFINE t == HuffTaken(i)
<1>7. t = IF z <= s - f THEN z ELSE s - f
  BY <1>3, <1>6
<1> HIDE DEF t
<1>8. /\ t \in Nat /\ t <= z /\ t = (IF f + z <= s THEN z ELSE s - f)
      /\ i = 1 => t = z
  BY ONLY <1>1, <1>4, <1>5, <1>7
<1> QED BY <1>4, <1>5, <1>8 DEF s, z, f, t

LEMMA HuffFields ==
  ASSUME Calculated, Kind = "huffman", sz1 \in 0 .. sensors, NEW i \in Nat, i > 0, HuffHas(i)
  PROVE  /\ HuffFrame(i).packet = i /\ HuffFrame(i).data = HuffData(i)
         /\ HuffData(i) \in Seq(Byte) /\ Len(HuffData(i)) = HuffTaken(i) * dataBytes
         /\ i = 1 => HuffFrame(i).bits = bitsPerSample /\ HuffFrame(i).packets = PlainPackets
         /\ HuffFrame(i).size \in Nat /\ 4 <= HuffFrame(i).size /\ HuffFrame(i).size <= 90
         /\ sz1 <= 1 => HuffFrame(i).size <= MaxFrame
<1> DEFINE d == HuffData(i)
           t == HuffTaken(i)
           b == dataBytes
           z == sz1
           m == MeasureDeltaHeader
<1>1. b \in {1, 2}
  BY DEF dataBytes, bytesRequiredForBits
<1>2. t \in Nat /\ t <= z /\ z \in Nat /\ z <= 28 /\ HuffFrom(i) \in Nat
  BY HuffNumbers
<1>3. Differences(HuffFrom(i), sz1) \in Seq(Byte)
  BY <1>2, DifferencesData
<1>4. t * b \in Nat
  <2> HIDE DEF t, b
  <2> QED BY ONLY <1>1, <1>2
<1>5. d \in Seq(Byte) /\ Len(d) = t * b
  <2> DEFINE n == t * b
             q == Differences(HuffFrom(i), sz1)
  <2>1. d = Resized(q, n)
    BY DEF HuffData
  <2>2. n \in Nat /\ q \in Seq(Byte)
    BY <1>3, <1>4
  <2> HIDE DEF n, q, d
  <2>3. d \in Seq(Byte) /\ Len(d) = n
    BY <2>1, <2>2, ResizedType
  <2> QED BY <2>3 DEF n
<1>6. m \in Seq(Byte) /\ Len(m) = 10
  BY BuilderAssumption DEF MeasureDeltaHeader, Byte
<1> DEFINE l == Len(d)
<1>7. l \in Nat /\ l <= 56 /\ (z <= 1 => l <= 2)
  <2>1. l = t * b
    BY <1>5
  <2> HIDE DEF l, t, b, z
  <2>2. CASE b = 1
    BY ONLY <1>2, <2>1, <2>2
  <2>3. CASE b = 2
    BY ONLY <1>2, <2>1, <2>3
  <2> QED BY <1>1, <2>2, <2>3
<1>8. CASE i = 1
  <2> DEFINE q == m \o d
             c == CompressedSize(q)
             x == 8 + c
             k == 8 + l
  <2>1. q \in Seq(Byte) /\ Len(q) = Len(m) + Len(d)
    BY <1>5, <1>6, Joined
  <2>2. Len(q) <= k + 2 /\ k \in Nat
    <3>1. Len(q) = 10 + l
      BY <1>6, <2>1
    <3> HIDE DEF l
    <3> QED BY <1>7, <3>1
  <2> HIDE DEF q, k
  <2>3. c \in Nat /\ 2 <= c /\ 8 * (c - 2) <= 10 * k + 7
    BY <2>1, <2>2, SizeBound
  <2>4. x \in Nat /\ 4 <= x /\ x <= 90 /\ (z <= 1 => x <= 24)
    <3> HIDE DEF c, l, z
    <3> QED BY ONLY <1>7, <2>3 DEF k
  <2> HIDE DEF c, x
  <2>5. HuffFrame(i) = Over(FirstHeader, [data |-> d, size |-> x])
    BY <1>8 DEF HuffFrame, x, c, q
  <2> HIDE DEF d, z, l
  <2>6. /\ HuffFrame(i).packet = i /\ HuffFrame(i).data = d /\ HuffFrame(i).size = x
        /\ HuffFrame(i).bits = bitsPerSample /\ HuffFrame(i).packets = PlainPackets
    BY <1>8, <2>5 DEF Over, FirstHeader
  <2> QED BY <1>5, <2>4, <2>6 DEF d, z, MaxFrame
<1>9. CASE i # 1
  <2> DEFINE c == CompressedSize(d)
             x == 4 + c
             k == IF z <= 1 THEN 0 ELSE l
  <2>2. Len(d) <= k + 2 /\ k \in Nat
    <3>1. Len(d) = l
      OBVIOUS
    <3> HIDE DEF l, z
    <3> QED BY <1>7, <3>1
  <2> HIDE DEF k
  <2>3. c \in Nat /\ 2 <= c /\ 8 * (c - 2) <= 10 * k + 7
    <3> HIDE DEF d
    <3> QED BY <1>5, <2>2, SizeBound
  <2>4. x \in Nat /\ 4 <= x /\ x <= 90 /\ (z <= 1 => x <= 24)
    <3> HIDE DEF c, l, z
    <3> QED BY ONLY <1>7, <2>3 DEF k
  <2> HIDE DEF c, x
  <2>5. HuffFrame(i) = Over([packet |-> i], [data |-> d, size |-> x])
    BY <1>9 DEF HuffFrame, SecondHeader, x, c
  <2> HIDE DEF d, z, l
  <2>6. HuffFrame(i).packet = i /\ HuffFrame(i).data = d /\ HuffFrame(i).size = x
    BY <2>5 DEF Over
  <2> QED BY <1>5, <1>9, <2>4, <2>6 DEF d, z, MaxFrame
<1> QED BY <1>8, <1>9

(* The measurement and the sensors to a frame stay, and with them the      *)
(* frames that are to be built.                                            *)
LEMMA SameHuffFrames ==
  ASSUME value' = value, diffInt' = diffInt, bitsPerSample' = bitsPerSample, sz1' = sz1
  PROVE  /\ \A i : HuffFrame(i)' = HuffFrame(i) /\ HuffHas(i)' = HuffHas(i)
         /\ HuffAll' = HuffAll
<1>1. /\ sensors' = sensors /\ dataBytes' = dataBytes /\ FirstHeader' = FirstHeader
      /\ \A from, c : Differences(from, c)' = Differences(from, c)
  BY SameDifferences
<1>2. ASSUME NEW i
      PROVE  HuffFrom(i)' = HuffFrom(i) /\ HuffTaken(i)' = HuffTaken(i)
  BY <1>1 DEF HuffFrom, HuffTaken
<1>3. ASSUME NEW i
      PROVE  HuffData(i)' = HuffData(i)
  <2>1. Differences(HuffFrom(i), sz1)' = Differences(HuffFrom(i), sz1)
    BY <1>1, <1>2
  <2> QED BY <1>1, <1>2, <2>1 DEF HuffData
<1>4. ASSUME NEW i
      PROVE  HuffFrame(i)' = HuffFrame(i) /\ HuffHas(i)' = HuffHas(i)
  <2>1. HuffData(i)' = HuffData(i) /\ HuffData(1)' = HuffData(1)
    BY <1>3
  <2>2. HuffFrame(i)' = HuffFrame(i)
    BY <1>1, <2>1 DEF HuffFrame, SecondHeader
  <2>3. HuffHas(i)' = HuffHas(i)
    BY <1>1, <1>2 DEF HuffHas
  <2> QED BY <2>2, <2>3
<1>5. HuffAll' = HuffAll
  BY <1>4 DEF HuffAll
<1> QED BY <1>4, <1>5

(* As many sensors to the first frame as to the others, or all of them.    *)
HuffSizes == sz1 \in 0 .. sensors /\ ((sz2 = sz1 /\ sz1 > 0) \/ (sz2 = 0 /\ sz1 = sensors))

HuffPhases ==
  \/ phase = "first" /\ Len(retVal) = 0
  \/ /\ phase = "second" /\ Len(retVal) >= 1
     /\ ofs = IF sz2 = 0 THEN sensors ELSE Len(retVal) * sz1
  \/ phase = "built" /\ Len(retVal) >= 1 /\ sensors <= Len(retVal) * sz1 /\ FramesFit
  \/ phase = "undefined"

(* The frames built are the first ones of an attempt, each of sensors that *)
(* are left.                                                               *)
HuffBuilt ==
  /\ retVal \in Seq(HuffAll)
  /\ \A i \in DOMAIN retVal : retVal[i] = HuffFrame(i) /\ HuffHas(i)

HuffFrames == {HuffFrame(i) : i \in 1 .. Len(retVal)}

(* Those that have arrived are of them, each once.                         *)
HuffArrived ==
  /\ phase # "built" => items = <<>>
  /\ EachOnce(HuffFrames)

HuffInv ==
  /\ Calculated
  /\ Kind = "huffman" => HuffSizes /\ HuffPhases /\ HuffBuilt /\ HuffArrived

LEMMA HuffInvInit == Init => HuffInv
<1> SUFFICES ASSUME Init
             PROVE  HuffInv
  OBVIOUS
<1>1. /\ Calculated /\ retVal = <<>> /\ phase = "first" /\ items = <<>>
      /\ sz1 = sensors /\ sz2 = 0
  BY DEF Init, BuilderInit, Calculated
<1>2. sensors \in 0 .. 28
  BY <1>1, SensorsType DEF Calculated
<1>3. HuffSizes
  <2> DEFINE s == sensors
             z == sz1
  <2>1. s \in 0 .. 28 /\ z = s
    BY <1>1, <1>2
  <2> HIDE DEF s, z
  <2>2. z \in 0 .. s
    BY ONLY <2>1
  <2> QED BY <1>1, <2>2 DEF HuffSizes, s, z
<1>4. HuffPhases
  BY <1>1 DEF HuffPhases
<1>5. HuffBuilt
  BY <1>1 DEF HuffBuilt
<1>6. HuffArrived
  BY <1>1 DEF HuffArrived, EachOnce
<1> QED BY <1>1, <1>3, <1>4, <1>5, <1>6 DEF HuffInv

(* A frame is pushed: the next one of the attempt.                         *)
LEMMA HuffPushed ==
  ASSUME HuffBuilt, HuffHas(Len(retVal) + 1),
         retVal' = Append(retVal, HuffFrame(Len(retVal) + 1)),
         value' = value, diffInt' = diffInt, bitsPerSample' = bitsPerSample, sz1' = sz1
  PROVE  HuffBuilt' /\ Len(retVal') = Len(retVal) + 1
<1> DEFINE n == Len(retVal)
           S == HuffAll
           f == HuffFrame(n + 1)
           t == Append(retVal, f)
<1>1. retVal \in Seq(S) /\ n \in Nat /\ \A i \in 1 .. n : retVal[i] = HuffFrame(i) /\ HuffHas(i)
  BY DEF HuffBuilt
<1>2. f \in S
  BY <1>1 DEF HuffAll
<1>3. retVal' = t /\ HuffHas(n + 1)
  OBVIOUS
<1> HIDE DEF S, f
<1>4. /\ t \in Seq(S) /\ Len(t) = n + 1 /\ DOMAIN t = 1 .. n + 1 /\ t[n + 1] = f
      /\ \A i \in 1 .. n : t[i] = retVal[i]
      /\ \A i \in 1 .. n + 1 : i \in 1 .. n \/ i = n + 1
  BY <1>1, <1>2, Appended
<1> HIDE DEF t
<1>5. \A i \in 1 .. n + 1 : t[i] = HuffFrame(i) /\ HuffHas(i)
  <2> HIDE DEF n
  <2> QED BY <1>1, <1>3, <1>4, Zenon DEF f
<1>6. HuffAll' = S /\ \A i : HuffFrame(i)' = HuffFrame(i) /\ HuffHas(i)' = HuffHas(i)
  BY SameHuffFrames DEF S
<1> QED BY <1>3, <1>4, <1>5, <1>6 DEF HuffBuilt

(* Where no frame is longer than the longest, none is.                     *)
LEMMA LongestFrame ==
  ASSUME Calculated, Kind = "huffman", HuffSizes, HuffBuilt, Len(retVal) >= 1,
         maxSize <= MaxFrame \/ sz1 <= 1,
         NEW f \in Range(retVal)
  PROVE  f.size <= MaxFrame
<1> DEFINE S == {x.size : x \in Range(retVal)}
<1>1. ASSUME NEW x \in Range(retVal)
      PROVE  x.size \in 0 .. 90 /\ (sz1 <= 1 => x.size <= MaxFrame)
  <2>1. PICK i \in DOMAIN retVal : x = retVal[i]
    BY DEF Range
  <2>2. x = HuffFrame(i) /\ HuffHas(i) /\ i \in Nat /\ i > 0
    BY <2>1 DEF HuffBuilt
  <2>3. /\ HuffFrame(i).size \in Nat /\ HuffFrame(i).size <= 90
        /\ sz1 <= 1 => HuffFrame(i).size <= MaxFrame
    BY <2>2, HuffFields DEF HuffSizes
  <2> DEFINE y == HuffFrame(i).size
  <2>4. y \in Nat /\ y <= 90 /\ (sz1 <= 1 => y <= MaxFrame)
    BY <2>3
  <2> HIDE DEF y
  <2>5. y \in 0 .. 90 /\ (sz1 <= 1 => y <= MaxFrame)
    BY ONLY <2>4
  <2> QED BY <2>2, <2>5, Zenon DEF y
<1>2. f.size \in S /\ S \in SUBSET (0 .. 90)
  BY <1>1
<1>3. maxSize = Max(S)
  BY DEF maxSize
<1> HIDE DEF S
<1>4. \A y \in S : y <= Max(S)
  BY <1>2, MaxOfNumbers
<1>5. CASE sz1 <= 1
  BY <1>1, <1>5
<1>6. CASE maxSize <= MaxFrame
  <2> DEFINE m == maxSize
             y == f.size
  <2>1. m \in 0 .. 90 /\ y \in 0 .. 90 /\ y <= m
    <3>1. Max(S) \in S
      BY <1>2, MaxOfNumbers
    <3> QED BY <1>2, <1>3, <1>4, <3>1
  <2>2. m <= 24
    BY <1>6 DEF MaxFrame
  <2> HIDE DEF m, y
  <2>3. y <= 24
    BY ONLY <2>1, <2>2
  <2> QED BY <2>3 DEF y, MaxFrame
<1> QED BY <1>5, <1>6

LEMMA HuffInvStep == HuffInv /\ [Next]_vars => HuffInv'
<1> SUFFICES ASSUME HuffInv, [Next]_vars
             PROVE  HuffInv'
  OBVIOUS
<1>1. value' = value /\ diffInt' = diffInt /\ bitsPerSample' = bitsPerSample
  BY DEF vars, Next, Build, PlainFirst, PlainSecond, DeltaFirst, DeltaSecond, endBuild,
     HuffmanFirst, HuffmanSecond, endHuffmanChunk, Put, builderVars
<1>2. /\ Calculated' = Calculated /\ Kind' = Kind /\ sensors' = sensors
      /\ dataBytes' = dataBytes
  BY <1>1, SameDifferences
<1>3. Calculated /\ Calculated'
  BY <1>2 DEF HuffInv
<1>4. SUFFICES ASSUME Kind = "huffman"
               PROVE  HuffSizes' /\ HuffPhases' /\ HuffBuilt' /\ HuffArrived'
  BY <1>2, <1>3 DEF HuffInv
<1>5. HuffSizes /\ HuffPhases /\ HuffBuilt /\ HuffArrived
  BY <1>4 DEF HuffInv
<1>6. Len(retVal) \in Nat /\ sensors \in 0 .. 28 /\ sz1 \in Nat /\ sz1 <= sensors
  <2>1. sensors \in 0 .. 28 /\ sz1 \in 0 .. sensors
    BY <1>3, <1>5, SensorsType DEF Calculated, HuffSizes
  <2> DEFINE s == sensors
             z == sz1
  <2>2. s \in 0 .. 28 /\ z \in 0 .. s
    BY <2>1
  <2> HIDE DEF s, z
  <2>3. z \in Nat /\ z <= s
    BY ONLY <2>2
  <2> QED BY <1>5, <2>1, <2>3 DEF HuffBuilt, s, z
<1>7. ASSUME sz1' = sz1, sz2' = sz2
      PROVE  HuffSizes'
  BY <1>2, <1>5, <1>7 DEF HuffSizes
<1>8. ASSUME sz1' = sz1, retVal' = retVal
      PROVE  HuffBuilt' /\ HuffFrames' = HuffFrames
  <2>1. HuffAll' = HuffAll /\ \A i : HuffFrame(i)' = HuffFrame(i) /\ HuffHas(i)' = HuffHas(i)
    BY <1>1, <1>8, SameHuffFrames
  <2> QED BY <1>5, <1>8, <2>1 DEF HuffBuilt, HuffFrames
<1>9. ASSUME items = <<>>, items' = items
      PROVE  HuffArrived'
  BY <1>9 DEF HuffArrived, EachOnce
<1>10. CASE UNCHANGED vars
  <2>1. /\ retVal' = retVal /\ ofs' = ofs /\ phase' = phase /\ items' = items /\ sz1' = sz1
        /\ sz2' = sz2
    BY <1>10 DEF vars, builderVars
  <2>2. HuffPhases'
    BY <1>2, <1>5, <2>1 DEF HuffPhases, FramesFit, MaxFrame
  <2>3. HuffArrived'
    BY <1>5, <1>8, <2>1 DEF HuffArrived, EachOnce
  <2> QED BY <1>7, <1>8, <2>1, <2>2, <2>3
<1>11. CASE HuffmanFirst /\ UNCHANGED items
  <2>1. /\ phase = "first" /\ phase' = "second" /\ ofs' = (IF sz2 = 0 THEN sensors ELSE sz1)
        /\ items' = items /\ items = <<>> /\ sz1' = sz1 /\ sz2' = sz2
        /\ Len(retVal) = 0
    BY <1>5, <1>11 DEF HuffmanFirst, HuffPhases, HuffArrived
  <2>2. HuffData(1) = Resized(Differences(0, sz1), sz1 * dataBytes)
    <3>1. HuffHas(1)
      BY DEF HuffHas
    <3>2. HuffFrom(1) = 0 /\ HuffTaken(1) = sz1
      BY <1>3, <1>5, <3>1, HuffNumbers DEF HuffSizes
    <3> QED BY <3>2 DEF HuffData
  <2>3. retVal' = Append(retVal, HuffFrame(Len(retVal) + 1)) /\ HuffHas(Len(retVal) + 1)
    BY <1>11, <2>1, <2>2 DEF HuffmanFirst, Push, HuffFrame, HuffHas
  <2>4. HuffBuilt' /\ Len(retVal') = 1
    BY <1>1, <1>5, <2>1, <2>3, HuffPushed
  <2>5. 1 * sz1 = sz1
    BY <1>6
  <2>6. HuffPhases'
    BY <1>2, <2>1, <2>4, <2>5 DEF HuffPhases
  <2> QED BY <1>7, <1>9, <2>1, <2>4, <2>6
<1>12. CASE HuffmanSecond /\ UNCHANGED items
  <2> DEFINE n == Len(retVal)
             from == n * sz1
  <2>1. /\ phase = "second" /\ ofs < sensors /\ ofs' = ofs + sz2 /\ items' = items
        /\ sz1' = sz1 /\ sz2' = sz2 /\ items = <<>>
    BY <1>5, <1>12 DEF HuffmanSecond, HuffArrived
  <2>2. n >= 1 /\ ofs = (IF sz2 = 0 THEN sensors ELSE n * sz1)
    BY <1>5, <2>1 DEF HuffPhases
  <2>3. sz2 # 0
    BY <1>6, <2>1, <2>2
  <2>4. sz2 = sz1 /\ ofs = from /\ sz1 > 0
    <3>1. sz2 = sz1 /\ ofs = from
      BY <1>5, <2>2, <2>3 DEF HuffSizes
    <3> QED BY <1>6, <2>3, <3>1
  <2>5. n \in Nat /\ from \in Nat /\ from < sensors
    BY <1>6, <2>1, <2>4
  <2>6. HuffFrom(n + 1) = from /\ sz1 + (n - 1) * sz2 = from /\ from + sz1 = (n + 1) * sz1
    BY <1>6, <2>2, <2>4 DEF HuffFrom
  <2>7. HuffHas(n + 1)
    BY <2>4, <2>5, <2>6 DEF HuffHas
  <2>8. HuffData(n + 1) = Resized(Differences(sz1 + (n - 1) * sz2, sz2),
                                  Min({sz2, sensors - ofs}) * dataBytes)
    <3>1. HuffTaken(n + 1) = Min({sz1, sensors - from})
      BY <2>6 DEF HuffTaken
    <3> QED BY <2>4, <2>6, <3>1 DEF HuffData
  <2>9. CASE Len(HuffData(n + 1)) < 2
    <3>1. phase' = "undefined" /\ retVal' = retVal
      BY <1>12, <2>8, <2>9 DEF HuffmanSecond
    <3>2. HuffPhases'
      BY <3>1 DEF HuffPhases
    <3> QED BY <1>7, <1>8, <1>9, <2>1, <3>1, <3>2
  <2>10. CASE ~(Len(HuffData(n + 1)) < 2)
    <3>1. /\ phase' = "second"
          /\ retVal' = Append(retVal, Over(SecondHeader(n + 1), [data |-> HuffData(n + 1),
                                              size |-> 4 + CompressedSize(HuffData(n + 1))]))
      BY <1>12, <2>1, <2>8, <2>10 DEF HuffmanSecond, Push
    <3>2. n + 1 # 1
      BY <2>2, <2>5
    <3>3. retVal' = Append(retVal, HuffFrame(n + 1))
      BY <3>1, <3>2 DEF HuffFrame
    <3>4. HuffBuilt' /\ Len(retVal') = n + 1
      BY <1>1, <1>5, <2>1, <2>7, <3>3, HuffPushed
    <3>5. ofs' = (n + 1) * sz1
      BY <2>1, <2>4, <2>6
    <3>6. n + 1 >= 1
      BY <2>5
    <3>7. HuffPhases'
      BY <2>1, <2>3, <3>1, <3>4, <3>5, <3>6 DEF HuffPhases
    <3> QED BY <1>7, <1>9, <2>1, <3>4, <3>7
  <2> QED BY <2>9, <2>10
<1>13. CASE endHuffmanChunk /\ UNCHANGED items
  <2>1. phase = "second" /\ ofs >= sensors /\ items' = items /\ items = <<>>
    BY <1>5, <1>13 DEF endHuffmanChunk, HuffArrived
  <2>2. Len(retVal) >= 1 /\ ofs = (IF sz2 = 0 THEN sensors ELSE Len(retVal) * sz1)
    BY <1>5, <2>1 DEF HuffPhases
  <2> DEFINE z == sz1
             h == z \div 2
  <2>3. h \in Nat /\ h <= z /\ (h = 0 => z <= 1)
    <3>1. z \in Nat
      BY <1>6
    <3> HIDE DEF z
    <3> QED BY <3>1
  <2>4. CASE maxSize <= MaxFrame \/ h = 0
    <3>1. phase' = "built" /\ retVal' = retVal /\ sz1' = sz1 /\ sz2' = sz2
      BY <1>13, <2>4 DEF endHuffmanChunk
    <3>2. sensors <= Len(retVal) * sz1
      <4>1. CASE sz2 = 0
        <5>1. sz1 = sensors
          BY <1>5, <1>6, <4>1 DEF HuffSizes
        <5> DEFINE n == Len(retVal)
                   s == sensors
        <5>2. n \in Nat /\ s \in Nat /\ n >= 1
          BY <1>6, <2>2
        <5> HIDE DEF n, s
        <5>3. s <= n * s
          BY ONLY <5>2
        <5> QED BY <5>1, <5>3 DEF n, s
      <4>2. CASE sz2 # 0
        BY <2>1, <2>2, <4>2
      <4> QED BY <4>1, <4>2
    <3>3. \A f \in Range(retVal) : f.size <= MaxFrame
      BY <1>3, <1>4, <1>5, <2>2, <2>3, <2>4, LongestFrame
    <3>4. HuffPhases'
      BY <1>2, <2>2, <3>1, <3>2, <3>3 DEF HuffPhases, FramesFit, MaxFrame
    <3> QED BY <1>7, <1>8, <1>9, <2>1, <3>1, <3>4
  <2>5. CASE ~(maxSize <= MaxFrame \/ h = 0)
    <3>1. sz1' = h /\ sz2' = h /\ retVal' = <<>> /\ phase' = "first"
      BY <1>13, <2>5 DEF endHuffmanChunk
    <3>2. HuffSizes'
      <4> DEFINE s == sensors
      <4>1. s \in 0 .. 28 /\ z <= s /\ z \in Nat
        BY <1>6
      <4> HIDE DEF s, h, z
      <4>2. h \in 0 .. s
        BY ONLY <2>3, <4>1
      <4>3. h > 0
        BY ONLY <2>3, <2>5
      <4> QED BY <1>2, <3>1, <4>2, <4>3 DEF HuffSizes, s
    <3>3. HuffPhases'
      BY <3>1 DEF HuffPhases
    <3>4. HuffBuilt'
      BY <3>1 DEF HuffBuilt
    <3> QED BY <1>9, <2>1, <3>2, <3>3, <3>4
  <2> QED BY <2>4, <2>5
<1>14. CASE Put
  <2>1. phase = "built" /\ UNCHANGED <<retVal, phase, ofs, sz1, sz2>>
    BY <1>14 DEF Put, builderVars
  <2>2. PICK f \in Range(retVal) : f.packet \notin Arrived /\ items' = Append(items, set(f))
    BY <1>14 DEF Put
  <2>3. f \in HuffFrames
    <3>1. PICK i \in DOMAIN retVal : f = retVal[i]
      BY <2>2 DEF Range
    <3> QED BY <1>5, <3>1 DEF HuffBuilt, HuffFrames
  <2>4. set(f) = f
    BY <1>4 DEF set
  <2> DEFINE S == HuffFrames
  <2>5. EachOnce(S) /\ f \in S /\ items' = Append(items, f)
    BY <1>5, <2>2, <2>3, <2>4 DEF HuffArrived
  <2> HIDE DEF S
  <2>6. /\ items' \in Seq(S)
        /\ \A j, k \in DOMAIN items' : items'[j].packet = items'[k].packet => j = k
    BY <2>2, <2>5, PutKeepsEachOnce
  <2>7. HuffArrived'
    BY <1>8, <2>1, <2>6 DEF HuffArrived, EachOnce, S
  <2>8. HuffPhases'
    BY <1>2, <1>5, <2>1 DEF HuffPhases, FramesFit, MaxFrame
  <2> QED BY <1>7, <1>8, <2>1, <2>7, <2>8
<1> QED BY <1>4, <1>10, <1>11, <1>12, <1>13, <1>14 DEF Next, Build, PlainFirst, PlainSecond,
        DeltaFirst, DeltaSecond, endBuild

LEMMA HuffInvariant == Spec => []HuffInv
BY HuffInvInit, HuffInvStep, PTL DEF Spec

(* Every Huffman frame is at most 24 bytes long: the halving ends with     *)
(* frames that fit, and one sensor, or the header alone, always does.      *)
THEOREM HuffmanFramesFit == Spec => [](Kind = "huffman" => FramesFit)
<1>1. HuffInv => (Kind = "huffman" => FramesFit)
  BY DEF HuffInv, HuffPhases, FramesFit
<1> QED BY <1>1, HuffInvariant, PTL

(* Every frame of every kind is at most 24 bytes long, unless the first    *)
(* frame of differences is not full.                                       *)
THEOREM EveryFrameFits == Spec => []((Kind = "delta" => FirstIsFull) => FramesFit)
<1>1. /\ DeltaFits => FramesFit
      /\ Kind = "plain" => FramesFit
      /\ Kind = "huffman" => FramesFit
      /\ Calculated
      => ((Kind = "delta" => FirstIsFull) => FramesFit)
  BY BuilderAssumption DEF Calculated, DeltaFits, Kind
<1>2. HuffInv => Calculated
  BY DEF HuffInv
<1> QED BY <1>1, <1>2, HuffInvariant, HuffmanFramesFit, DeltaFramesFit, PlainFramesFit, PTL

-----------------------------------------------------------------------------
(* What is read of Huffman frames.                                         *)

(* What std::string::resize() puts behind a string changes no difference   *)
(* in it.                                                                  *)
LEMMA ResizedKeepsDiff ==
  ASSUME NEW d \in Seq(Byte), NEW n \in Nat, Len(d) <= n, NEW b \in {1, 2}, NEW j \in Nat,
         j * b + b <= Len(d)
  PROVE  getDiff(Resized(d, n), 0, b, j) = getDiff(d, 0, b, j)
<1> DEFINE l == Len(d)
           zeros == [i \in 1 .. n - l |-> 0]
           r == Resized(d, n)
           a == 0 + j * b + 1
<1>1. l \in Nat /\ Min({n, l}) = l
  BY MinOfTwo
<1>2. SubSeq(d, 1, l) = d
  BY <1>1
<1>3. r = d \o zeros
  BY <1>1, <1>2 DEF Resized
<1>4. zeros \in Seq(Byte)
  <2> DEFINE k == n - l
  <2>1. k \in Nat
    BY <1>1
  <2> HIDE DEF k
  <2>2. [i \in 1 .. k |-> 0] \in [1 .. k -> Byte]
    BY <2>1 DEF Byte
  <2>3. [i \in 1 .. k |-> 0] \in Seq(Byte)
    BY <2>1, <2>2, LenProperties
  <2> QED BY <2>3 DEF k
<1> HIDE DEF zeros
<1>5. \A i \in 1 .. Len(d) + Len(zeros) :
        (d \o zeros)[i] = IF i <= Len(d) THEN d[i] ELSE zeros[i - Len(d)]
  <2> HIDE DEF l
  <2> QED BY ONLY <1>4, d \in Seq(Byte), ConcatProperties
<1>6. \A i \in 1 .. l : r[i] = d[i]
  <2>1. Len(zeros) \in Nat
    BY <1>4
  <2> HIDE DEF r
  <2> QED BY <1>1, <1>3, <1>5, <2>1
<1>7. a \in 1 .. l /\ (b = 2 => a + 1 \in 1 .. l)
  <2> DEFINE m == j * b
  <2>1. m \in Nat /\ m + b <= l
    BY ONLY b \in {1, 2}, j \in Nat, j * b + b <= Len(d)
  <2>2. a = m + 1
    BY ONLY <2>1
  <2> HIDE DEF m, a, l
  <2> QED BY ONLY <1>1, <2>1, <2>2, b \in {1, 2}
<1>8. r[a] = d[a] /\ (b = 2 => r[a + 1] = d[a + 1])
  BY <1>6, <1>7
<1> HIDE DEF r
<1>9. getDiff(r, 0, b, j) = getDiff(d, 0, b, j)
  BY <1>8 DEF getDiff
<1> QED BY <1>9 DEF r

(* The bytes of frames of the same length.                                 *)
LEMMA BytesOfEqual ==
  ASSUME NEW S, IsFiniteSet(S), NEW len \in Nat, \A x \in S : Len(x.data) = len
  PROVE  BytesIter(S)[S] = Cardinality(S) * len
<1> DEFINE T == {m \in Nat : \A s \in SUBSET S : Cardinality(s) = m => BytesIter(S)[s] = m * len}
<1>1. \A s \in SUBSET S : IsFiniteSet(s) /\ Cardinality(s) \in Nat
  BY FS_Subset, FS_CardinalityType
<1>2. 0 \in T
  <2> SUFFICES ASSUME NEW s \in SUBSET S, Cardinality(s) = 0
               PROVE  BytesIter(S)[s] = 0 * len
    OBVIOUS
  <2>1. s = {}
    BY <1>1, FS_EmptySet
  <2>2. BytesIter(S)[{}] = 0
    BY BytesIterUnfolds
  <2> QED BY <2>1, <2>2
<1>3. ASSUME NEW m \in T
      PROVE  m + 1 \in T
  <2>1. m \in Nat /\ m + 1 \in Nat
    BY <1>3
  <2> SUFFICES ASSUME NEW s \in SUBSET S, Cardinality(s) = m + 1
               PROVE  BytesIter(S)[s] = (m + 1) * len
    BY <2>1
  <2>2. s # {}
    <3>1. Cardinality({}) = 0
      BY FS_EmptySet
    <3>2. m + 1 # 0
      BY <2>1
    <3> QED BY <3>1, <3>2
  <2>3. PICK x \in s : BytesIter(S)[s] = Len(x.data) + BytesIter(S)[s \ {x}]
    BY <2>2, BytesIterUnfolds
  <2>4. Cardinality(s \ {x}) = m /\ s \ {x} \in SUBSET S
    <3>1. Cardinality(s \ {x}) = Cardinality(s) - 1
      BY <1>1, <2>3, FS_RemoveElement
    <3> QED BY <2>1, <3>1
  <2>5. BytesIter(S)[s \ {x}] = m * len
    BY <1>3, <2>4
  <2>6. Len(x.data) = len
    OBVIOUS
  <2> DEFINE y == BytesIter(S)[s]
  <2>7. y = len + m * len
    BY <2>3, <2>5, <2>6
  <2> HIDE DEF y
  <2>8. y = (m + 1) * len
    BY ONLY <2>1, <2>7, len \in Nat
  <2> QED BY <2>8 DEF y
<1>4. T \in SUBSET Nat
  OBVIOUS
<1> HIDE DEF T
<1>5. T = Nat
  BY ONLY <1>2, <1>3, <1>4, SetInduction
<1> QED BY <1>1, <1>5 DEF T

(* Of all frames that have arrived those before them have, and the width   *)
(* of their differences is known.                                          *)
HuffReadable ==
  HuffInv /\ Kind = "huffman" /\ WidthIsKnown /\ Arrived = 1 .. Len(items)

LEMMA HuffItems ==
  ASSUME HuffInv, Kind = "huffman"
  PROVE  /\ items \in Seq(HuffFrames) /\ Len(retVal) \in Nat
         /\ \A i \in 1 .. Len(retVal) : HuffFrame(i).packet = i /\ HuffHas(i)
         /\ \A p \in Arrived : p \in 1 .. Len(retVal)
         /\ \A f \in Range(items) : f.packet \in Arrived /\ f = HuffFrame(f.packet)
<1>1. Calculated /\ HuffSizes /\ HuffBuilt /\ HuffArrived
  BY DEF HuffInv
<1>2. items \in Seq(HuffFrames) /\ Len(retVal) \in Nat
  BY <1>1 DEF HuffArrived, EachOnce, HuffBuilt
<1>3. ASSUME NEW i \in 1 .. Len(retVal)
      PROVE  HuffFrame(i).packet = i /\ HuffHas(i)
  <2>1. i \in Nat /\ i > 0 /\ HuffHas(i)
    BY <1>1, <1>2 DEF HuffBuilt
  <2> QED BY <1>1, <2>1, HuffFields DEF HuffSizes
<1>4. ASSUME NEW f \in Range(items)
      PROVE  f.packet \in Arrived /\ f.packet \in 1 .. Len(retVal) /\ f = HuffFrame(f.packet)
  <2>1. f \in HuffFrames
    BY <1>2 DEF Range
  <2>2. PICK i \in 1 .. Len(retVal) : f = HuffFrame(i)
    BY <2>1 DEF HuffFrames
  <2> QED BY <1>3, <2>2 DEF Arrived
<1>5. \A p \in Arrived : p \in 1 .. Len(retVal)
  BY <1>4 DEF Arrived
<1> QED BY <1>2, <1>3, <1>4, <1>5

(* The offset of a frame is that of the sensors before it.                 *)
LEMMA HuffOffset ==
  ASSUME HuffReadable, NEW p \in Arrived
  PROVE  getHuffmanPacketMeasurementOffset(p) = (p - 1) * (sz1 * dataBytes)
<1> DEFINE S == Before(p)
           len == sz1 * dataBytes
           m == p - 1
<1>1. /\ Calculated /\ HuffSizes /\ Kind = "huffman" /\ Arrived = 1 .. Len(items)
      /\ items \in Seq(HuffFrames) /\ Len(retVal) \in Nat
      /\ \A i \in 1 .. Len(retVal) : HuffFrame(i).packet = i /\ HuffHas(i)
      /\ p \in 1 .. Len(retVal)
      /\ \A f \in Range(items) : f.packet \in Arrived /\ f = HuffFrame(f.packet)
  BY HuffItems DEF HuffReadable, HuffInv
<1>2. p \in Nat /\ p > 0 /\ m \in Nat /\ p \in 1 .. Len(items) /\ Len(items) \in Nat
  BY <1>1
<1>3. \A k \in 1 .. m : k \in Arrived /\ k \in 1 .. Len(retVal) /\ k < p /\ k \in Nat /\ k > 0
  BY <1>1, <1>2
<1>4. S = {HuffFrame(k) : k \in 1 .. m}
  <2>1. ASSUME NEW k \in 1 .. m
        PROVE  HuffFrame(k) \in S
    <3>1. PICK f \in Range(items) : f.packet = k
      BY <1>3 DEF Arrived
    <3>2. f = HuffFrame(k)
      BY <1>1, <3>1
    <3> QED BY <1>1, <1>3, <3>1, <3>2 DEF Before
  <2>2. ASSUME NEW f \in S
        PROVE  f.packet \in 1 .. m /\ f = HuffFrame(f.packet)
    <3>1. f \in Range(items) /\ f.packet < p
      BY DEF Before
    <3>2. f.packet \in 1 .. Len(items) /\ f = HuffFrame(f.packet)
      BY <1>1, <3>1
    <3> QED BY <1>2, <3>1, <3>2
  <2> HIDE DEF S, m
  <2> QED BY <2>1, <2>2
<1>5. IsFiniteSet(S) /\ Cardinality(S) = m
  <2> DEFINE g == [k \in 1 .. m |-> HuffFrame(k)]
  <2>1. IsFiniteSet(1 .. m) /\ Cardinality(1 .. m) = m
    <3>1. 1 \in Int /\ m \in Int
      BY <1>2
    <3>2. IsFiniteSet(1 .. m) /\ Cardinality(1 .. m) = IF 1 > m THEN 0 ELSE m - 1 + 1
      <4> HIDE DEF m
      <4> QED BY ONLY <3>1, FS_Interval
    <3> QED BY <1>2, <3>2
  <2>2. \A k \in 1 .. m : HuffFrame(k).packet = k
    BY <1>1, <1>3
  <2> HIDE DEF S, m
  <2>3. g \in [1 .. m -> S] /\ (\A x, y \in 1 .. m : g[x] = g[y] => x = y)
    BY <1>4, <2>2
  <2>4. \A f \in S : \E k \in 1 .. m : g[k] = f
    BY <1>4
  <2> HIDE DEF g
  <2>5. g \in Bijection(1 .. m, S)
    BY <2>3, <2>4 DEF Bijection, Injection, Surjection, IsInjective
  <2>6. ExistsBijection(1 .. m, S)
    BY <2>5 DEF ExistsBijection
  <2> QED BY <2>1, <2>6, FS_Bijection
<1>6. \A f \in S : Len(f.data) = len
  <2> SUFFICES ASSUME NEW k \in 1 .. m
               PROVE  Len(HuffFrame(k).data) = len
    BY <1>4
  <2>1. k \in Nat /\ k > 0 /\ HuffHas(k) /\ HuffHas(p)
    BY <1>1, <1>3
  <2>2. Len(HuffFrame(k).data) = HuffTaken(k) * dataBytes
    BY <1>1, <2>1, HuffFields DEF HuffSizes
  <2>3. HuffTaken(k) = IF HuffFrom(k) + sz1 <= sensors THEN sz1 ELSE sensors - HuffFrom(k)
    BY <1>1, <2>1, HuffNumbers DEF HuffSizes
  <2>4. HuffFrom(k) + sz1 <= sensors
    <3> DEFINE z == sz1
               s == sensors
    <3>1. z \in Nat /\ s \in Nat
      <4>1. z \in 0 .. s /\ s \in 0 .. 28
        BY <1>1, SensorsType DEF HuffSizes, Calculated
      <4> HIDE DEF z, s
      <4> QED BY <4>1
    <3>2. p # 1 /\ p - 1 >= k
      BY <1>2, <1>3
    <3>3. (p - 1) * z < s
      BY <2>1, <3>2 DEF HuffHas, HuffFrom
    <3> HIDE DEF z, s
    <3>4. k * z <= (p - 1) * z
      BY ONLY <1>2, <2>1, <3>1, <3>2
    <3>5. (k - 1) * z + z = k * z
      BY ONLY <2>1, <3>1
    <3>6. (k - 1) * z + z <= s
      BY ONLY <1>2, <2>1, <3>1, <3>3, <3>4, <3>5
    <3> QED BY <3>6 DEF HuffFrom, z, s
  <2> QED BY <2>2, <2>3, <2>4
<1>7. len \in Nat
  <2> DEFINE z == sz1
             s == sensors
             b == dataBytes
  <2>1. z \in 0 .. s /\ s \in 0 .. 28 /\ b \in {1, 2}
    BY <1>1, SensorsType DEF HuffSizes, Calculated, dataBytes, bytesRequiredForBits
  <2> HIDE DEF z, s, b
  <2>2. z * b \in Nat
    BY <2>1
  <2> QED BY <2>2 DEF z, b
<1>8. getHuffmanPacketMeasurementOffset(p) = BytesIter(S)[S]
  BY OffsetUnfolds
<1> HIDE DEF S, len, m
<1>9. BytesIter(S)[S] = m * len
  BY <1>5, <1>6, <1>7, BytesOfEqual
<1> QED BY <1>8, <1>9 DEF m, len

(* The sensors a frame has differences of.                                 *)
HuffSensors(p) ==
  {s \in HuffFrom(p) .. HuffFrom(p) + HuffTaken(p) - 1 : s < Len(value.base)}

(* Where a difference stands in the data of a frame.                       *)
LEMMA HuffDiff ==
  ASSUME HuffInv, Kind = "huffman", WidthSuffices, NEW p \in 1 .. Len(retVal),
         NEW s \in HuffSensors(p)
  PROVE  /\ s \in 0 .. sensors - 1 /\ s + 1 \in 1 .. Len(diffInt)
         /\ getDiff(HuffData(p), 0, dataBytes, s - HuffFrom(p)) = diffInt[s + 1]
<1> DEFINE from == HuffFrom(p)
           t == HuffTaken(p)
           z == sz1
           b == dataBytes
           k == sensors
           m == Len(value.base)
           l == Len(diffInt)
           n == DiffsTaken(from, z)
           j == s - from
           d == Differences(from, z)
<1>1. Calculated /\ HuffSizes /\ p \in Nat /\ p > 0 /\ HuffHas(p)
  BY DEF HuffInv, HuffBuilt
<1>2. /\ from \in Nat /\ t \in Nat /\ t <= z /\ z \in Nat
      /\ t = IF from + z <= k THEN z ELSE k - from
  BY <1>1, HuffNumbers DEF HuffSizes
<1>3. k \in 0 .. 28 /\ m \in Nat /\ l \in 0 .. 28 /\ l <= k /\ (l = k \/ l = m)
  BY <1>1, DeltasType, SensorsType DEF Calculated
<1>4. s \in from .. from + t - 1 /\ s < m
  BY DEF HuffSensors
<1>5. n \in 0 .. z /\ (n > 0 => from + n <= l) /\ (n = z \/ from + n >= l)
  <2>1. l \in Nat
    BY <1>3
  <2> HIDE DEF from, z
  <2> QED BY <1>2, <2>1, DiffsTakenType
<1>6. b \in {1, 2}
  BY DEF dataBytes, bytesRequiredForBits
<1>7. /\ d \in Seq(Byte) /\ Len(d) = n * b
      /\ \A i \in 0 .. n - 1 : getDiff(d, 0, b, i) = diffInt[from + i + 1]
  <2> HIDE DEF from, z
  <2> QED BY <1>1, <1>2, DifferencesData
<1>8. HuffData(p) = Resized(d, t * b)
  BY DEF HuffData
<1> HIDE DEF from, t, z, b, k, m, l, n, d
<1>9. s \in Nat /\ from <= s /\ s < from + t /\ s < k /\ s < l /\ n <= t
  <2>1. s \in Nat /\ from <= s /\ s < from + t
    BY ONLY <1>2, <1>4
  <2>2. from + t <= k
    BY ONLY <1>2, <1>3, <2>1
  <2>3. s < k /\ s < l
    BY ONLY <1>2, <1>3, <1>4, <2>1, <2>2
  <2>4. n <= t
    BY ONLY <1>2, <1>3, <1>5, <2>1, <2>3
  <2> QED BY <2>1, <2>3, <2>4
<1>10. s \in 0 .. k - 1 /\ s + 1 \in 1 .. l
  BY ONLY <1>3, <1>9
<1>11. j \in 0 .. n - 1 /\ j \in Nat /\ from + j + 1 = s + 1
  <2>1. n \in Nat /\ l \in Nat
    BY ONLY <1>2, <1>3, <1>5
  <2>2. s < from + n
    BY ONLY <1>2, <1>5, <1>9, <2>1
  <2> QED BY ONLY <1>2, <1>9, <2>1, <2>2
<1> HIDE DEF j
<1>12. t * b \in Nat /\ n * b <= t * b /\ j * b + b <= n * b
  <2>1. CASE b = 1
    BY ONLY <1>2, <1>5, <1>9, <1>11, <2>1
  <2>2. CASE b = 2
    BY ONLY <1>2, <1>5, <1>9, <1>11, <2>2
  <2> QED BY <1>6, <2>1, <2>2
<1>13. getDiff(Resized(d, t * b), 0, b, j) = getDiff(d, 0, b, j)
  <2> DEFINE r == t * b
  <2>1. r \in Nat /\ Len(d) <= r /\ j * b + b <= Len(d)
    BY <1>7, <1>12
  <2> HIDE DEF r
  <2>2. getDiff(Resized(d, r), 0, b, j) = getDiff(d, 0, b, j)
    BY ONLY <1>6, <1>7, <1>11, <2>1, ResizedKeepsDiff
  <2> QED BY <2>2 DEF r
<1>14. getDiff(d, 0, b, j) = diffInt[s + 1]
  BY <1>7, <1>11
<1> QED BY <1>8, <1>10, <1>13, <1>14 DEF k, l, b, j, from

LEMMA HuffFrameRead ==
  ASSUME HuffReadable, WidthSuffices, NEW p \in Arrived
  PROVE  /\ DOMAIN ValuesOf(HuffFrame(p)) = HuffSensors(p)
         /\ \A s \in HuffSensors(p) :
              /\ s \in 0 .. sensors - 1
              /\ ValuesOf(HuffFrame(p))[s] = double_2_TEMPERATURE_2_BYTES(temperature[s + 1])
<1> DEFINE f == HuffFrame(p)
           from == HuffFrom(p)
           t == HuffTaken(p)
           b == dataBytes
           data == HuffData(p)
           offset == (p - 1) * (sz1 * b)
           cnt == (Len(data) - 0) \div b
           of(s) == HTON2(NTOH2(double_2_TEMPERATURE_2_BYTES(value.base[s + 1]))
                            + getDiff(data, 0, b, s - from))
<1>1. /\ Calculated /\ HuffSizes /\ HuffInv /\ Kind = "huffman" /\ Arrived = 1 .. Len(items)
      /\ items \in Seq(HuffFrames) /\ Len(retVal) \in Nat
      /\ \A i \in 1 .. Len(retVal) : HuffFrame(i).packet = i /\ HuffHas(i)
      /\ p \in 1 .. Len(retVal)
  BY HuffItems DEF HuffReadable, HuffInv
<1>2. p \in Nat /\ p > 0 /\ HuffHas(p) /\ Len(items) \in Nat /\ p \in 1 .. Len(items)
  BY <1>1
<1>3. f.packet = p /\ f.data = data /\ Len(data) = t * b
  BY <1>1, <1>2, HuffFields DEF HuffSizes
<1>4. from \in Nat /\ from <= 28 /\ t \in Nat /\ sz1 \in Nat
  BY <1>1, <1>2, HuffNumbers DEF HuffSizes
<1>5. b \in {1, 2}
  BY DEF dataBytes, bytesRequiredForBits
<1>6. bytesRequiredForBits(getDataBits) = b
  <2>1. ASSUME NEW x \in Range(items), IsFirst(x)
        PROVE  x.bits = bitsPerSample
    <3>1. x = HuffFrame(1)
      BY <1>1, <2>1, HuffItems DEF IsFirst
    <3>2. HuffHas(1) /\ 1 \in Nat /\ 1 > 0
      BY DEF HuffHas
    <3> QED BY <1>1, <3>1, <3>2, HuffFields DEF HuffSizes
  <2>2. WidthIsKnown
    BY DEF HuffReadable
  <2> QED BY <1>1, <2>1, <2>2, DataBits
<1>7. ValuesOf(f) = getByDiff(f, offset)
  <2>1. Offset(f) = offset
    BY <1>1, <1>3, HuffOffset DEF Offset
  <2> QED BY <1>1, <2>1 DEF ValuesOf, ItemValues
<1>8. offset \div b = from /\ from % 256 = from /\ (offset # 0 \/ p = 1)
  <2> DEFINE z == sz1
             q == p - 1
  <2>1. from = q * z /\ q \in Nat /\ z \in Nat /\ (p = 1 \/ z > 0) /\ (q = 0 => p = 1)
    BY <1>2, <1>4 DEF HuffFrom, HuffHas
  <2>2. offset = q * (z * b)
    OBVIOUS
  <2> HIDE DEF z, q, b, from, offset
  <2>3. from % 256 = from
    BY ONLY <1>4
  <2>4. offset = from * b
    <3>1. CASE b = 1
      BY ONLY <2>1, <2>2, <3>1
    <3>2. CASE b = 2
      <4>1. q * (z * 2) = (q * z) * 2
        BY ONLY <2>1
      <4> QED BY ONLY <2>1, <2>2, <3>2, <4>1
    <3> QED BY <1>5, <3>1, <3>2
  <2>5. offset \div b = from
    <3>1. CASE b = 1
      BY ONLY <1>4, <2>4, <3>1
    <3>2. CASE b = 2
      BY ONLY <1>4, <2>4, <3>2
    <3> QED BY <1>5, <3>1, <3>2
  <2>6. p = 1 \/ from # 0
    BY ONLY <2>1
  <2>7. offset # 0 \/ p = 1
    BY ONLY <1>4, <1>5, <2>4, <2>6
  <2> QED BY <2>3, <2>5, <2>7
<1>9. cnt = t
  <2> DEFINE y == Len(data)
  <2>1. y = t * b
    BY <1>3
  <2> HIDE DEF y, t, b
  <2>2. (y - 0) \div b = t
    <3>1. CASE b = 1
      BY ONLY <1>4, <2>1, <3>1
    <3>2. CASE b = 2
      BY ONLY <1>4, <2>1, <3>2
    <3> QED BY <1>5, <3>1, <3>2
  <2> QED BY <2>2 DEF y, b, t
<1>10. ~(offset = 0 /\ ~IsFirst(f))
  BY <1>3, <1>8 DEF IsFirst
<1> HIDE DEF f, data, offset, of
<1>11. getByDiff(f, offset) =
         [s \in {x \in from .. from + cnt - 1 : x < Len(value.base)} |-> of(s)]
  BY <1>3, <1>6, <1>8, <1>10 DEF getByDiff, of
<1>12. getByDiff(f, offset) = [s \in HuffSensors(p) |-> of(s)]
  <2>1. {x \in from .. from + t - 1 : x < Len(value.base)} = HuffSensors(p)
    BY DEF HuffSensors
  <2> HIDE DEF cnt, from, t, b
  <2> QED BY <1>9, <1>11, <2>1
<1>13. ASSUME NEW s \in HuffSensors(p)
       PROVE  s \in 0 .. sensors - 1 /\ of(s) = double_2_TEMPERATURE_2_BYTES(temperature[s + 1])
  <2>1. /\ s \in 0 .. sensors - 1 /\ s + 1 \in 1 .. Len(diffInt)
        /\ getDiff(data, 0, b, s - from) = diffInt[s + 1]
    BY <1>1, HuffDiff DEF data
  <2>2. of(s) = HTON2(NTOH2(double_2_TEMPERATURE_2_BYTES(value.base[s + 1])) + diffInt[s + 1])
    BY <2>1 DEF of
  <2> QED BY <1>1, <2>1, <2>2, DeltasType
<1> QED BY <1>7, <1>12, <1>13 DEF f

LEMMA HuffRead ==
  ASSUME HuffReadable, WidthSuffices
  PROVE  IsMeasured(get)
<1>1. /\ Calculated /\ items \in Seq(HuffFrames)
      /\ \A f \in Range(items) : f.packet \in Arrived /\ f = HuffFrame(f.packet)
  BY HuffItems DEF HuffReadable, HuffInv
<1>2. ASSUME NEW s \in DOMAIN get
      PROVE  s \in 0 .. sensors - 1 /\ TEMPERATURE_2_BYTES_2_double(get[s]) = temperature[s + 1]
  <2>1. PICK j \in DOMAIN items : s \in DOMAIN ValuesOf(items[j]) /\ get[s] = ValuesOf(items[j])[s]
    BY <1>1, GetCovers
  <2>2. PICK p \in Arrived : items[j] = HuffFrame(p)
    BY <1>1, <2>1 DEF Range
  <2>3. s \in 0 .. sensors - 1 /\ get[s] = double_2_TEMPERATURE_2_BYTES(temperature[s + 1])
    BY <2>1, <2>2, HuffFrameRead
  <2> QED BY <1>1, <2>3, SensorComesBack DEF Calculated
<1> QED BY <1>2 DEF IsMeasured

(* If with each Huffman frame all that come before it have arrived: what   *)
(* LoggerCollection::get() reads of a sensor is what that sensor measured, *)
(* in every order of arrival if the differences take one byte each, and in *)
(* every one that begins with the first frame if they take two; where the  *)
(* differences fit the bytes they are sent in.                             *)
THEOREM HuffmanReadIsMeasured == Spec => [](Kind = "huffman" /\ WidthSuffices => ReadIsMeasured)
<1>1. HuffInv => (Kind = "huffman" /\ WidthSuffices => ReadIsMeasured)
  BY HuffRead DEF ReadIsMeasured, Readable, HuffReadable
<1> QED BY <1>1, HuffInvariant, PTL

(* Every sensor is in one of the frames built.                             *)
LEMMA HuffSensorIsSent ==
  ASSUME HuffInv, Kind = "huffman", phase = "built", Len(value.base) >= sensors,
         NEW s \in 0 .. sensors - 1
  PROVE  \E i \in 1 .. Len(retVal) : s \in HuffSensors(i)
<1> DEFINE n == Len(retVal)
           z == sz1
           k == sensors
           m == Len(value.base)
           I == {i \in 1 .. n : s < i * z}
           i == Min(I)
<1>1. Calculated /\ HuffSizes /\ HuffBuilt /\ n \in Nat /\ n >= 1 /\ k <= n * z
  BY DEF HuffInv, HuffPhases, HuffBuilt
<1>2. z \in Nat /\ k \in Nat /\ m \in Nat /\ m >= k
  <2>1. z \in 0 .. k /\ k \in 0 .. 28 /\ m \in Nat
    BY <1>1, SensorsType, DeltasType DEF HuffSizes, Calculated
  <2> HIDE DEF z, k, m
  <2>2. z \in Nat /\ k \in Nat
    BY ONLY <2>1
  <2> QED BY <2>1, <2>2 DEF m, k
<1>3. s \in Nat /\ s < k /\ s < m
  <2> HIDE DEF m, k
  <2>1. s \in 0 .. k - 1
    BY DEF k
  <2> QED BY ONLY <1>2, <2>1
<1> HIDE DEF n, z, k, m
<1>4. n \in I
  BY <1>1, <1>2, <1>3
<1>5. I \in SUBSET Nat /\ I # {}
  BY <1>1, <1>4
<1>6. i \in I /\ \A y \in I : i <= y
  <2> HIDE DEF I
  <2> QED BY ONLY <1>5, MinProperties
<1>7. i \in 1 .. n /\ s < i * z
  BY <1>6
<1>8. i = 1 \/ (i - 1) * z <= s
  <2> SUFFICES ASSUME i # 1
               PROVE  (i - 1) * z <= s
    OBVIOUS
  <2> HIDE DEF i
  <2>1. i - 1 \in 1 .. n /\ i - 1 \in Nat
    BY <1>1, <1>7
  <2>2. i - 1 \notin I
    BY <1>1, <1>6, <1>7, <2>1
  <2> DEFINE x == (i - 1) * z
  <2>3. x \in Nat /\ ~(s < x)
    BY <1>2, <2>1, <2>2
  <2> HIDE DEF x
  <2>4. x <= s
    BY ONLY <1>3, <2>3
  <2> QED BY <2>4 DEF x
<1> HIDE DEF i, I
<1> DEFINE from == HuffFrom(i)
           t == HuffTaken(i)
<1>9. i \in Nat /\ i > 0 /\ HuffHas(i)
  BY <1>1, <1>7 DEF HuffBuilt, n
<1>10. from \in Nat /\ t = IF from + z <= k THEN z ELSE k - from
  BY <1>1, <1>9, HuffNumbers DEF HuffSizes, z, k
<1>11. from <= s /\ from + z = i * z
  <2>1. from = (i - 1) * z
    BY DEF HuffFrom, z
  <2> HIDE DEF from
  <2>2. from + z = i * z
    BY ONLY <1>2, <1>9, <2>1
  <2>3. i = 1 => from = 0
    BY ONLY <1>2, <2>1
  <2>4. from <= s
    BY ONLY <1>3, <1>8, <2>1, <2>3
  <2> QED BY <2>2, <2>4
<1> HIDE DEF from, t
<1>12. s \in from .. from + t - 1
  <2>1. s < from + z
    BY <1>7, <1>11
  <2> QED BY ONLY <1>2, <1>3, <1>10, <1>11, <2>1
<1>13. s \in HuffSensors(i)
  BY <1>3, <1>12 DEF HuffSensors, from, t, m
<1> QED BY <1>7, <1>13 DEF n

(* When all Huffman frames of the differences to a base of as many sensors *)
(* have arrived, of two bytes each the first one first, every sensor's     *)
(* temperature is read, and no other.                                      *)
THEOREM HuffmanAllIsRead ==
  Spec => [](Kind = "huffman" /\ WidthSuffices /\ Len(value.base) >= sensors => AllIsRead)
<1>1. HuffInv => (Kind = "huffman" /\ WidthSuffices /\ Len(value.base) >= sensors => AllIsRead)
  <2> SUFFICES ASSUME HuffInv, Kind = "huffman", WidthSuffices, Len(value.base) >= sensors,
                      AllArrived, Readable
               PROVE  IsMeasured(get) /\ DOMAIN get = 0 .. sensors - 1
    BY DEF AllIsRead
  <2> DEFINE n == Len(retVal)
             S == HuffFrames
  <2>1. /\ EachOnce(S) /\ Len(items) = n /\ n \in Nat /\ phase = "built" /\ items \in Seq(S)
        /\ \A p \in Arrived : p \in 1 .. n
        /\ \A f \in Range(items) : f.packet \in Arrived /\ f = HuffFrame(f.packet)
    BY HuffItems DEF HuffInv, HuffArrived, AllArrived
  <2>2. \A j \in DOMAIN items : items[j].packet \in 1 .. n
    BY <2>1 DEF Range
  <2>3. \A i \in 1 .. n : \E j \in DOMAIN items : items[j].packet = i
    <3> HIDE DEF n, S
    <3> QED BY <2>1, <2>2, EveryFrameArrived
  <2>4. Arrived = 1 .. n
    <3>1. \A i \in 1 .. n : i \in Arrived
      BY <2>3 DEF Arrived, Range
    <3> QED BY <2>1, <3>1
  <2>5. HuffReadable
    BY <2>1, <2>4 DEF HuffReadable, Readable
  <2>6. IsMeasured(get) /\ DOMAIN get \subseteq 0 .. sensors - 1
    BY <2>5, HuffRead DEF IsMeasured
  <2>7. ASSUME NEW s \in 0 .. sensors - 1
        PROVE  s \in DOMAIN get
    <3>1. PICK i \in 1 .. n : s \in HuffSensors(i)
      BY <2>1, HuffSensorIsSent
    <3>2. PICK j \in DOMAIN items : items[j].packet = i
      BY <2>3
    <3>3. items[j] = HuffFrame(i)
      BY <2>1, <3>2 DEF Range
    <3>4. s \in DOMAIN ValuesOf(items[j])
      BY <2>4, <2>5, <3>1, <3>3, HuffFrameRead
    <3> QED BY <2>1, <3>4, GetCovers
  <2> QED BY <2>6, <2>7
<1> QED BY <1>1, HuffInvariant, PTL

-----------------------------------------------------------------------------
(* Frames of all kinds.                                                    *)

(* Where differences are of the temperatures themselves (the other build   *)
(* takes them of numbers whose bytes are exchanged) and the largest does   *)
(* not take exactly eight bits, the bytes they are sent in suffice.        *)
SentWide == Kind = "plain" \/ (HostSwaps /\ bitsPerSample # 8)

(* build() does not grow the first frame.                                  *)
SentPlain == Kind = "delta" => FirstIsFull

(* The base has a temperature for every sensor.                            *)
SentWhole == Kind = "plain" \/ Len(value.base) >= sensors

(* Of every kind: what is read of a sensor is what it measured, once what  *)
(* Readable asks for has arrived, where the first frame of differences is  *)
(* full and the bytes suffice.                                             *)
THEOREM EveryReadIsMeasured == Spec => [](SentPlain /\ SentWide => ReadIsMeasured)
<1>1. ASSUME Calculated,
             Kind = "plain" => ReadIsMeasured,
             DeltaFits /\ WidthSuffices => ReadIsMeasured,
             Kind = "huffman" /\ WidthSuffices => ReadIsMeasured,
             HostSwaps /\ bitsPerSample # 8 => WidthSuffices
      PROVE  SentPlain /\ SentWide => ReadIsMeasured
  BY <1>1, BuilderAssumption DEF Calculated, DeltaFits, Kind, SentPlain, SentWide
<1>2. HuffInv => Calculated
  BY DEF HuffInv
<1> QED BY <1>1, <1>2, HuffInvariant, PlainReadIsMeasured, DeltaReadIsMeasured,
        HuffmanReadIsMeasured, WidthIsEnough, PTL

(* Of every kind: when all frames have arrived, of two-byte differences    *)
(* the first one first, every sensor's temperature is read, where besides  *)
(* the base is as long as the measurement.                                 *)
THEOREM EveryAllIsRead == Spec => [](SentPlain /\ SentWide /\ SentWhole => AllIsRead)
<1>1. ASSUME Calculated,
             Kind = "plain" => AllIsRead,
             DeltaFits /\ WidthSuffices /\ Len(value.base) >= sensors => AllIsRead,
             Kind = "huffman" /\ WidthSuffices /\ Len(value.base) >= sensors => AllIsRead,
             HostSwaps /\ bitsPerSample # 8 => WidthSuffices
      PROVE  SentPlain /\ SentWide /\ SentWhole => AllIsRead
  BY <1>1, BuilderAssumption DEF Calculated, DeltaFits, Kind, SentPlain, SentWide, SentWhole
<1>2. HuffInv => Calculated
  BY DEF HuffInv
<1> QED BY <1>1, <1>2, HuffInvariant, PlainAllIsRead, DeltaAllIsRead, HuffmanAllIsRead,
        WidthIsEnough, PTL

-----------------------------------------------------------------------------
(* The type invariant, of frames of every kind and length.                 *)

(* The i-th frame of a measurement.                                        *)
IsFrame(f, i) ==
  /\ "packet" \in DOMAIN f
  /\ f.packet = i /\ f.size \in 4 .. 255 /\ f.data \in Seq(Byte)
  /\ i = 1 => f.packets \in Byte /\ f.bits \in 0 .. 15

IsList(s) == \E S : s \in Seq(S)

FramesTyped ==
  /\ IsList(retVal)
  /\ \A i \in DOMAIN retVal : IsFrame(retVal[i], i)

(* Items are of other frames of the measurement each.                      *)
ItemsTyped ==
  /\ \E S : EachOnce(S)
  /\ \A j \in DOMAIN items : items[j].packet \in 1 .. Len(retVal)

(* The differences' frames: also when the first one is not full.           *)
DeltaShape ==
  /\ FramesTyped /\ ItemsTyped
  /\ \/ phase = "first" /\ Len(retVal) = 0 /\ ofs = 0
     \/ phase = "second" /\ ofs \in Nat /\ Len(retVal) = ofs + 1
     \/ phase = "built"
  /\ phase # "built" => items = <<>>

CountersTyped ==
  /\ sz1 \in 0 .. sensors /\ sz2 \in 0 .. sensors /\ ofs \in Nat
  /\ phase \in {"first", "second", "built", "undefined"}

TypeInv == Calculated /\ CountersTyped /\ (Kind = "delta" => DeltaShape)

LEMMA ListAppended ==
  ASSUME NEW s, IsList(s), NEW f
  PROVE  LET t == Append(s, f)
         IN  /\ IsList(t) /\ Len(s) \in Nat /\ DOMAIN s = 1 .. Len(s)
             /\ Len(t) = Len(s) + 1 /\ DOMAIN t = 1 .. Len(s) + 1
             /\ t[Len(s) + 1] = f
             /\ \A i \in 1 .. Len(s) : t[i] = s[i]
             /\ \A i \in 1 .. Len(s) + 1 : i \in 1 .. Len(s) \/ i = Len(s) + 1
<1>1. PICK S : s \in Seq(S)
  BY DEF IsList
<1> DEFINE U == S \cup {f}
<1>2. s \in Seq(U) /\ f \in U
  <2>1. Len(s) \in Nat /\ s \in [1 .. Len(s) -> S]
    BY <1>1
  <2>2. s \in [1 .. Len(s) -> U]
    BY <2>1
  <2> QED BY <2>1, <2>2
<1> HIDE DEF U
<1>3. LET t == Append(s, f)
      IN  /\ t \in Seq(U) /\ Len(t) = Len(s) + 1 /\ DOMAIN t = 1 .. Len(s) + 1
          /\ t[Len(s) + 1] = f
          /\ \A i \in 1 .. Len(s) : t[i] = s[i]
          /\ \A i \in 1 .. Len(s) + 1 : i \in 1 .. Len(s) \/ i = Len(s) + 1
  BY <1>2, Appended
<1> QED BY <1>2, <1>3 DEF IsList

(* A frame is pushed: frames keep their types.                             *)
LEMMA PushTyped ==
  ASSUME FramesTyped, NEW f, IsFrame(f, Len(retVal) + 1), retVal' = Append(retVal, f)
  PROVE  FramesTyped' /\ Len(retVal') = Len(retVal) + 1
<1> DEFINE n == Len(retVal)
           t == Append(retVal, f)
<1>1. /\ IsList(t) /\ n \in Nat /\ DOMAIN retVal = 1 .. n
      /\ Len(t) = n + 1 /\ DOMAIN t = 1 .. n + 1 /\ t[n + 1] = f
      /\ \A i \in 1 .. n : t[i] = retVal[i]
      /\ \A i \in 1 .. n + 1 : i \in 1 .. n \/ i = n + 1
  BY ListAppended DEF FramesTyped
<1>2. \A i \in 1 .. n : IsFrame(retVal[i], i)
  BY <1>1 DEF FramesTyped
<1>3. retVal' = t /\ IsFrame(f, n + 1)
  OBVIOUS
<1> HIDE DEF t, n
<1>4. \A i \in 1 .. n + 1 : IsFrame(t[i], i)
  BY <1>1, <1>2, <1>3, Zenon
<1>5. IsList(retVal') /\ \A i \in DOMAIN retVal' : IsFrame(retVal'[i], i)
  BY <1>1, <1>3, <1>4
<1>6. FramesTyped'
  BY <1>5 DEF FramesTyped, IsList, IsFrame, Byte
<1> QED BY <1>1, <1>3, <1>6 DEF n

(* The fields of the first header.                                         *)
LEMMA HeaderTyped ==
  ASSUME Calculated
  PROVE  /\ FirstHeader.packet = 1 /\ FirstHeader.packets \in Byte /\ FirstHeader.bits \in 0 .. 15
         /\ bitsPerSample \in 0 .. 15 /\ dataBytes \in {1, 2}
         /\ dataBytes = IF bitsPerSample > 8 THEN 2 ELSE 1
<1>1. bitsPerSample \in 0 .. 15
  <2> DEFINE v == MaxDiff % 65536
             S == {b \in 0 .. 14 : v < 2 ^ b}
  <2>1. bitsPerSample = Min(S \cup {15})
    BY DEF Calculated, calcDeltas, calcRequiredBits
  <2>2. S \in SUBSET (0 .. 14)
    OBVIOUS
  <2> HIDE DEF S
  <2>3. S \cup {15} \in SUBSET Nat /\ S \cup {15} # {}
    BY ONLY <2>2
  <2>4. Min(S \cup {15}) \in S \cup {15}
    BY ONLY <2>3, MinProperties
  <2> DEFINE k == Min(S \cup {15})
  <2>5. k \in 0 .. 14 \/ k = 15
    BY ONLY <2>2, <2>4
  <2> HIDE DEF k
  <2>6. k \in 0 .. 15
    BY ONLY <2>5
  <2> QED BY ONLY <2>1, <2>6 DEF k
<1>2. dataBytes \in {1, 2} /\ dataBytes = IF bitsPerSample > 8 THEN 2 ELSE 1
  BY DEF dataBytes, bytesRequiredForBits
<1>3. sensors \in 0 .. 28 /\ PlainPackets \in 1 .. 7
  BY SensorsType DEF Calculated
<1>4. SecondPackets(sensors) \in 0 .. 3
  <2> DEFINE s == sensors
             b == dataBytes
             first == 6 \div b
             m == Min({first, s})
             rest == s - m
             full == (rest * b) \div 20
  <2>1. SecondPackets(s) = IF rest > (full * 20) \div b THEN full + 1 ELSE full
    BY DEF SecondPackets
  <2>2. s \in 0 .. 28 /\ b \in {1, 2}
    BY <1>2, <1>3
  <2> HIDE DEF s, b
  <2>3. first \in {6, 3}
    BY <2>2
  <2> HIDE DEF first
  <2>4. m = IF first <= s THEN first ELSE s
    BY <2>2, <2>3, MinOfTwo
  <2> HIDE DEF m
  <2>5. rest \in Nat /\ rest <= 28
    BY ONLY <2>2, <2>3, <2>4
  <2> HIDE DEF rest
  <2>6. full \in Nat /\ full <= 2
    BY <2>2, <2>5
  <2> HIDE DEF full
  <2>7. SecondPackets(s) \in 0 .. 3
    BY <2>1, <2>6
  <2> QED BY <2>7 DEF s
<1>5. FirstHeader.packet = 1 /\ FirstHeader.packets \in 1 .. 7 /\ FirstHeader.bits \in 0 .. 15
  <2>1. SecondPackets(sensors) + 1 \in 1 .. 7
    BY <1>4
  <2> QED BY <1>1, <1>3, <2>1 DEF FirstHeader
<1>6. FirstHeader.packets \in Byte
  BY <1>5 DEF Byte
<1> QED BY <1>1, <1>2, <1>5, <1>6

(* The first frame of differences, however many there are.                 *)
LEMMA DeltaFirstTyped ==
  ASSUME Calculated, Kind = "delta"
  PROVE  LET size == IF 6 \div dataBytes > Len(diffInt)
                     THEN MaxFrame - (6 - Len(diffInt) * bitsPerSample) ELSE MaxFrame
             data == Resized(Differences(0, 6 \div dataBytes), size - 18)
         IN  IsFrame(Over(FirstHeader, [data |-> data, size |-> size]), 1)
<1> DEFINE l == Len(diffInt)
           b == dataBytes
           bits == bitsPerSample
           size == IF 6 \div b > l THEN MaxFrame - (6 - l * bits) ELSE MaxFrame
           data == Resized(Differences(0, 6 \div b), size - 18)
           h == FirstHeader
           f == Over(h, [data |-> data, size |-> size])
<1>1. /\ h.packet = 1 /\ h.packets \in Byte /\ h.bits \in 0 .. 15
      /\ bits \in 0 .. 15 /\ b \in {1, 2} /\ l \in 0 .. 28
  BY HeaderTyped, DeltasType
<1>2. DOMAIN h = {"packet", "packets", "bits"}
  BY DEF FirstHeader
<1>3. 6 \div b \in Nat
  <2> HIDE DEF b
  <2> QED BY <1>1
<1>4. size \in 18 .. 255
  <2> HIDE DEF b, l, bits
  <2>1. CASE 6 \div b > l
    <3>1. l \in Nat /\ l <= 5
      BY <1>1, <2>1
    <3>2. l * bits \in Nat /\ l * bits <= 75
      BY <1>1, <3>1
    <3> DEFINE x == l * bits
    <3>3. x \in Nat /\ x <= 75 /\ size = 24 - (6 - x)
      BY <2>1, <3>2 DEF MaxFrame
    <3> HIDE DEF x, size
    <3> QED BY <3>3
  <2>2. CASE ~(6 \div b > l)
    BY <2>2 DEF MaxFrame
  <2> QED BY <2>1, <2>2
<1> HIDE DEF size
<1>5. data \in Seq(Byte)
  <2>1. Differences(0, 6 \div b) \in Seq(Byte)
    BY <1>3, DifferencesData
  <2>2. size - 18 \in Nat
    BY <1>4
  <2> QED BY <2>1, <2>2, ResizedType
<1>6. size \in 4 .. 255
  BY <1>4
<1> HIDE DEF data, h
<1>7. /\ "packet" \in DOMAIN f /\ f.packet = 1 /\ f.size = size /\ f.data = data
      /\ f.packets = h.packets /\ f.bits = h.bits
  BY <1>1, <1>2 DEF Over
<1> HIDE DEF f
<1>8. IsFrame(f, 1)
  BY <1>1, <1>5, <1>6, <1>7, Zenon DEF IsFrame
<1> QED BY <1>8 DEF f, h, data, size, b, l, bits

(* Any other frame of differences.                                         *)
LEMMA DeltaSecondTyped ==
  ASSUME Calculated, ofs \in Nat
  PROVE  LET data == Differences((6 + ofs * 20) \div dataBytes, 20 \div dataBytes)
         IN  IsFrame(Over(SecondHeader(ofs + 2), [data |-> data, size |-> 4 + Len(data)]), ofs + 2)
<1> DEFINE b == dataBytes
           from == (6 + ofs * 20) \div b
           c == 20 \div b
           n == DiffsTaken(from, c)
           data == Differences(from, c)
           size == 4 + Len(data)
           f == Over(SecondHeader(ofs + 2), [data |-> data, size |-> size])
<1>1. b \in {1, 2} /\ Len(diffInt) \in Nat
  <2>1. Len(diffInt) \in 0 .. 28
    BY DeltasType
  <2> QED BY <2>1 DEF dataBytes, bytesRequiredForBits
<1>2. from \in Nat /\ c \in Nat /\ c * b = 20
  <2> HIDE DEF b
  <2>1. 6 + ofs * 20 \in Nat
    OBVIOUS
  <2>2. CASE b = 1
    BY <2>1, <2>2
  <2>3. CASE b = 2
    BY <2>1, <2>3
  <2> QED BY <1>1, <2>2, <2>3
<1> HIDE DEF from, c
<1>3. n \in 0 .. c
  BY <1>1, <1>2, DiffsTakenType
<1>4. data \in Seq(Byte) /\ Len(data) = n * b
  BY <1>2, DifferencesData
<1>5. size \in 4 .. 255
  <2> DEFINE k == Len(data)
  <2>1. k = n * b
    BY <1>4
  <2> HIDE DEF k, n, b
  <2>2. k \in Nat /\ k <= 20
    <3>1. CASE b = 1
      BY ONLY <1>2, <1>3, <2>1, <3>1
    <3>2. CASE b = 2
      BY ONLY <1>2, <1>3, <2>1, <3>2
    <3> QED BY <1>1, <3>1, <3>2
  <2>3. 4 + k \in 4 .. 255
    BY ONLY <2>2
  <2> QED BY <2>3 DEF k
<1> HIDE DEF data, size
<1> DEFINE i == ofs + 2
<1>6. i # 1
  OBVIOUS
<1> HIDE DEF i
<1>7. "packet" \in DOMAIN f /\ f.packet = i /\ f.size = size /\ f.data = data
  BY DEF Over, SecondHeader, i
<1> HIDE DEF f
<1>8. IsFrame(f, i)
  BY <1>4, <1>5, <1>6, <1>7, Zenon DEF IsFrame
<1> QED BY <1>8 DEF f, i, data, size, from, c, b

LEMMA TypeInvInit == Init => TypeInv
<1> SUFFICES ASSUME Init
             PROVE  TypeInv
  OBVIOUS
<1>1. /\ Calculated /\ retVal = <<>> /\ phase = "first" /\ items = <<>> /\ ofs = 0
      /\ sz1 = sensors /\ sz2 = 0
  BY DEF Init, BuilderInit, Calculated
<1>2. CountersTyped
  <2> DEFINE s == sensors
             z == sz1
  <2>1. s \in 0 .. 28 /\ z = s
    BY <1>1, SensorsType DEF Calculated
  <2> HIDE DEF s, z
  <2>2. z \in 0 .. s /\ 0 \in 0 .. s
    BY ONLY <2>1
  <2> QED BY <1>1, <2>2 DEF CountersTyped, s, z
<1>3. <<>> \in Seq({})
  OBVIOUS
<1>4. FramesTyped /\ ItemsTyped
  BY <1>1, <1>3 DEF FramesTyped, ItemsTyped, IsList, EachOnce
<1> QED BY <1>1, <1>2, <1>4 DEF TypeInv, DeltaShape

(* A list of other frames of the measurement each gets another one.        *)
LEMMA PutTyped ==
  ASSUME FramesTyped, ItemsTyped, Put, Kind = "delta"
  PROVE  FramesTyped' /\ ItemsTyped'
<1>1. PICK f \in Range(retVal) : f.packet \notin Arrived /\ items' = Append(items, set(f))
  BY DEF Put
<1>2. retVal' = retVal
  BY DEF Put, builderVars
<1>3. FramesTyped'
  BY <1>2 DEF FramesTyped, IsList, IsFrame, Byte
<1>4. PICK i \in DOMAIN retVal : f = retVal[i]
  BY <1>1 DEF Range
<1> DEFINE n == Len(retVal)
           m == Len(items)
           g == set(f)
           t == Append(items, g)
<1>5. DOMAIN retVal = 1 .. n
  <2>1. PICK S : retVal \in Seq(S)
    BY DEF FramesTyped, IsList
  <2> QED BY <2>1
<1>6. g.packet = f.packet /\ f.packet \in 1 .. n
  <2>1. "packet" \in DOMAIN f /\ f.packet = i
    BY <1>4 DEF FramesTyped, IsFrame
  <2>2. set(f).packet = f.packet
    BY <2>1 DEF set
  <2> QED BY <1>4, <1>5, <2>1, <2>2
<1> HIDE DEF g, n
<1>7. PICK S : EachOnce(S)
  BY DEF ItemsTyped
<1> DEFINE U == S \cup {g}
<1>8. items \in Seq(U) /\ g \in U /\ DOMAIN items = 1 .. m /\ m \in Nat
  <2>1. items \in Seq(S)
    BY <1>7 DEF EachOnce
  <2>2. Len(items) \in Nat /\ items \in [1 .. Len(items) -> S]
    BY <2>1
  <2>3. items \in [1 .. Len(items) -> U]
    BY <2>2
  <2> QED BY <2>2, <2>3
<1> HIDE DEF U
<1>9. /\ t \in Seq(U) /\ DOMAIN t = 1 .. m + 1 /\ t[m + 1] = g
      /\ \A j \in 1 .. m : t[j] = items[j]
      /\ \A j \in 1 .. m + 1 : j \in 1 .. m \/ j = m + 1
  BY <1>8, Appended
<1>10. items' = t
  BY <1>1 DEF g
<1>11. \A j \in 1 .. m : items[j].packet # g.packet /\ items[j].packet \in 1 .. n
  <2>1. \A j \in 1 .. m : items[j].packet \in Arrived
    BY <1>8 DEF Arrived, Range
  <2> QED BY <1>1, <1>6, <1>8, <2>1 DEF ItemsTyped, n
<1>12. \A j, k \in 1 .. m : items[j].packet = items[k].packet => j = k
  BY <1>7, <1>8 DEF EachOnce
<1> HIDE DEF t, m
<1>13. \A j, k \in 1 .. m + 1 : t[j].packet = t[k].packet => j = k
  BY <1>9, <1>11, <1>12
<1>14. \A j \in 1 .. m + 1 : t[j].packet \in 1 .. n
  BY <1>6, <1>9, <1>11
<1>15. Len(retVal') = n
  BY <1>2 DEF n
<1>16. /\ items' \in Seq(U)
       /\ \A j, k \in DOMAIN items' : items'[j].packet = items'[k].packet => j = k
       /\ \A j \in DOMAIN items' : items'[j].packet \in 1 .. Len(retVal')
  BY <1>9, <1>10, <1>13, <1>14, <1>15
<1>17. ItemsTyped'
  BY <1>16 DEF ItemsTyped, EachOnce
<1> QED BY <1>3, <1>17

LEMMA CountersStep ==
  ASSUME TypeInv, [Next]_vars
  PROVE  CountersTyped'
<1>1. value' = value
  BY DEF vars, Next, Build, PlainFirst, PlainSecond, DeltaFirst, DeltaSecond, endBuild,
     HuffmanFirst, HuffmanSecond, endHuffmanChunk, Put, builderVars
<1> DEFINE s == sensors
           h == sz1 \div 2
<1>2. sensors' = s
  BY <1>1 DEF sensors, temperature
<1>3. s \in 0 .. 28 /\ sz1 \in 0 .. s /\ sz2 \in 0 .. s /\ ofs \in Nat
  BY SensorsType DEF TypeInv, CountersTyped, Calculated
<1> HIDE DEF s
<1>4. h \in 0 .. s /\ s \in Nat /\ sz1 \in Nat /\ sz2 \in Nat
  BY ONLY <1>3
<1> HIDE DEF h
<1>5. phase \in {"first", "second", "built", "undefined"}
  BY DEF TypeInv, CountersTyped
<1>6. sz1' \in {sz1, h} /\ sz2' \in {sz2, h}
  BY DEF vars, Next, Build, PlainFirst, PlainSecond, DeltaFirst, DeltaSecond, endBuild,
     HuffmanFirst, HuffmanSecond, endHuffmanChunk, Put, builderVars, h
<1>7. ofs' \in {ofs, ofs + 5, ofs + 1, s, sz1, ofs + sz2, 0}
  BY DEF vars, Next, Build, PlainFirst, PlainSecond, DeltaFirst, DeltaSecond, endBuild,
     HuffmanFirst, HuffmanSecond, endHuffmanChunk, Put, builderVars, s
<1>8. phase' \in {phase, "first", "second", "built", "undefined"}
  BY DEF vars, Next, Build, PlainFirst, PlainSecond, DeltaFirst, DeltaSecond, endBuild,
     HuffmanFirst, HuffmanSecond, endHuffmanChunk, Put, builderVars
<1>9. sz1' \in 0 .. s /\ sz2' \in 0 .. s
  BY ONLY <1>3, <1>4, <1>6
<1>10. ofs' \in Nat
  BY ONLY <1>3, <1>4, <1>7
<1>11. phase' \in {"first", "second", "built", "undefined"}
  BY ONLY <1>5, <1>8
<1> QED BY <1>2, <1>9, <1>10, <1>11 DEF CountersTyped

LEMMA TypeInvStep == TypeInv /\ [Next]_vars => TypeInv'
<1> SUFFICES ASSUME TypeInv, [Next]_vars
             PROVE  TypeInv'
  OBVIOUS
<1>1. value' = value /\ diffInt' = diffInt /\ bitsPerSample' = bitsPerSample
  BY DEF vars, Next, Build, PlainFirst, PlainSecond, DeltaFirst, DeltaSecond, endBuild,
     HuffmanFirst, HuffmanSecond, endHuffmanChunk, Put, builderVars
<1>2. Calculated /\ Calculated' /\ Kind' = Kind
  BY <1>1, SameDifferences DEF TypeInv
<1>3. CountersTyped'
  BY CountersStep
<1>4. SUFFICES ASSUME Kind = "delta"
               PROVE  DeltaShape'
  BY <1>2, <1>3 DEF TypeInv
<1>5. /\ FramesTyped /\ ItemsTyped /\ Len(retVal) \in Nat
      /\ \/ phase = "first" /\ Len(retVal) = 0 /\ ofs = 0
         \/ phase = "second" /\ ofs \in Nat /\ Len(retVal) = ofs + 1
         \/ phase = "built"
      /\ phase # "built" => items = <<>>
  <2>1. DeltaShape
    BY <1>4 DEF TypeInv
  <2>2. PICK S : retVal \in Seq(S)
    BY <2>1 DEF DeltaShape, FramesTyped, IsList
  <2> QED BY <2>1, <2>2 DEF DeltaShape
<1>6. ASSUME items = <<>>, items' = items
      PROVE  ItemsTyped'
  <2>1. items' \in Seq({})
    BY <1>6
  <2> QED BY <1>6, <2>1 DEF ItemsTyped, EachOnce
<1>7. ASSUME retVal' = retVal
      PROVE  FramesTyped'
  BY <1>5, <1>7 DEF FramesTyped, IsList, IsFrame, Byte
<1>8. CASE UNCHANGED vars
  <2>1. retVal' = retVal /\ ofs' = ofs /\ phase' = phase /\ items' = items
    BY <1>8 DEF vars, builderVars
  <2>2. ItemsTyped'
    BY <1>5, <2>1 DEF ItemsTyped, EachOnce
  <2> QED BY <1>5, <1>7, <2>1, <2>2 DEF DeltaShape
<1>9. CASE DeltaFirst /\ UNCHANGED items
  <2> DEFINE size == IF 6 \div dataBytes > Len(diffInt)
                     THEN MaxFrame - (6 - Len(diffInt) * bitsPerSample) ELSE MaxFrame
             data == Resized(Differences(0, 6 \div dataBytes), size - 18)
             f == Over(FirstHeader, [data |-> data, size |-> size])
  <2>1. /\ phase = "first" /\ phase' = "second" /\ ofs' = ofs /\ items' = items
        /\ retVal' = Append(retVal, f)
    BY <1>9 DEF DeltaFirst, Push
  <2>2. IsFrame(f, 1)
    BY <1>2, <1>4, DeltaFirstTyped
  <2> HIDE DEF f
  <2>3. Len(retVal) = 0 /\ ofs = 0 /\ items = <<>>
    BY <1>5, <2>1
  <2>4. FramesTyped' /\ Len(retVal') = Len(retVal) + 1
    BY <1>5, <2>1, <2>2, <2>3, PushTyped
  <2> QED BY <1>6, <2>1, <2>3, <2>4 DEF DeltaShape
<1>10. CASE DeltaSecond /\ UNCHANGED items
  <2> DEFINE data == Differences((6 + ofs * 20) \div dataBytes, 20 \div dataBytes)
             f == Over(SecondHeader(ofs + 2), [data |-> data, size |-> 4 + Len(data)])
  <2>1. /\ phase = "second" /\ phase' = "second" /\ ofs' = ofs + 1 /\ items' = items
        /\ retVal' = Append(retVal, f)
    BY <1>10 DEF DeltaSecond, Push
  <2>2. ofs \in Nat /\ Len(retVal) = ofs + 1 /\ items = <<>>
    BY <1>5, <2>1
  <2>3. IsFrame(f, ofs + 2)
    BY <1>2, <2>2, DeltaSecondTyped
  <2> HIDE DEF f
  <2>4. ofs + 2 = Len(retVal) + 1
    BY <2>2
  <2>5. FramesTyped' /\ Len(retVal') = Len(retVal) + 1
    BY <1>5, <2>1, <2>3, <2>4, PushTyped
  <2>6. Len(retVal') = ofs' + 1 /\ ofs' \in Nat
    BY <2>1, <2>2, <2>5
  <2> QED BY <1>6, <2>1, <2>2, <2>5, <2>6 DEF DeltaShape
<1>11. CASE endBuild /\ UNCHANGED items
  <2>1. phase = "second" /\ phase' = "built" /\ retVal' = retVal /\ items' = items
    BY <1>11 DEF endBuild
  <2> QED BY <1>5, <1>6, <1>7, <2>1 DEF DeltaShape
<1>12. CASE Put
  <2>1. phase = "built" /\ phase' = phase
    BY <1>12 DEF Put, builderVars
  <2>2. FramesTyped' /\ ItemsTyped'
    BY <1>4, <1>5, <1>12, PutTyped
  <2> QED BY <2>1, <2>2 DEF DeltaShape
<1> QED BY <1>4, <1>8, <1>9, <1>10, <1>11, <1>12 DEF Next, Build, PlainFirst, PlainSecond,
        HuffmanFirst, HuffmanSecond, endHuffmanChunk

LEMMA TypeInvariant == Spec => []TypeInv
BY TypeInvInit, TypeInvStep, PTL DEF Spec

(* Frames of temperatures and Huffman frames have their types too.         *)
LEMMA PlainTyped ==
  ASSUME PlainInv, Kind = "plain", Calculated
  PROVE  FramesTyped /\ ItemsTyped
<1>1. value \in Measurements /\ PlainPhases /\ PlainBuilt /\ PlainArrived
  BY DEF PlainInv
<1>2. PlainPackets \in 1 .. 7
  BY <1>1, SensorsType
<1>3. ASSUME NEW i \in 1 .. PlainPackets
      PROVE  PlainFrame(i).packet = i /\ IsFrame(PlainFrame(i), i)
  <2> DEFINE f == PlainFrame(i)
  <2>1. "packet" \in DOMAIN f
    <3>1. "packet" \in DOMAIN FirstHeader /\ "packet" \in DOMAIN SecondHeader(i)
      BY DEF FirstHeader, SecondHeader
    <3>2. CASE i = 1
      BY <3>1, <3>2 DEF PlainFrame, Over
    <3>3. CASE i # 1
      <4> DEFINE g == SecondHeader(i)
      <4>1. PICK r : f = Over(g, r)
        BY <3>3 DEF PlainFrame
      <4> HIDE DEF f, g
      <4>2. "packet" \in DOMAIN f
        BY <3>1, <4>1 DEF Over, g
      <4> QED BY <4>2
    <3> QED BY <3>2, <3>3
  <2>2. f.packet = i
    BY <1>1, PlainFields
  <2>3. CASE i = 1
    <3>1. f.data = <<>> /\ f.size = 24 /\ f.packets = PlainPackets /\ f.bits = 0
      BY <1>1, <2>3, PlainFields DEF MaxFrame
    <3>2. f.data \in Seq(Byte) /\ f.size \in 4 .. 255 /\ f.bits \in 0 .. 15 /\ f.packets \in Byte
      BY <1>2, <3>1 DEF Byte
    <3> HIDE DEF f
    <3>3. IsFrame(f, i)
      BY <2>1, <2>2, <2>3, <3>2, Zenon DEF IsFrame
    <3> QED BY <2>2, <3>3 DEF f
  <2>4. CASE i # 1
    <3> DEFINE from == 5 * (i - 2)
               d == setMeasurementsData(from)
    <3>1. i \in 2 .. PlainPackets
      BY <1>2, <2>4
    <3>2. from \in Nat /\ from < sensors /\ sensors \in 0 .. 28 /\ temperature \in Seq(Temperatures)
      BY <1>1, <3>1, SensorsType
    <3>3. f.data = d /\ f.size = 4 + Len(f.data)
      BY <1>1, <2>4, PlainFields
    <3> HIDE DEF from
    <3>4. d \in Seq(Byte) /\ Len(d) = 4 * Taken(from) /\ Taken(from) \in 1 .. 5
      BY <3>2, PlainData
    <3> HIDE DEF d, f
    <3> DEFINE k == Len(f.data)
               m == Taken(from)
    <3>5. k = 4 * m /\ m \in 1 .. 5 /\ f.size = 4 + k
      BY <3>3, <3>4
    <3> HIDE DEF k, m
    <3>6. f.size \in 4 .. 255
      BY ONLY <3>5
    <3>7. IsFrame(f, i)
      BY <2>1, <2>2, <2>4, <3>3, <3>4, <3>6, Zenon DEF IsFrame
    <3> QED BY <2>2, <3>7 DEF f
  <2> QED BY <2>2, <2>3, <2>4
<1>4. FramesTyped
  <2>1. IsList(retVal) /\ DOMAIN retVal = 1 .. Len(retVal) /\ Len(retVal) \in Nat
    BY <1>1 DEF PlainBuilt, IsList
  <2>2. \A i \in DOMAIN retVal : i \in 1 .. PlainPackets /\ retVal[i] = PlainFrame(i)
    BY <1>1, <1>2, <2>1 DEF PlainBuilt
  <2> QED BY <1>3, <2>1, <2>2 DEF FramesTyped
<1>5. ItemsTyped
  <2>1. EachOnce(PlainFrames)
    BY <1>1 DEF PlainArrived
  <2>2. ASSUME NEW j \in DOMAIN items
        PROVE  items[j].packet \in 1 .. Len(retVal)
    <3>1. phase = "built"
      BY <1>1, <2>2 DEF PlainArrived
    <3>2. Len(retVal) = PlainPackets
      BY <1>1, <3>1 DEF PlainPhases
    <3>3. PICK i \in 1 .. PlainPackets : items[j] = PlainFrame(i)
      BY <2>1, <2>2 DEF EachOnce, PlainFrames
    <3> QED BY <1>3, <3>2, <3>3
  <2> QED BY <2>1, <2>2 DEF ItemsTyped
<1> QED BY <1>4, <1>5

LEMMA HuffTyped ==
  ASSUME HuffInv, Kind = "huffman"
  PROVE  FramesTyped /\ ItemsTyped
<1>1. Calculated /\ HuffSizes /\ HuffBuilt /\ HuffArrived
  BY DEF HuffInv
<1>2. PlainPackets \in 1 .. 7 /\ bitsPerSample \in 0 .. 15
  BY <1>1, SensorsType, HeaderTyped DEF Calculated
<1>3. ASSUME NEW i \in 1 .. Len(retVal)
      PROVE  IsFrame(HuffFrame(i), i) /\ HuffFrame(i).packet = i /\ retVal[i] = HuffFrame(i)
  <2> DEFINE f == HuffFrame(i)
  <2>1. i \in Nat /\ i > 0 /\ HuffHas(i) /\ retVal[i] = f
    BY <1>1 DEF HuffBuilt
  <2>2. /\ f.packet = i /\ f.data = HuffData(i) /\ HuffData(i) \in Seq(Byte)
        /\ i = 1 => f.bits = bitsPerSample /\ f.packets = PlainPackets
        /\ f.size \in Nat /\ 4 <= f.size /\ f.size <= 90
    BY <1>1, <2>1, HuffFields DEF HuffSizes
  <2>3. "packet" \in DOMAIN f
    <3> DEFINE h == IF i = 1 THEN FirstHeader ELSE SecondHeader(i)
    <3>1. "packet" \in DOMAIN h
      BY DEF FirstHeader, SecondHeader
    <3> HIDE DEF h
    <3>2. PICK r : f = Over(h, r)
      BY DEF HuffFrame, h
    <3> HIDE DEF f
    <3> QED BY <3>1, <3>2 DEF Over
  <2>4. f.size \in 4 .. 255
    <3> DEFINE x == f.size
    <3>1. x \in Nat /\ 4 <= x /\ x <= 90
      BY <2>2
    <3> HIDE DEF x
    <3>2. x \in 4 .. 255
      BY ONLY <3>1
    <3> QED BY <3>2 DEF x
  <2>5. i = 1 => f.packets \in Byte /\ f.bits \in 0 .. 15
    <3> DEFINE m == PlainPackets
    <3>1. m \in 1 .. 7
      BY <1>2
    <3> HIDE DEF m
    <3>2. m \in Byte
      BY ONLY <3>1 DEF Byte
    <3> HIDE DEF f
    <3> QED BY <1>2, <2>2, <3>2, Zenon DEF m
  <2> HIDE DEF f
  <2>6. IsFrame(f, i)
    BY <2>2, <2>3, <2>4, <2>5 DEF IsFrame
  <2> QED BY <2>1, <2>2, <2>6 DEF f
<1>4. FramesTyped
  <2>1. IsList(retVal) /\ DOMAIN retVal = 1 .. Len(retVal)
    BY <1>1 DEF HuffBuilt, IsList
  <2> QED BY <1>3, <2>1 DEF FramesTyped
<1>5. ItemsTyped
  <2>1. EachOnce(HuffFrames)
    BY <1>1 DEF HuffArrived
  <2>2. ASSUME NEW j \in DOMAIN items
        PROVE  items[j].packet \in 1 .. Len(retVal)
    <3>1. PICK i \in 1 .. Len(retVal) : items[j] = HuffFrame(i)
      BY <2>1, <2>2 DEF EachOnce, HuffFrames
    <3> QED BY <1>3, <3>1
  <2> QED BY <2>1, <2>2 DEF ItemsTyped
<1> QED BY <1>4, <1>5

(* No more items than frames, for each is of another one.                  *)
LEMMA ItemsAreFew ==
  ASSUME NEW n \in Nat, NEW S, EachOnce(S), \A j \in DOMAIN items : items[j].packet \in 1 .. n
  PROVE  Len(items) <= n
<1> DEFINE m == Len(items)
           p == [j \in 1 .. m |-> items[j].packet]
<1>1. m \in Nat /\ DOMAIN items = 1 .. m
  BY DEF EachOnce
<1>2. /\ p \in [1 .. m -> 1 .. n]
      /\ \A j, k \in 1 .. m : p[j] = p[k] => j = k
  BY <1>1 DEF EachOnce
<1> HIDE DEF m, p
<1>3. /\ IsFiniteSet(1 .. n) /\ Cardinality(1 .. n) = n
      /\ IsFiniteSet(1 .. m) /\ Cardinality(1 .. m) = m
  <2>1. 1 \in Int /\ n \in Int /\ m \in Int
    BY <1>1
  <2>2. /\ IsFiniteSet(1 .. n) /\ Cardinality(1 .. n) = IF 1 > n THEN 0 ELSE n - 1 + 1
        /\ IsFiniteSet(1 .. m) /\ Cardinality(1 .. m) = IF 1 > m THEN 0 ELSE m - 1 + 1
    BY ONLY <2>1, FS_Interval
  <2> QED BY <1>1, <2>2
<1>4. p \in Injection(1 .. m, 1 .. n)
  BY <1>2 DEF Injection, IsInjective
<1>5. Cardinality(1 .. m) <= Cardinality(1 .. n)
  BY ONLY <1>3, <1>4, FS_Injection
<1> QED BY <1>3, <1>5 DEF m

(* The type invariant: of measurements of every kind and length.           *)
THEOREM TypeCorrect == Spec => []TypeOK
<1>1. TypeInv /\ PlainInv /\ HuffInv => TypeOK
  <2> SUFFICES ASSUME TypeInv, PlainInv, HuffInv
               PROVE  TypeOK
    OBVIOUS
  <2>1. Calculated /\ CountersTyped /\ value \in Measurements
    BY DEF TypeInv, Calculated
  <2>2. Kind \in {"plain", "delta", "huffman"}
    BY <2>1, BuilderAssumption DEF Kind
  <2>3. FramesTyped /\ ItemsTyped
    BY <2>1, <2>2, PlainTyped, HuffTyped DEF TypeInv, DeltaShape
  <2>4. Len(retVal) \in Nat /\ DOMAIN retVal = 1 .. Len(retVal)
    <3>1. PICK S : retVal \in Seq(S)
      BY <2>3 DEF FramesTyped, IsList
    <3> QED BY <3>1
  <2>5. ASSUME NEW f \in Range(retVal)
        PROVE  /\ f.packet \in 1 .. Len(retVal) /\ f.size \in 4 .. 255
               /\ f.data \in Seq(Byte)
               /\ IsFirst(f) => f.packets \in Byte /\ f.bits \in 0 .. 15
    <3>1. PICK i \in 1 .. Len(retVal) : f = retVal[i]
      BY <2>4 DEF Range
    <3>2. IsFrame(f, i)
      BY <2>3, <2>4, <3>1 DEF FramesTyped
    <3> QED BY <3>1, <3>2 DEF IsFrame, IsFirst
  <2>6. Len(items) <= Len(retVal)
    <3>1. PICK S : EachOnce(S)
      BY <2>3 DEF ItemsTyped
    <3>2. \A j \in DOMAIN items : items[j].packet \in 1 .. Len(retVal)
      BY <2>3 DEF ItemsTyped
    <3> QED BY <2>4, <3>1, <3>2, ItemsAreFew
  <2> QED BY <2>1, <2>5, <2>6 DEF TypeOK, CountersTyped
<1> QED BY <1>1, TypeInvariant, PlainInvariant, HuffInvariant, PTL

-----------------------------------------------------------------------------
(* The row of the database.                                                *)

(* So many missed sensors, and a value behind them.                        *)
LEMMA PaddedValue ==
  ASSUME NEW V, NoValue \in V, NEW v \in V, NEW k \in Nat
  PROVE  LET q == [i \in 1 .. k |-> NoValue] \o <<v>>
         IN  q \in Seq(V) /\ Len(q) = k + 1 /\ q[k + 1] = v
<1> DEFINE s == [i \in 1 .. k |-> NoValue]
           t == <<v>>
<1>1. s \in Seq(V) /\ Len(s) = k
  <2>1. s \in [1 .. k -> V]
    OBVIOUS
  <2> HIDE DEF s
  <2> QED BY <2>1, LenProperties
<1>2. t \in Seq(V) /\ Len(t) = 1 /\ t[1] = v
  OBVIOUS
<1> HIDE DEF s, t
<1>3. /\ s \o t \in Seq(V) /\ Len(s \o t) = Len(s) + Len(t)
      /\ \A i \in 1 .. Len(s) + Len(t) :
           (s \o t)[i] = IF i <= Len(s) THEN s[i] ELSE t[i - Len(s)]
  BY ONLY <1>1, <1>2, ConcatProperties
<1> DEFINE q == s \o t
<1>4. /\ q \in Seq(V) /\ Len(q) = k + 1
      /\ \A i \in 1 .. k + 1 : q[i] = IF i <= k THEN s[i] ELSE t[i - k]
  BY <1>1, <1>2, <1>3
<1> HIDE DEF q
<1>5. k + 1 \in 1 .. k + 1 /\ ~(k + 1 <= k) /\ (k + 1) - k = 1
  OBVIOUS
<1>6. q[k + 1] = v
  BY <1>2, <1>4, <1>5
<1> QED BY <1>4, <1>6 DEF q, s, t

(* The values printed before a sensor.                                     *)
PrintedBefore(r, s) == Cardinality({u \in DOMAIN r : u < s})

LEMMA PrintedType ==
  ASSUME NEW r, DOMAIN r \subseteq 0 .. 27, NEW x \in Nat
  PROVE  /\ PrintedBefore(r, x) \in Nat /\ PrintedBefore(r, x) <= x
         /\ \A t \in Nat : {u \in DOMAIN r : u < x} = 0 .. t - 1 => PrintedBefore(r, x) = t
<1> DEFINE D == DOMAIN r
           S == {u \in D : u < x}
<1>1. ASSUME NEW t \in Nat
      PROVE  IsFiniteSet(0 .. t - 1) /\ Cardinality(0 .. t - 1) = t
  <2> DEFINE e == t - 1
  <2>1. 0 \in Int /\ e \in Int
    OBVIOUS
  <2> HIDE DEF e
  <2>2. IsFiniteSet(0 .. e) /\ Cardinality(0 .. e) = IF 0 > e THEN 0 ELSE e - 0 + 1
    BY ONLY <2>1, FS_Interval
  <2> QED BY <2>2 DEF e
<1>2. S \subseteq 0 .. x - 1
  <2>1. \A u \in S : u \in 0 .. 27 /\ u < x
    OBVIOUS
  <2> HIDE DEF S
  <2>2. \A u \in S : u \in 0 .. x - 1
    BY <2>1
  <2> QED BY <2>2
<1>3. IsFiniteSet(0 .. x - 1) /\ Cardinality(0 .. x - 1) = x
  BY <1>1
<1> HIDE DEF S
<1>4. IsFiniteSet(S) /\ Cardinality(S) <= Cardinality(0 .. x - 1)
  BY <1>2, <1>3, FS_Subset
<1>5. Cardinality(S) \in Nat
  BY <1>4, FS_CardinalityType
<1>6. PrintedBefore(r, x) = Cardinality(S)
  BY DEF PrintedBefore, S
<1>7. \A t \in Nat : S = 0 .. t - 1 => Cardinality(S) = t
  BY <1>1
<1> QED BY <1>3, <1>4, <1>5, <1>6, <1>7 DEF S

LEMMA EntryType ==
  ASSUME NEW r, DOMAIN r \subseteq 0 .. 27, NEW V, NoValue \in V,
         \A x \in DOMAIN r : r[x] \in V, NEW s \in Nat
  PROVE  /\ Entry(r, s) \in Seq(V)
         /\ s \notin DOMAIN r => Len(Entry(r, s)) = 0
         /\ s \in DOMAIN r =>
              LET k == s - PrintedBefore(r, s)
              IN  k \in Nat /\ Len(Entry(r, s)) = k + 1 /\ Entry(r, s)[k + 1] = r[s]
<1>1. CASE s \notin DOMAIN r
  <2>1. Entry(r, s) = <<>>
    BY <1>1 DEF Entry
  <2> QED BY <1>1, <2>1
<1>2. CASE s \in DOMAIN r
  <2> DEFINE k == s - PrintedBefore(r, s)
             v == r[s]
             q == [i \in 1 .. k |-> NoValue] \o <<v>>
  <2>1. k \in Nat
    <3> DEFINE c == PrintedBefore(r, s)
    <3>1. c \in Nat /\ c <= s
      BY PrintedType
    <3> HIDE DEF c, k
    <3>2. s - c \in Nat
      BY ONLY <3>1, s \in Nat
    <3>3. k = s - c
      BY DEF k, c
    <3> QED BY <3>2, <3>3
  <2>2. Entry(r, s) = q
    BY <1>2 DEF Entry, PrintedBefore
  <2>3. v \in V
    BY <1>2
  <2> HIDE DEF k, v
  <2>4. q \in Seq(V) /\ Len(q) = k + 1 /\ q[k + 1] = v
    BY <2>1, <2>3, PaddedValue
  <2> QED BY <1>2, <2>1, <2>2, <2>4 DEF k, v
<1> QED BY <1>1, <1>2

(* Up to the first value after the first gap a value stands at the place   *)
(* of its sensor.                                                          *)
LEMMA OneGapInPlace ==
  ASSUME NEW r, DOMAIN r \subseteq 0 .. 27, NEW s \in DOMAIN r, FollowsOneGap(r, s)
  PROVE  InPlace(CommaString(r), r, s)
<1> DEFINE D == DOMAIN r
           U == {0} \cup {x + 1 : x \in D}
           end == Max(U)
           V == {NoValue} \cup {r[x] : x \in D}
           pieces == [i \in 1 .. end |-> Entry(r, i - 1)]
           P(i) == EndOfPiece(pieces, i)
<1>1. s \in Nat /\ s \in D /\ s <= 27
  OBVIOUS
<1>2. U \in SUBSET (0 .. 28) /\ U # {} /\ s + 1 \in U
  <2>1. \A x \in D : x + 1 \in 0 .. 28
    OBVIOUS
  <2> QED BY <2>1
<1>3. end \in Nat /\ s + 1 <= end
  <2> HIDE DEF U
  <2>1. Max(U) \in U /\ \A y \in U : y <= Max(U)
    BY ONLY <1>2, MaxOfNumbers
  <2> DEFINE e == Max(U)
             n == s + 1
  <2>2. e \in 0 .. 28 /\ n <= e
    BY <1>2, <2>1
  <2>3. end = e
    BY DEF U
  <2> HIDE DEF e, n, end
  <2>4. e \in Nat
    BY ONLY <2>2
  <2>5. end \in Nat /\ n <= end
    BY <2>2, <2>3, <2>4
  <2> QED BY <2>5 DEF n
<1>4. CommaString(r) = FlattenSeq(pieces)
  BY DEF CommaString
<1> HIDE DEF U, end
<1>5. PICK t \in 0 .. s : \A u \in 0 .. s - 1 : u \in D <=> u < t
  BY DEF FollowsOneGap
<1>6. t \in Nat /\ t <= s
  BY <1>1
<1>7. NoValue \in V /\ \A x \in D : r[x] \in V
  OBVIOUS
<1> HIDE DEF V
<1>8. /\ pieces \in Seq(Seq(V)) /\ Len(pieces) = end /\ pieces # <<>>
      /\ \A x \in 0 .. end - 1 : pieces[x + 1] = Entry(r, x)
  <2> DEFINE Q == Seq(V)
  <2>1. \A x \in Nat : Entry(r, x) \in Q
    BY <1>7, EntryType
  <2> HIDE DEF Q
  <2>2. \A i \in 1 .. end : i - 1 \in Nat
    BY <1>3
  <2>3. pieces \in [1 .. end -> Q]
    BY <2>1, <2>2
  <2>4. \A x \in 0 .. end - 1 : x + 1 \in 1 .. end /\ (x + 1) - 1 = x
    BY <1>3
  <2>5. \A x \in 0 .. end - 1 : pieces[x + 1] = Entry(r, x)
    BY <2>4
  <2>6. pieces \in Seq(Q) /\ Len(pieces) = end
    <3> HIDE DEF pieces
    <3> QED BY <1>3, <2>3, LenProperties
  <2>7. end # 0
    BY <1>1, <1>3
  <2>8. pieces # <<>>
    <3> HIDE DEF pieces
    <3> QED BY <2>6, <2>7
  <2> QED BY <2>5, <2>6, <2>8 DEF Q
<1> HIDE DEF pieces
<1>9. /\ Len(FlattenSeq(pieces)) \in Nat /\ P(0) = 0
      /\ \A i \in 1 .. end :
           /\ P(i) = P(i - 1) + Len(pieces[i])
           /\ \A j \in 1 .. Len(pieces[i]) :
                /\ P(i - 1) + j <= Len(FlattenSeq(pieces))
                /\ FlattenSeq(pieces)[P(i - 1) + j] = pieces[i][j]
  <2>1. /\ FlattenSeq(pieces) \in Seq(V)
        /\ EndOfPiece(pieces, 0) = 0
        /\ \A i \in 1 .. Len(pieces) :
             /\ EndOfPiece(pieces, i) = EndOfPiece(pieces, i - 1) + Len(pieces[i])
             /\ \A j \in 1 .. Len(pieces[i]) :
                  /\ EndOfPiece(pieces, i - 1) + j <= Len(FlattenSeq(pieces))
                  /\ FlattenSeq(pieces)[EndOfPiece(pieces, i - 1) + j] = pieces[i][j]
    BY <1>8, FlattenProperties
  <2>2. Len(FlattenSeq(pieces)) \in Nat
    BY <2>1
  <2> QED BY <1>8, <2>1, <2>2
<1>10. ASSUME NEW x \in Nat, x < s
       PROVE  Len(pieces[x + 1]) = IF x < t THEN 1 ELSE 0
  <2>1. x \in 0 .. end - 1 /\ x \in 0 .. s - 1
    BY <1>1, <1>3, <1>10
  <2>2. pieces[x + 1] = Entry(r, x) /\ (x \in D <=> x < t)
    BY <1>5, <1>8, <2>1
  <2>3. CASE x < t
    <3>1. {u \in D : u < x} = 0 .. x - 1
      <4>1. \A u \in D : u < x => u \in 0 .. x - 1
        OBVIOUS
      <4>2. \A u \in 0 .. x - 1 : u \in 0 .. s - 1 /\ u < t /\ u < x
        BY <1>1, <1>6, <1>10, <2>3
      <4>3. \A u \in 0 .. x - 1 : u \in D /\ u < x
        BY <1>5, <4>2
      <4> HIDE DEF D
      <4> QED BY <4>1, <4>3
    <3>2. PrintedBefore(r, x) = x
      BY <3>1, PrintedType
    <3>3. x \in D
      BY <2>2, <2>3
    <3>4. Len(Entry(r, x)) = (x - x) + 1
      BY <1>7, <3>2, <3>3, EntryType
    <3> QED BY <2>2, <2>3, <3>4
  <2>4. CASE ~(x < t)
    <3>1. Len(Entry(r, x)) = 0
      BY <1>7, <2>2, <2>4, EntryType
    <3> QED BY <2>2, <2>4, <3>1
  <2> QED BY <2>3, <2>4
<1> DEFINE T == {m \in Nat : m <= s => P(m) = IF m <= t THEN m ELSE t}
<1>11. 0 \in T
  BY <1>6, <1>9
<1>12. ASSUME NEW m \in T
       PROVE  m + 1 \in T
  <2> SUFFICES ASSUME m + 1 <= s
               PROVE  P(m + 1) = IF m + 1 <= t THEN m + 1 ELSE t
    OBVIOUS
  <2>1. m \in Nat /\ m < s /\ m + 1 \in 1 .. end /\ (m + 1) - 1 = m
    BY <1>1, <1>3
  <2>2. P(m) = IF m <= t THEN m ELSE t
    BY <1>1, <2>1
  <2>3. P(m + 1) = P(m) + Len(pieces[m + 1])
    BY <1>9, <2>1
  <2>4. Len(pieces[m + 1]) = IF m < t THEN 1 ELSE 0
    BY <1>10, <2>1
  <2> HIDE DEF P
  <2> QED BY ONLY <1>6, <2>1, <2>2, <2>3, <2>4
<1>13. T \in SUBSET Nat
  OBVIOUS
<1> HIDE DEF T
<1>14. T = Nat
  BY ONLY <1>11, <1>12, <1>13, SetInduction
<1>15. P(s) = t
  <2>1. P(s) = IF s <= t THEN s ELSE t
    BY <1>1, <1>14 DEF T
  <2> QED BY <1>1, <1>6, <2>1
<1>16. PrintedBefore(r, s) = t
  <2>1. {u \in D : u < s} = 0 .. t - 1
    <3>1. \A u \in D : u < s => u \in 0 .. s - 1
      OBVIOUS
    <3>2. \A u \in 0 .. t - 1 : u \in 0 .. s - 1 /\ u < t /\ u < s
      BY <1>1, <1>6
    <3>3. \A u \in 0 .. s - 1 : u < t => u \in 0 .. t - 1
      BY <1>6
    <3>4. \A u \in D : u < s => u \in 0 .. t - 1
      BY <1>5, <3>1, <3>3
    <3>5. \A u \in 0 .. t - 1 : u \in D /\ u < s
      BY <1>5, <3>2
    <3> HIDE DEF D
    <3> QED BY <3>4, <3>5
  <2> QED BY <1>1, <1>6, <2>1, PrintedType
<1> DEFINE k == s - t
           i == s + 1
<1>17. k \in Nat /\ i \in 1 .. end /\ i - 1 = s /\ t + (k + 1) = i /\ s \in 0 .. end - 1
  BY <1>1, <1>3, <1>6
<1>18. Len(pieces[i]) = k + 1 /\ pieces[i][k + 1] = r[s]
  <2>1. pieces[i] = Entry(r, s)
    BY <1>8, <1>17
  <2>2. Len(Entry(r, s)) = k + 1 /\ Entry(r, s)[k + 1] = r[s]
    BY <1>1, <1>7, <1>16, EntryType
  <2> QED BY <2>1, <2>2
<1> HIDE DEF k, P
<1>19. k + 1 \in 1 .. k + 1
  BY <1>17
<1>20. P(i - 1) = t
  BY <1>15, <1>17
<1> HIDE DEF i
<1>21. t + (k + 1) <= Len(FlattenSeq(pieces)) /\ FlattenSeq(pieces)[t + (k + 1)] = r[s]
  BY <1>9, <1>17, <1>18, <1>19, <1>20
<1>22. i <= Len(FlattenSeq(pieces)) /\ FlattenSeq(pieces)[i] = r[s]
  BY <1>17, <1>21
<1>23. s < Len(FlattenSeq(pieces)) /\ FlattenSeq(pieces)[s + 1] = r[s]
  BY <1>1, <1>9, <1>22 DEF i
<1> QED BY <1>4, <1>23 DEF InPlace

(* A row in which what is read is what was measured is in place.           *)
LEMMA MeasuredInPlace ==
  ASSUME value \in Measurements, ReadIsMeasured
  PROVE  RowIsInPlace
<1> DEFINE r == get
           list == toStrings.th
<1> SUFFICES ASSUME Readable, NEW s \in DOMAIN r, FollowsOneGap(r, s)
             PROVE  /\ InPlace(list, r, s)
                    /\ TEMPERATURE_2_BYTES_2_double(list[s + 1]) = temperature[s + 1]
  BY DEF RowIsInPlace
<1>1. /\ DOMAIN r \subseteq 0 .. sensors - 1
      /\ TEMPERATURE_2_BYTES_2_double(r[s]) = temperature[s + 1]
  BY DEF ReadIsMeasured, IsMeasured
<1>2. list = CommaString(r)
  BY DEF toStrings
<1> HIDE DEF r, list
<1>3. DOMAIN r \subseteq 0 .. 27
  <2> DEFINE n == sensors
  <2>1. n \in 0 .. 28
    BY SensorsType
  <2> HIDE DEF n
  <2>2. 0 .. n - 1 \subseteq 0 .. 27
    BY <2>1
  <2> QED BY <1>1, <2>2 DEF n
<1>4. InPlace(CommaString(r), r, s)
  BY <1>3, OneGapInPlace
<1>5. list[s + 1] = r[s]
  BY <1>2, <1>4 DEF InPlace
<1> QED BY <1>1, <1>2, <1>4, <1>5

(* Frames that are missing do not shift the sensors of a row, up to the    *)
(* first value after the first gap, once what Readable asks for has        *)
(* arrived: the value there is the one its sensor measured.                *)
THEOREM RowStaysInPlace == Spec => [](SentPlain /\ SentWide => RowIsInPlace)
<1>1. Calculated => (ReadIsMeasured => RowIsInPlace)
  BY MeasuredInPlace DEF Calculated
<1>2. HuffInv => Calculated
  BY DEF HuffInv
<1> QED BY <1>1, <1>2, HuffInvariant, EveryReadIsMeasured, PTL
=============================================================================
