--------------------------- MODULE LoggerBuilder ---------------------------
(***************************************************************************)
(* logger-builder.cpp: a measurement is split into frames.  Temperatures   *)
(* are sixteenths of a degree.  A frame has the fields of its header that  *)
(* somebody reads, the data bytes that follow the headers, uncompressed,   *)
(* and the bytes it takes on the air.                                      *)
(***************************************************************************)
EXTENDS HuffmanTable, SequencesExt

CONSTANTS
  Measurements,  (* Records of the temperatures and those of the base,     *)
                 (* the kind of frames to build, and hostSwaps: whether    *)
                 (* logger-huffman.c was compiled with BYTE_ORDER defined  *)
                 (* where platform.h asks for it.                          *)
  kosa, kosa_year

ASSUME BuilderAssumption ==
  /\ kosa \in Byte /\ kosa_year \in Byte
  /\ \A m \in Measurements :
       /\ m.kind \in {"plain", "delta", "huffman"} /\ m.hostSwaps \in BOOLEAN
       /\ m.temperature \in Seq(-2000 .. 2000) /\ Len(m.temperature) <= 28
       /\ m.base \in Seq(-2000 .. 2000)

VARIABLES
  value,    (* the measurement                                             *)
  diffInt,  (* the differences, and the bits the largest takes             *)
  bitsPerSample,
  retVal,   (* the frames built                                            *)
  sz1, sz2, (* sensors in the first and in the other Huffman frames        *)
  ofs,      (* sensors done                                                *)
  phase

builderVars == <<value, diffInt, bitsPerSample, retVal, sz1, sz2, ofs, phase>>

MaxFrame == 24

(* "plain" is build(), "delta" build() with a base, "huffman" is           *)
(* buildHuffman().                                                         *)
Kind      == value.kind
HostSwaps == value.hostSwaps

-----------------------------------------------------------------------------
(* TEMPERATURE_2_BYTES.  The C unit converts to and from host order with   *)
(* HTON2 of platform.h, and so do the C++ units, where it always swaps.    *)

Int16(v) == ((v + 32768) % 65536) - 32768
LoHi(v)  == <<v % 256, (v \div 256) % 256>>
HTON2(v) == Reverse(LoHi(v))
NTOH2(t) == t[1] * 256 + t[2]

double_2_TEMPERATURE_2_BYTES(v) == IF HostSwaps THEN HTON2(v) ELSE LoHi(v)

TEMPERATURE_2_BYTES_2_double(t) ==
  Int16(NTOH2(IF HostSwaps THEN t ELSE Reverse(t)))

-----------------------------------------------------------------------------
(* Differences.                                                            *)

temperature == value.temperature
sensors     == Len(temperature)

Deltas ==
  [i \in 1 .. Min({sensors, Len(value.base)}) |->
     Int16(NTOH2(double_2_TEMPERATURE_2_BYTES(temperature[i]))
             - NTOH2(double_2_TEMPERATURE_2_BYTES(value.base[i])))]

calcRequiredBits(v) == Min({b \in 0 .. 14 : v < 2 ^ b} \cup {15})

(* maxDiff is an int16_t.                                                  *)
MaxDiff ==
  LET Larger(m, d) == LET a == IF d < 0 THEN -d ELSE d
                      IN  IF a > m THEN Int16(a) ELSE m
  IN  FoldLeft(Larger, 0, diffInt)

calcDeltas ==
  /\ diffInt = Deltas
  /\ bitsPerSample = calcRequiredBits(MaxDiff % 65536)

bytesRequiredForBits(bits) == IF bits > 8 THEN 2 ELSE 1
dataBytes == bytesRequiredForBits(bitsPerSample)

UpDiv(a, b) == (a + b - 1) \div b

(* The bytes of up to c differences from the one after the first from.     *)
Differences(from, c) ==
  LET n == Min({c, Max({0, Len(diffInt) - from})})
  IN  [j \in 1 .. n * dataBytes |->
         LoHi(diffInt[from + UpDiv(j, dataBytes)])[1 + ((j - 1) % dataBytes)]]

(* std::string::resize().                                                  *)
Resized(s, n) == SubSeq(s, 1, Min({n, Len(s)})) \o [i \in 1 .. n - Len(s) |-> 0]

-----------------------------------------------------------------------------
(* Headers.                                                                *)

PlainPackets == 1 + sensors \div 5 + (IF sensors % 5 = 0 THEN 0 ELSE 1)

(* Mutant: no frame for the sensors left over.                             *)
SecondFullPackets(cnt) ==
  ((cnt - Min({6 \div dataBytes, cnt})) * dataBytes) \div 20

(* The frames of differences of cnt sensors after the first one.           *)
SecondPackets(cnt) ==
  LET rest == cnt - Min({6 \div dataBytes, cnt})
      full == (rest * dataBytes) \div 20
  IN  IF rest > (full * 20) \div dataBytes THEN full + 1 ELSE full

FirstHeader ==
  [packet  |-> 1,
   packets |-> IF Kind = "delta" THEN SecondPackets(sensors) + 1 ELSE PlainPackets,
   bits    |-> IF Kind = "plain" THEN 0 ELSE bitsPerSample]

(* Mutant: i + 1 for i, as where i counts from zero.                       *)
SecondHeaderNext(i) == [packet |-> i + 1]

SecondHeader(i) == [packet |-> i]

(* setMeasureDeltaHeader(): the record number is not compressed.           *)
MeasureDeltaHeader == <<0, 0, 10, kosa, kosa_year, 0, 0, 0, 0, 0>>

(* The bytes compressLogger() makes of two bytes and more.                 *)
CompressedSize(s) ==
  2 + UpDiv(MapThenSumSet(LAMBDA i : Len(Code(s[i])), 3 .. Len(s)), 8)

-----------------------------------------------------------------------------
BuilderInit ==
  /\ value \in Measurements /\ calcDeltas
  /\ retVal = <<>>
  /\ sz1 = sensors /\ sz2 = 0 /\ ofs = 0
  /\ phase = "first"

(* The values of f, and of g where f has none: f @@ g, which provers do    *)
(* not know.                                                               *)
Over(f, g) ==
  [x \in DOMAIN f \cup DOMAIN g |-> IF x \in DOMAIN f THEN f[x] ELSE g[x]]

Push(h, data, size) ==
  retVal' = Append(retVal, Over(h, [data |-> data, size |-> size]))

(* build(): the header frame, then five temperatures to a frame.           *)
PlainFirst ==
  /\ Kind = "plain" /\ phase = "first"
  /\ Push(FirstHeader, <<>>, MaxFrame)
  /\ phase' = "second"
  /\ UNCHANGED <<value, diffInt, bitsPerSample, sz1, sz2, ofs>>

setMeasurementsData(from) ==
  FlattenSeq([c \in 1 .. Min({5, sensors - from}) |->
    <<from + c - 1>> \o double_2_TEMPERATURE_2_BYTES(temperature[from + c]) \o <<0>>])

PlainSecond ==
  /\ Kind = "plain" /\ phase = "second"
  /\ Len(retVal) < retVal[1].packets
  /\ LET data == setMeasurementsData(ofs)
     IN  Push(SecondHeader(Len(retVal) + 1), data, 4 + Len(data))
  /\ ofs' = ofs + 5
  /\ UNCHANGED <<value, diffInt, bitsPerSample, sz1, sz2, phase>>

(* build() of differences: six bytes in the first frame, twenty in others. *)
(* A first frame that is not full is resized by the bits of a difference.  *)
DeltaFirst ==
  /\ Kind = "delta" /\ phase = "first"
  /\ LET cnt  == Len(diffInt)
         size == IF 6 \div dataBytes > cnt THEN MaxFrame - (6 - cnt * bitsPerSample) ELSE MaxFrame
     IN  Push(FirstHeader, Resized(Differences(0, 6 \div dataBytes), size - 18), size)
  /\ phase' = "second"
  /\ UNCHANGED <<value, diffInt, bitsPerSample, sz1, sz2, ofs>>

DeltaSecond ==
  /\ Kind = "delta" /\ phase = "second"
  /\ ofs < SecondPackets(Len(diffInt))
  /\ LET data == Differences((6 + ofs * 20) \div dataBytes, 20 \div dataBytes)
     IN  Push(SecondHeader(ofs + 2), data, 4 + Len(data))
  /\ ofs' = ofs + 1
  /\ UNCHANGED <<value, diffInt, bitsPerSample, sz1, sz2, phase>>

(* The loops of build() end.                                               *)
endBuild ==
  /\ phase = "second"
  /\ \/ Kind = "plain" /\ Len(retVal) = retVal[1].packets
     \/ Kind = "delta" /\ ofs = SecondPackets(Len(diffInt))
  /\ phase' = "built"
  /\ UNCHANGED <<value, diffInt, bitsPerSample, retVal, sz1, sz2, ofs>>

(* buildHuffmanChunk(): the frames of one attempt.                         *)
HuffmanFirst ==
  /\ Kind = "huffman" /\ phase = "first"
  /\ LET data == Resized(Differences(0, sz1), sz1 * dataBytes)
     IN  Push(FirstHeader, data, 8 + CompressedSize(MeasureDeltaHeader \o data))
  /\ ofs' = IF sz2 = 0 THEN sensors ELSE sz1
  /\ phase' = "second"
  /\ UNCHANGED <<value, diffInt, bitsPerSample, sz1, sz2>>

HuffmanSecond ==
  /\ Kind = "huffman" /\ phase = "second"
  /\ ofs < sensors
  /\ LET mc   == Min({sz2, sensors - ofs})
         from == sz1 + (Len(retVal) - 1) * sz2
         data == Resized(Differences(from, sz2), mc * dataBytes)
     IN  IF Len(data) < 2
         THEN phase' = "undefined" /\ UNCHANGED retVal  \* srcSize - 2 wraps
         ELSE /\ Push(SecondHeader(Len(retVal) + 1), data, 4 + CompressedSize(data))
              /\ UNCHANGED phase
  /\ ofs' = ofs + sz2
  /\ UNCHANGED <<value, diffInt, bitsPerSample, sz1, sz2>>

(* Mutant: the size of the last frame.                                     *)
lastSize == retVal[Len(retVal)].size

(* Mutant: sz2 is halved, sz1 is not.                                      *)
endHuffmanChunkHalf ==
  /\ Kind = "huffman" /\ phase = "second"
  /\ ofs >= sensors
  /\ IF Max({f.size : f \in Range(retVal)}) <= MaxFrame \/ sz1 \div 2 = 0
     THEN phase' = "built" /\ UNCHANGED <<retVal, sz1, sz2, ofs>>
     ELSE /\ sz2' = sz1 \div 2
          /\ retVal' = <<>> /\ ofs' = 0
          /\ phase' = "first" /\ UNCHANGED sz1
  /\ UNCHANGED <<value, diffInt, bitsPerSample>>

maxSize == Max({f.size : f \in Range(retVal)})

(* buildHuffman(): half of the sensors to a frame until all frames fit.    *)
endHuffmanChunk ==
  /\ Kind = "huffman" /\ phase = "second"
  /\ ofs >= sensors
  /\ IF maxSize <= MaxFrame \/ sz1 \div 2 = 0
     THEN phase' = "built" /\ UNCHANGED <<retVal, sz1, sz2, ofs>>
     ELSE /\ sz1' = sz1 \div 2 /\ sz2' = sz1 \div 2
          /\ retVal' = <<>> /\ ofs' = 0
          /\ phase' = "first"
  /\ UNCHANGED <<value, diffInt, bitsPerSample>>

Build ==
  \/ PlainFirst \/ PlainSecond
  \/ DeltaFirst \/ DeltaSecond
  \/ endBuild
  \/ HuffmanFirst \/ HuffmanSecond \/ endHuffmanChunk
=============================================================================
