----------------------------- MODULE LoggerItem -----------------------------
(***************************************************************************)
(* The way of a measurement: the frames LoggerBuilder makes of it arrive   *)
(* in any order, not all of them, and LoggerItem::get() and getTemperature *)
(* () read the sensors' values from those that have arrived.  The frames   *)
(* of a collection are of one plume and measurement, each once; a next     *)
(* frame may be the first item, as put1() gives it the id of the base.     *)
(***************************************************************************)
EXTENDS LoggerBuilder

VARIABLE items  (* the frames of the collection, in the order of arrival   *)

vars == <<builderVars, items>>

-----------------------------------------------------------------------------
IsFirst(f) == f.packet = 1

(* LoggerItem::set() keeps as many bytes as the type of the frame has.     *)
set(f) ==
  IF Kind = "delta" /\ IsFirst(f)
  THEN [f EXCEPT !.data = SubSeq(@, 1, Min({Len(@), 6})), !.size = Min({@, MaxFrame})]
  ELSE f

(* Mutant: the item put last is asked.                                     *)
LatestHeader == IF items = <<>> THEN {} ELSE {f \in {items[Len(items)]} : IsFirst(f)}

(* LoggerCollection::getFirstHeader(): every case of its switch returns,   *)
(* so it looks at the first item only, and finds nothing when a next frame *)
(* has come before the first one.                                          *)
getFirstHeader == IF items = <<>> THEN {} ELSE {f \in {items[1]} : IsFirst(f)}

getDataBits ==
  IF getFirstHeader = {} THEN 1 ELSE (CHOOSE h1 \in getFirstHeader : TRUE).bits

(* The bytes the Huffman frames before frame packetNum1 hold.              *)
getHuffmanPacketMeasurementOffset(packetNum1) ==
  MapThenSumSet(LAMBDA f : Len(f.data),
                {f \in Range(items) : Kind = "huffman" /\ f.packet < packetNum1})

(* getDiff(), of a frame whose differences begin skip bytes into the data. *)
getDiff(data, skip, bytes, i) ==
  LET at == skip + i * bytes + 1
  IN  IF bytes = 2 THEN Int16(data[at] + 256 * data[at + 1])
      ELSE ((data[at] + 128) % 256) - 128

(* Offset 0 stands for the first frame, with 18 bytes of headers, where a  *)
(* second one has four.  Sensors are counted from 0.                       *)
getByDiff(f, offset) ==
  LET bytes == bytesRequiredForBits(getDataBits)
      skip  == IF offset = 0 /\ ~IsFirst(f) THEN 14 ELSE 0
      cnt   == (Len(f.data) - skip) \div bytes
      from  == (offset \div bytes) % 256
  IN  [c \in {s \in from .. from + cnt - 1 : s < Len(value.base)} |->
         HTON2(NTOH2(double_2_TEMPERATURE_2_BYTES(value.base[c + 1]))
                 + getDiff(f.data, skip, bytes, c - from))]

(* A frame of temperatures: each with its sensor.                          *)
getRaw(f) ==
  LET at(p) == SubSeq(f.data, 4 * p + 1, 4 * p + 4)
      ps    == 0 .. Len(f.data) \div 4 - 1
  IN  [s \in {at(p)[1] : p \in ps} |->
         LET p == CHOOSE q \in ps : at(q)[1] = s IN <<at(p)[2], at(p)[3]>>]

(* Mutant: frames are counted from one.                                    *)
OffsetFromOne(f) ==
  IF Kind = "huffman" \/ IsFirst(f) THEN getHuffmanPacketMeasurementOffset(f.packet)
  ELSE 6 + (f.packet - 1) * 20

Offset(f) ==
  IF Kind = "huffman" \/ IsFirst(f) THEN getHuffmanPacketMeasurementOffset(f.packet)
  ELSE 6 + (f.packet - 2) * 20

(* getTemperature() asks for the Huffman offset of any second frame.       *)
ItemValues(f, offset) == IF Kind = "plain" THEN getRaw(f) ELSE getByDiff(f, offset)

(* LoggerCollection::get() and getTemperature(): later items overwrite.    *)
get ==
  FoldLeft(LAMBDA r, f : Over(ItemValues(f, Offset(f)), r), <<>>, items)

getTemperature ==
  FoldLeft(LAMBDA r, f :
             Over(ItemValues(f, getHuffmanPacketMeasurementOffset(f.packet)), r),
           <<>>, items)

-----------------------------------------------------------------------------
Init == BuilderInit /\ items = <<>>

Arrived == {f.packet : f \in Range(items)}

(* A frame arrives and is put into the collection.                         *)
Put ==
  /\ phase = "built"
  /\ \E f \in Range(retVal) :
       /\ f.packet \notin Arrived
       /\ items' = Append(items, set(f))
  /\ UNCHANGED builderVars

Next == (Build /\ UNCHANGED items) \/ Put

Spec == Init /\ [][Next]_vars

(* One thread builds, and nothing makes it wait.                           *)
FairSpec == Spec /\ WF_vars(Build /\ UNCHANGED items)

-----------------------------------------------------------------------------
(* Properties.                                                             *)

(* The type invariant.                                                     *)
TypeOK ==
  /\ value \in Measurements
  /\ \A f \in Range(retVal) :
       /\ f.packet \in 1 .. Len(retVal) /\ f.size \in 4 .. 255
       /\ f.data \in Seq(Byte)
       /\ IsFirst(f) => f.packets \in Byte /\ f.bits \in 0 .. 15
  /\ sz1 \in 0 .. sensors /\ sz2 \in 0 .. sensors /\ ofs \in Nat
  /\ phase \in {"first", "second", "built", "undefined"}
  /\ Len(items) <= Len(retVal)

(* "количество пакетов в замере!": the first frame says how many frames    *)
(* the measurement takes; the collector waits for that many.               *)
(* The code does not keep it: README.md, other disagreements.              *)
PacketsAreCounted == phase = "built" => retVal[1].packets = Len(retVal)

(* "Produced packets, up to 24 bytes long".                                *)
FramesFit == phase = "built" => \A f \in Range(retVal) : f.size <= MaxFrame

(* Each attempt of buildHuffman() ends in frames.                          *)
(* The code does not keep it: README.md, other disagreements.              *)
FramesAreBuilt == phase # "undefined"

(* The halving ends.                                                       *)
BuildEnds == <>(phase \in {"built", "undefined"})

IsMeasured(values) ==
  /\ DOMAIN values \subseteq 0 .. sensors - 1
  /\ \A s \in DOMAIN values :
       TEMPERATURE_2_BYTES_2_double(values[s]) = temperature[s + 1]

(* The code knows the width of the differences: nothing came before the    *)
(* first frame, or they take the single byte it assumes otherwise.         *)
WidthIsKnown == dataBytes = 1 \/ (items # <<>> /\ IsFirst(items[1]))

(* What must have arrived, and how, for the code to know whose values it   *)
(* reads: nothing of temperatures, for they bear their sensor, the width   *)
(* of differences, and of Huffman frames all that come before.             *)
Readable ==
  CASE Kind = "plain"   -> TRUE
    [] Kind = "delta"   -> WidthIsKnown
    [] Kind = "huffman" -> WidthIsKnown /\ Arrived = 1 .. Len(items)

(* LoggerCollection::get(): whatever is still missing, and in whatever     *)
(* order the frames arrived as far as it lets the code know their width, a *)
(* value that is read is that of its sensor.                               *)
ReadIsMeasured == Readable => IsMeasured(get)

AllArrived == phase = "built" /\ Len(items) = Len(retVal)

(* When all frames have arrived, and the code knows the width of their     *)
(* differences, every sensor has its value.                                *)
AllIsRead ==
  AllArrived /\ Readable => IsMeasured(get) /\ DOMAIN get = 0 .. sensors - 1

(* "When last packet has been received, it can be stored in the database"  *)
(* (README.md:149): whichever frame came first, what is read of a sensor   *)
(* is what it measured.                                                    *)
(* The code does not keep it: README.md, runs that TLC finds violated.     *)
ArrivedIsMeasured == AllArrived => IsMeasured(get)

(* The same of the temperatures that are printed and stored.               *)
(* The code does not keep it: README.md, other disagreements.              *)
AllTemperaturesAreRead ==
  AllArrived =>
    IsMeasured(getTemperature) /\ DOMAIN getTemperature = 0 .. sensors - 1
=============================================================================
