------------------------ MODULE LoggerKosaCollector ------------------------
(***************************************************************************)
(* LoggerKosaCollector of logger-collection.cpp: the plumes received so    *)
(* far (koses), and the two calls that change them, put() and rmExpired(). *)
(*                                                                         *)
(* put() first decodes the frames of the call into a temporary             *)
(* LoggerCollection (c, mhs), then files its items by plume (add), then    *)
(* copies the measurement headers (addHeader).  Each iteration of each of  *)
(* these loops is an action here.  The collector is not thread-safe: while *)
(* a call runs only the clock may move.                                    *)
(***************************************************************************)
EXTENDS LoggerHuffman, FiniteSetsExt, SequencesExt

CONSTANTS
  Batches,       (* The argument lists put() is called with.              *)
  Load,          (* LoggerKosaPacketsLoader: address -> id of the base     *)
                 (* plume; load() is false outside DOMAIN Load.            *)
  JunkYears,     (* What kosa_year can hold when nothing has set it.       *)
  MaxWait,       (* MAX_SECONDS_WAIT_KOSA_PACKETS, in clock ticks.         *)
  MaxRawFrames,  (* MAX_BUFFER_SIZE, in frames appended to one RAW item.   *)
  MaxKoses,      (* Bound of the model: plumes in memory before a put().   *)
  MaxItems       (* Bound of the model: items of a plume before a put().   *)

ASSUME BatchesAssumption == Batches \subseteq Seq(Frames)
ASSUME LoadAssumption == \A a \in DOMAIN Load : Load[a] \in ItemIds
ASSUME JunkYearsAssumption == JunkYears \subseteq Byte /\ JunkYears # {}
ASSUME MaxWaitAssumption == MaxWait \in Nat
ASSUME MaxRawFramesAssumption == MaxRawFrames \in Nat

VARIABLES
  koses,     (* std::vector<LoggerKosaPackets>                             *)
  capacity,  (* its capacity: what decides whether push_back() reallocates *)
  values,    (* frames of the running put() still to be decoded            *)
  c,         (* its temporary LoggerCollection                             *)
  mhs,       (* the measurement headers it collected                       *)
  loop,      (* the loop over koses that runs, or "none"                   *)
  it         (* its iterator                                               *)

vars == <<koses, capacity, values, c, mhs, loop, it>>

Items == [id : ItemIds, packet : Seq(Frames) \ {<<>>}]

(* LoggerKosaPackets.  age stands for time(nullptr) - start, and stops     *)
(* counting once expired() is true.                                        *)
LoggerKosaPackets == [id : ItemIds, age : 0 .. MaxWait + 1, header : Plumes,
                      items : Seq(Items), expectedPackets : Nat]

NewCollection == [items |-> <<>>, expectedPackets |-> 0]

(* clear_LOGGER_MEASUREMENT_HDR                                            *)
NoHeader == [kosa |-> 0, kosa_year |-> 0]

Idle == loop = "none" /\ values = <<>> /\ c.items = <<>> /\ mhs = <<>>

Init ==
  /\ koses = <<>>
  /\ capacity = 0
  /\ values = <<>>
  /\ c = NewCollection
  /\ mhs = <<>>
  /\ loop = "none"
  /\ it = 0

-----------------------------------------------------------------------------
(* Looking up a plume.                                                     *)

(* Mutant: the header is compared, which a plume has only once its first   *)
(* frame has arrived.                                                      *)
MatchesHeader(kosa, id) ==
  /\ kosa.header.kosa = id.kosa
  /\ \/ id.kosa_year = NO_MATCH_YEAR
     \/ kosa.header.kosa_year = id.kosa_year

(* LoggerKosaPackets::operator==(const LoggerItemId &)                     *)
Matches(kosa, id) ==
  /\ kosa.id.kosa = id.kosa
  /\ \/ id.kosa_year = NO_MATCH_YEAR
     \/ kosa.id.kosa_year = id.kosa_year

(* std::find(koses.begin(), koses.end(), id): 0 stands for koses.end().    *)
Find(id) ==
  LET found == {k \in DOMAIN koses : Matches(koses[k], id)}
  IN  IF found = {} THEN 0 ELSE Min(found)

(* LoggerCollection::getFirstHeader(): every case of its switch returns,   *)
(* so it looks at the first item only.                                     *)
getFirstHeader(items) ==
  IF items = <<>> THEN {} ELSE extractFirstHdr(items[1].packet[1])

(* LoggerCollection::getCollectedFirstHeader()                             *)
getCollectedFirstHeader(kosa) ==
  LET k == Find([kosa |-> kosa, kosa_year |-> NO_MATCH_YEAR, measure |-> 0])
  IN  IF k = 0 THEN {} ELSE getFirstHeader(koses[k].items)

(* LoggerItem::getKosaYearFromFirstPacketOrLoad(): a next frame does not   *)
(* carry the year of its plume.                                            *)
getKosaYear(f) ==
  LET own == getFirstHeader(c.items)
      h   == IF own # {} THEN own ELSE getCollectedFirstHeader(f.kosa)
  IN  IF h # {} THEN (CHOOSE first \in h : TRUE).kosa_year
      ELSE IF f.addr \in DOMAIN Load THEN Load[f.addr].kosa_year
      ELSE 0

-----------------------------------------------------------------------------
(* Decoding a frame into the temporary collection.                         *)

(* Mutant: a next frame is taken for one of the first plume in memory.     *)
ItemIdOfFront(f) ==
  IF f.typ \in SecondTypes /\ koses # <<>> THEN koses[1].id
  ELSE [kosa |-> f.kosa, kosa_year |-> f.kosa_year, measure |-> f.measure]

(* The id LoggerItem::set() and put1() leave in the item.                  *)
ItemId(f) ==
  IF f.typ \in FirstTypes
  THEN [kosa |-> f.kosa, kosa_year |-> f.kosa_year, measure |-> f.measure]
  ELSE IF f.typ \in {"DELTA_2", "HUFF_2"} /\ f.addr \in DOMAIN Load
  THEN Load[f.addr]
  ELSE [kosa |-> f.kosa, kosa_year |-> getKosaYear(f), measure |-> f.measure]

(* The header put1() pushes to retHeaders: that of a plain frame, or the   *)
(* header of the base measurement with the differences added.              *)
RetHeaders(f) ==
  IF f.typ = "PKT_1" THEN <<PlumeOf(f)>>
  ELSE IF f.typ \in {"DELTA_1", "HUFF_1"} /\ f.addr \in DOMAIN Load
  THEN <<PlumeOf(Load[f.addr])>>
  ELSE <<>>

put1(f) ==
  IF f.typ = "UNKNOWN"
  THEN UNCHANGED <<c, mhs>>
  ELSE /\ c' = [items |-> Append(c.items, [id |-> ItemId(f), packet |-> <<f>>]),
                expectedPackets |-> IF f.typ \in FirstTypes THEN f.packets
                                    ELSE c.expectedPackets]
       /\ mhs' = mhs \o RetHeaders(f)

(* putRaw(): the header of the measurement is not read, so the id of a new *)
(* item is what the constructors leave in it.                              *)
putRaw(f) ==
  /\ IF c.items = <<>>
     THEN \E year \in JunkYears :
            LET id == [kosa |-> 0, kosa_year |-> year, measure |-> 0]
            IN  c' = [items |-> <<[id |-> id, packet |-> <<f>>]>>,
                      expectedPackets |-> 1]
     ELSE LET item == c.items[1]
              all  == IF Len(item.packet) < MaxRawFrames
                      THEN Append(item.packet, f) ELSE item.packet
          IN  c' = [items |-> [c.items EXCEPT ![1].packet = all],
                    expectedPackets |-> Len(c.items)]
  /\ UNCHANGED mhs

(* LoggerKosaCollector::put() is called.                                   *)
Put(batch) ==
  /\ Idle
  /\ values' = batch
  /\ UNCHANGED <<koses, capacity, c, mhs, loop, it>>

(* One iteration of the loop of LoggerCollection::put().                   *)
PutFrame ==
  /\ values # <<>>
  /\ values' = Tail(values)
  /\ IF Head(values).typ = "RAW" THEN putRaw(Head(values))
                                 ELSE put1(Head(values))
  /\ UNCHANGED <<koses, capacity, loop, it>>

-----------------------------------------------------------------------------
(* Filing the items of the temporary collection.                           *)

(* Mutant: the lookup is trusted, and the id is not compared again.        *)
AddAny(kosa, item) ==
  LET mh == extractMeasurementHeader(item.packet[1])
  IN  [kosa EXCEPT !.header = IF mh = {} THEN @ ELSE PlumeOf(item.packet[1]),
                   !.items  = Append(@, item)]

(* Mutant: a first frame starts the plume anew.                            *)
AddAnew(kosa, item) ==
  IF PlumeOf(item.id) # PlumeOf(kosa.id) THEN kosa
  ELSE [kosa EXCEPT !.items = IF item.packet[1].typ \in FirstTypes
                              THEN <<item>> ELSE Append(@, item)]

(* LoggerKosaPackets::add(): the header is overwritten before the id is    *)
(* compared, and a wildcard year that matched in the lookup does not here. *)
Add(kosa, item) ==
  LET mh     == extractMeasurementHeader(item.packet[1])
      header == IF mh = {} THEN kosa.header ELSE PlumeOf(item.packet[1])
      own    == PlumeOf(item.id) = PlumeOf(kosa.id)
  IN  [kosa EXCEPT !.header = header,
                   !.items  = IF own THEN Append(@, item) ELSE @]

(* LoggerKosaPackets p(this); p.add(item)                                  *)
NewKosa(item) ==
  Add([id |-> item.id, age |-> 0, header |-> NoHeader, items |-> <<>>,
       expectedPackets |-> 0], item)

Expect(kosa) ==
  IF c.expectedPackets = 0 THEN kosa
  ELSE [kosa EXCEPT !.expectedPackets = c.expectedPackets]

(* koses.push_back(p).  A reallocation copies every element with the copy  *)
(* constructor of LoggerKosaPackets, which leaves expectedPackets behind.  *)
(* The code then takes &koses[0] for the plume it has just pushed.         *)
PushBack(kosa) ==
  LET full   == Len(koses) = capacity
      Copy(k) == IF full THEN [koses[k] EXCEPT !.expectedPackets = 0]
                 ELSE koses[k]
      pushed == Append([k \in DOMAIN koses |-> Copy(k)], kosa)
  IN  /\ koses' = [pushed EXCEPT ![1] = Expect(@)]
      /\ capacity' = IF ~full THEN capacity
                     ELSE IF capacity = 0 THEN 1 ELSE 2 * capacity

(* One iteration of LoggerKosaCollector::add(); after the last one the     *)
(* temporary collection is not read any more.                              *)
AddItem ==
  /\ values = <<>>
  /\ c.items # <<>>
  /\ LET item == Head(c.items)
         k    == Find(item.id)
     IN  IF k = 0 THEN PushBack(NewKosa(item))
         ELSE /\ koses' = [koses EXCEPT ![k] = Expect(Add(@, item))]
              /\ UNCHANGED capacity
  /\ c' = IF Len(c.items) = 1 THEN NewCollection
          ELSE [c EXCEPT !.items = Tail(@)]
  /\ UNCHANGED <<values, mhs, loop, it>>

(* LoggerKosaCollector::addHeader()                                        *)
AddHeader ==
  /\ values = <<>>
  /\ c.items = <<>>
  /\ mhs # <<>>
  /\ LET mh == Head(mhs)
         k  == Find(mh)
     IN  koses' = IF k = 0 THEN koses ELSE [koses EXCEPT ![k].header = mh]
  /\ mhs' = Tail(mhs)
  /\ UNCHANGED <<capacity, values, c, loop, it>>

-----------------------------------------------------------------------------
(* Forgetting plumes.                                                      *)

(* Mutant: the first frame is not counted.                                 *)
CompletedEarly(kosa) ==
  Len(kosa.items) + 1 >= kosa.expectedPackets /\ kosa.expectedPackets > 0

(* Mutant: one frame too many is waited for.                               *)
CompletedLate(kosa) ==
  Len(kosa.items) > kosa.expectedPackets /\ kosa.expectedPackets > 0

(* LoggerCollection::completed()                                           *)
Completed(kosa) ==
  Len(kosa.items) >= kosa.expectedPackets /\ kosa.expectedPackets > 0

(* LoggerKosaPackets::expired()                                            *)
Expired(kosa) == kosa.age > MaxWait

(* Mutant: iterators are counted from zero.                                *)
BeginLoopAtZero(name) ==
  /\ Idle
  /\ loop' = name
  /\ it' = 0
  /\ UNCHANGED <<koses, capacity, values, c, mhs>>

BeginLoop(name) ==
  /\ Idle
  /\ loop' = name
  /\ it' = 1
  /\ UNCHANGED <<koses, capacity, values, c, mhs>>

EndLoop(name) ==
  /\ loop = name
  /\ it > Len(koses)
  /\ loop' = "none"
  /\ it' = 0
  /\ UNCHANGED <<koses, capacity, values, c, mhs>>

(* Mutant: koses.erase(it--).                                              *)
EraseStepsBack(condition) ==
  /\ IF condition THEN koses' = RemoveAt(koses, it) /\ it' = it - 1
                  ELSE it' = it + 1 /\ UNCHANGED koses
  /\ UNCHANGED <<capacity, values, c, mhs, loop>>

(* it = koses.erase(it), or it++                                           *)
EraseIf(condition) ==
  /\ IF condition THEN koses' = RemoveAt(koses, it) /\ UNCHANGED it
                  ELSE it' = it + 1 /\ UNCHANGED koses
  /\ UNCHANGED <<capacity, values, c, mhs, loop>>

(* One iteration of LoggerKosaCollector::rmExpired().                      *)
RmExpired ==
  /\ loop = "rmExpired"
  /\ it <= Len(koses)
  /\ EraseIf(Expired(koses[it]))

(* time(nullptr) moves on.  start is set by the first item of a plume and  *)
(* never again.                                                            *)
Tick ==
  /\ \E k \in DOMAIN koses : ~Expired(koses[k])
  /\ koses' = [k \in DOMAIN koses |->
                 [koses[k] EXCEPT !.age = IF Expired(koses[k]) THEN @ ELSE @ + 1]]
  /\ UNCHANGED <<capacity, values, c, mhs, loop, it>>

-----------------------------------------------------------------------------
WithinBounds ==
  /\ Len(koses) < MaxKoses
  /\ \A k \in DOMAIN koses : Len(koses[k].items) < MaxItems

PutStep == PutFrame \/ AddItem \/ AddHeader
RmExpiredStep == RmExpired \/ EndLoop("rmExpired")

Next ==
  \/ \E batch \in Batches : WithinBounds /\ Put(batch)
  \/ PutStep
  \/ BeginLoop("rmExpired")
  \/ RmExpiredStep
  \/ Tick

Spec == Init /\ [][Next]_vars

-----------------------------------------------------------------------------
(* Properties.                                                             *)

(* The type invariant.                                                     *)
TypeOK ==
  /\ koses \in Seq(LoggerKosaPackets)
  /\ capacity \in Nat
  /\ values \in Seq(Frames)
  /\ c \in [items : Seq(Items), expectedPackets : Nat]
  /\ mhs \in Seq(Plumes)
  /\ loop \in {"none", "rmExpired", "insert", "remove", "done"}
  /\ it \in Nat /\ (loop \in {"rmExpired", "insert", "remove"} => it # 0)

(* A plume has one entry: LoggerKosaCollector::add() creates an entry only *)
(* when operator== found none, whatever wildcard years, erasures and       *)
(* reallocations came before.                                              *)
UniqueKoses ==
  \A j, k \in DOMAIN koses :
    PlumeOf(koses[j].id) = PlumeOf(koses[k].id) => j = k

(* An entry is never empty, bears the id of its first item, and all its    *)
(* items are of its plume: what the lookup lets through by the wildcard    *)
(* year, LoggerKosaPackets::add() refuses.                                 *)
ItemsAgree ==
  \A k \in DOMAIN koses :
    /\ koses[k].items # <<>>
    /\ koses[k].id = koses[k].items[1].id
    /\ \A i \in DOMAIN koses[k].items :
         PlumeOf(koses[k].items[i].id) = PlumeOf(koses[k].id)

(* The vector as a map from plumes to items.                               *)
Held == {PlumeOf(koses[k].id) : k \in DOMAIN koses}
ItemsOf(p) ==
  koses[CHOOSE k \in DOMAIN koses : PlumeOf(koses[k].id) = p].items

Map == INSTANCE PlumeMap WITH
         inbox <- c.items,
         plumes <- [p \in Held |-> ItemsOf(p)],
         Wildcard <- NO_MATCH_YEAR

(* The vector, with its reallocations and erasures, implements the map: no *)
(* item is lost, duplicated or moved to another plume on the way.          *)
MapSpec == Map!Spec
=============================================================================
