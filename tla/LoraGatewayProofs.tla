------------------------- MODULE LoraGatewayProofs -------------------------
(***************************************************************************)
(* For every traffic, loader and bound: the collector's types, one entry   *)
(* per plume, entries that hold the items of their plume only, and the map *)
(* of PlumeMap that the vector of entries implements.                      *)
(*                                                                         *)
(* Then the whole program, for every traffic of every number of loggers,   *)
(* over a radio that loses, repeats and reorders: its types, one entry per *)
(* plume, and, where no frame is received between saving and removing,     *)
(* that what is completed is saved before it is removed.                   *)
(*                                                                         *)
(* Then the way of the frames, from the air to the entries (StepMoves):    *)
(* no entry mixes plumes, an entry that is completed() holds all of its    *)
(* measurement, and one that holds all of it is completed().  Each of      *)
(* these theorems names what it assumes of the traffic.                    *)
(***************************************************************************)
EXTENDS LoraGateway, SequenceLemmas, FiniteSetTheorems

-----------------------------------------------------------------------------
(* The collector: lemmas on the operators.                                 *)

(* std::find returns the end of the vector or an element that matches.     *)
LEMMA FindProperties ==
  ASSUME koses \in Seq(LoggerKosaPackets), NEW id
  PROVE  /\ Find(id) \in 0 .. Len(koses)
         /\ Find(id) = 0 => \A k \in DOMAIN koses : ~Matches(koses[k], id)
         /\ Find(id) # 0 => Matches(koses[Find(id)], id)
<1> DEFINE found == {k \in DOMAIN koses : Matches(koses[k], id)}
<1>1. found \in SUBSET Nat /\ found \subseteq 1 .. Len(koses)
  OBVIOUS
<1>2. Find(id) = IF found = {} THEN 0 ELSE Min(found)
  BY DEF Find
<1>3. CASE found = {}
  BY <1>2, <1>3
<1>4. CASE found # {}
  <2>1. Min(found) \in found
    BY <1>1, <1>4, MinProperties
  <2> QED
    BY <1>1, <1>2, <1>4, <2>1
<1> QED
  BY <1>3, <1>4

(* What getFirstHeader() returns is a frame, if anything.                  *)
LEMMA FirstHeaderType ==
  ASSUME NEW items \in Seq(Items)
  PROVE  getFirstHeader(items) \in SUBSET Frames
<1>1. CASE items = <<>>
  BY <1>1 DEF getFirstHeader
<1>2. CASE items # <<>>
  <2>1. items[1] \in Items
    BY <1>2
  <2>2. items[1].packet \in Seq(Frames) /\ items[1].packet # <<>>
    BY <2>1 DEF Items
  <2>3. items[1].packet[1] \in Frames
    BY <2>2
  <2> QED
    BY <1>2, <2>3 DEF getFirstHeader, extractFirstHdr
<1> QED
  BY <1>1, <1>2

(* The year a next frame is given is a byte.                               *)
LEMMA KosaYearType ==
  ASSUME TypeOK, NEW f \in Frames
  PROVE  getKosaYear(f) \in Byte
<1> DEFINE own == getFirstHeader(c.items)
           h == IF own # {} THEN own ELSE getCollectedFirstHeader(f.kosa)
<1>1. own \in SUBSET Frames
  BY FirstHeaderType DEF TypeOK
<1>2. getCollectedFirstHeader(f.kosa) \in SUBSET Frames
  <2> DEFINE id == [kosa |-> f.kosa, kosa_year |-> NO_MATCH_YEAR, measure |-> 0]
  <2>1. Find(id) \in 0 .. Len(koses) /\ koses \in Seq(LoggerKosaPackets)
    BY FindProperties DEF TypeOK
  <2>2. getCollectedFirstHeader(f.kosa)
          = IF Find(id) = 0 THEN {} ELSE getFirstHeader(koses[Find(id)].items)
    BY DEF getCollectedFirstHeader
  <2> HIDE DEF id
  <2>3. CASE Find(id) # 0
    <3>1. koses[Find(id)] \in LoggerKosaPackets
      BY <2>1, <2>3
    <3>2. koses[Find(id)].items \in Seq(Items)
      BY <3>1 DEF LoggerKosaPackets
    <3> QED
      BY <2>2, <2>3, <3>2, FirstHeaderType
  <2> QED
    BY <2>2, <2>3
<1>3. h \in SUBSET Frames
  BY <1>1, <1>2
<1>4. getKosaYear(f) = IF h # {} THEN (CHOOSE first \in h : TRUE).kosa_year
                       ELSE IF f.addr \in DOMAIN Load THEN Load[f.addr].kosa_year
                       ELSE 0
  BY DEF getKosaYear
<1> HIDE DEF h, own
<1>5. CASE h # {}
  <2>1. (CHOOSE first \in h : TRUE) \in Frames
    BY <1>3, <1>5
  <2> QED
    BY <1>4, <1>5, <2>1 DEF Frames
<1>6. CASE h = {} /\ f.addr \in DOMAIN Load
  BY <1>4, <1>6, LoadAssumption DEF ItemIds
<1>7. CASE h = {} /\ f.addr \notin DOMAIN Load
  BY <1>4, <1>7 DEF Byte
<1> QED
  BY <1>5, <1>6, <1>7

(* So is the rest of the id of a decoded item.                             *)
LEMMA ItemIdType ==
  ASSUME TypeOK, NEW f \in Frames
  PROVE  ItemId(f) \in ItemIds
<1>1. f.kosa \in Byte /\ f.kosa_year \in Byte /\ f.measure \in Byte
  BY DEF Frames
<1>2. getKosaYear(f) \in Byte
  BY KosaYearType
<1>3. f.addr \in DOMAIN Load => Load[f.addr] \in ItemIds
  BY LoadAssumption
<1> QED
  BY <1>1, <1>2, <1>3 DEF ItemId, ItemIds

(* LoggerKosaPackets::add() keeps the id of the entry, its age and its     *)
(* expected number of packets, and appends the item if it is of the plume. *)
LEMMA AddProperties ==
  ASSUME NEW kosa \in LoggerKosaPackets, NEW item \in Items
  PROVE  /\ Add(kosa, item) \in LoggerKosaPackets
         /\ Add(kosa, item).id = kosa.id
         /\ Add(kosa, item).expectedPackets = kosa.expectedPackets
         /\ Add(kosa, item).items = IF PlumeOf(item.id) = PlumeOf(kosa.id)
                                    THEN Append(kosa.items, item) ELSE kosa.items
<1>1. item.packet[1] \in Frames
  BY DEF Items
<1>2. PlumeOf(item.packet[1]) \in Plumes
  BY <1>1 DEF PlumeOf, Plumes, Frames
<1>3. Append(kosa.items, item) \in Seq(Items)
  BY DEF LoggerKosaPackets
<1> QED
  BY <1>2, <1>3 DEF Add, LoggerKosaPackets

(* The entry of a plume met for the first time.                            *)
LEMMA NewKosaProperties ==
  ASSUME NEW item \in Items
  PROVE  /\ NewKosa(item) \in LoggerKosaPackets
         /\ NewKosa(item).id = item.id
         /\ NewKosa(item).items = <<item>>
         /\ NewKosa(item).expectedPackets = 0
<1> DEFINE empty == [id |-> item.id, age |-> 0, header |-> NoHeader,
                     items |-> <<>>, expectedPackets |-> 0]
<1>1. empty \in LoggerKosaPackets
  BY MaxWaitAssumption DEF LoggerKosaPackets, Items, NoHeader, Plumes, Byte
<1>2. Append(<<>>, item) = <<item>>
  OBVIOUS
<1> QED
  BY <1>1, <1>2, AddProperties DEF NewKosa

(* The number of packets an entry expects once it was told one.            *)
Told(expected) == IF c.expectedPackets = 0 THEN expected ELSE c.expectedPackets

(* Writing expectedPackets changes nothing else.                           *)
LEMMA ExpectProperties ==
  ASSUME TypeOK, NEW kosa \in LoggerKosaPackets
  PROVE  /\ Expect(kosa) \in LoggerKosaPackets
         /\ Expect(kosa).id = kosa.id
         /\ Expect(kosa).items = kosa.items
         /\ Expect(kosa).expectedPackets = Told(kosa.expectedPackets)
BY DEF Told, Expect, TypeOK, LoggerKosaPackets

(* push_back() leaves the ids and items of the other entries alone.        *)
(* Only the number of packets an entry expects may be lost, or told to the *)
(* first of them.                                                          *)
LEMMA PushBackProperties ==
  ASSUME TypeOK, NEW kosa \in LoggerKosaPackets, PushBack(kosa)
  PROVE  /\ koses' \in Seq(LoggerKosaPackets)
         /\ capacity' \in Nat
         /\ Len(koses') = Len(koses) + 1
         /\ \A k \in 1 .. Len(koses) :
              koses'[k].id = koses[k].id /\ koses'[k].items = koses[k].items
         /\ koses'[Len(koses) + 1].id = kosa.id
         /\ koses'[Len(koses) + 1].items = kosa.items
         /\ \A k \in 1 .. Len(koses) :
              koses'[k].expectedPackets
                \in {0, c.expectedPackets, koses[k].expectedPackets}
         /\ koses'[Len(koses) + 1].expectedPackets
              \in {c.expectedPackets, kosa.expectedPackets}
         /\ Len(koses) = 0 =>
              koses'[1].expectedPackets = Told(kosa.expectedPackets)
<1> DEFINE n == Len(koses)
           full == n = capacity
           Copy(k) == IF full THEN [koses[k] EXCEPT !.expectedPackets = 0]
                      ELSE koses[k]
           copied == [k \in DOMAIN koses |-> Copy(k)]
           pushed == Append(copied, kosa)
<1>1. koses \in Seq(LoggerKosaPackets) /\ n \in Nat /\ DOMAIN koses = 1 .. n
  BY DEF TypeOK
<1>2. \A k \in 1 .. n : /\ Copy(k) \in LoggerKosaPackets
                        /\ Copy(k).id = koses[k].id
                        /\ Copy(k).items = koses[k].items
                        /\ Copy(k).expectedPackets \in {0, koses[k].expectedPackets}
  <2> TAKE k \in 1 .. n
  <2>1. koses[k] \in LoggerKosaPackets
    BY <1>1
  <2> QED
    BY <2>1 DEF LoggerKosaPackets
<1> HIDE DEF Copy, n, full
<1>3. /\ copied \in Seq(LoggerKosaPackets)
      /\ Len(copied) = n
      /\ \A k \in 1 .. n : copied[k] = Copy(k)
  <2>1. copied = [k \in 1 .. n |-> Copy(k)]
    BY <1>1
  <2> QED
    BY <1>1, <1>2, <2>1, IsASeq, LenProperties
<1> HIDE DEF copied
<1>4. /\ pushed \in Seq(LoggerKosaPackets)
      /\ Len(pushed) = n + 1
      /\ \A k \in 1 .. n : pushed[k] = Copy(k)
      /\ pushed[n + 1] = kosa
  BY <1>1, <1>3, AppendProperties
<1>5. koses' = [pushed EXCEPT ![1] = Expect(@)]
  BY DEF PushBack, pushed, copied, Copy, full, n
<1> HIDE DEF pushed
<1>6. /\ pushed[1] \in LoggerKosaPackets
      /\ Expect(pushed[1]) \in LoggerKosaPackets
      /\ Expect(pushed[1]).id = pushed[1].id
      /\ Expect(pushed[1]).items = pushed[1].items
      /\ Expect(pushed[1]).expectedPackets = Told(pushed[1].expectedPackets)
  <2>1. pushed[1] \in LoggerKosaPackets
    BY <1>1, <1>4
  <2> QED
    BY <2>1, ExpectProperties
<1>7. /\ koses' \in Seq(LoggerKosaPackets)
      /\ Len(koses') = n + 1
      /\ \A k \in 1 .. n + 1 :
           koses'[k] = IF k = 1 THEN Expect(pushed[1]) ELSE pushed[k]
  BY <1>1, <1>4, <1>5, <1>6, ExceptSeq
<1>8. capacity' \in Nat
  BY DEF PushBack, TypeOK
<1>9. /\ \A k \in 1 .. n : koses'[k].expectedPackets
                            \in {0, c.expectedPackets, koses[k].expectedPackets}
      /\ koses'[n + 1].expectedPackets \in {c.expectedPackets, kosa.expectedPackets}
      /\ n = 0 => koses'[1].expectedPackets = Told(kosa.expectedPackets)
  BY <1>1, <1>2, <1>4, <1>6, <1>7 DEF Told
<1> QED
  BY <1>1, <1>2, <1>4, <1>6, <1>7, <1>8, <1>9 DEF n

-----------------------------------------------------------------------------
(* Type correctness.                                                       *)

(* Decoding a frame leaves a well-typed temporary collection.              *)
LEMMA PutFrameType ==
  ASSUME TypeOK, PutFrame
  PROVE  TypeOK'
<1> DEFINE f == Head(values)
<1>1. /\ f \in Frames
      /\ values' \in Seq(Frames)
      /\ c.items \in Seq(Items) /\ c.expectedPackets \in Nat
  BY DEF PutFrame, TypeOK
<1>2. c' \in [items : Seq(Items), expectedPackets : Nat] /\ mhs' \in Seq(Plumes)
  <2>1. CASE f.typ = "UNKNOWN"
    BY <2>1 DEF PutFrame, put1, TypeOK
  <2>2. CASE f.typ = "RAW" /\ c.items = <<>>
    <3>1. PICK year \in JunkYears :
            c' = [items |-> <<[id |-> [kosa |-> 0, kosa_year |-> year, measure |-> 0],
                               packet |-> <<f>>]>>,
                  expectedPackets |-> 1]
      BY <2>2 DEF PutFrame, putRaw
    <3>2. [kosa |-> 0, kosa_year |-> year, measure |-> 0] \in ItemIds
      BY JunkYearsAssumption DEF ItemIds, Byte
    <3>3. <<f>> \in Seq(Frames) \ {<<>>}
      BY <1>1
    <3> HIDE DEF f
    <3> QED
      BY <2>2, <3>1, <3>2, <3>3 DEF PutFrame, putRaw, TypeOK, Items, f
  <2>3. CASE f.typ = "RAW" /\ c.items # <<>>
    <3> DEFINE item == c.items[1]
               all == IF Len(item.packet) < MaxRawFrames
                      THEN Append(item.packet, f) ELSE item.packet
    <3>1. item \in Items /\ item.packet \in Seq(Frames) /\ item.packet # <<>>
      <4>1. item \in Items
        BY <1>1, <2>3
      <4> QED
        BY <4>1 DEF Items
    <3>2. all \in Seq(Frames) \ {<<>>}
      <4>1. Append(item.packet, f) \in Seq(Frames) \ {<<>>}
        BY <1>1, <3>1, AppendProperties
      <4> QED
        BY <3>1, <4>1
    <3>3. [item EXCEPT !.packet = all] \in Items
      BY <3>1, <3>2 DEF Items
    <3>4. /\ c' = [items |-> [c.items EXCEPT ![1].packet = all],
                   expectedPackets |-> Len(c.items)]
          /\ mhs' = mhs
      BY <2>3 DEF PutFrame, putRaw
    <3> HIDE DEF all, f
    <3>5. [c.items EXCEPT ![1].packet = all]
            = [c.items EXCEPT ![1] = [item EXCEPT !.packet = all]]
      OBVIOUS
    <3>6. [c.items EXCEPT ![1].packet = all] \in Seq(Items)
      BY <1>1, <2>3, <3>3, <3>5, ExceptSeq
    <3> QED
      BY <1>1, <3>4, <3>6 DEF TypeOK
  <2>4. CASE f.typ \notin {"RAW", "UNKNOWN"}
    <3>1. [id |-> ItemId(f), packet |-> <<f>>] \in Items
      <4>1. ItemId(f) \in ItemIds
        BY <1>1, ItemIdType
      <4>2. <<f>> \in Seq(Frames) \ {<<>>}
        BY <1>1
      <4> QED
        BY <4>1, <4>2 DEF Items
    <3>2. RetHeaders(f) \in Seq(Plumes)
      <4>1. PlumeOf(f) \in Plumes
        BY <1>1 DEF PlumeOf, Plumes, Frames
      <4>2. f.addr \in DOMAIN Load => PlumeOf(Load[f.addr]) \in Plumes
        BY LoadAssumption DEF PlumeOf, Plumes, ItemIds
      <4>3. \A p \in Plumes : <<p>> \in Seq(Plumes)
        OBVIOUS
      <4> HIDE DEF f
      <4> QED
        BY <4>1, <4>2, <4>3 DEF RetHeaders
    <3>3. f.packets \in Nat
      <4>1. f.packets \in Byte
        BY <1>1 DEF Frames
      <4> QED
        BY <4>1 DEF Byte
    <3>4. /\ c' = [items |-> Append(c.items, [id |-> ItemId(f), packet |-> <<f>>]),
                   expectedPackets |-> IF f.typ \in FirstTypes THEN f.packets
                                       ELSE c.expectedPackets]
          /\ mhs' = mhs \o RetHeaders(f)
      BY <2>4 DEF PutFrame, put1
    <3> HIDE DEF f
    <3> QED
      BY <1>1, <3>1, <3>2, <3>3, <3>4 DEF TypeOK
  <2> QED
    BY <2>1, <2>2, <2>3, <2>4
<1> QED
  BY <1>1, <1>2 DEF PutFrame, TypeOK

(* Filing an item keeps the types, and the ids and items of every entry,   *)
(* but for one that gains the item or for a new one that holds it.         *)
LEMMA AddItemProperties ==
  ASSUME TypeOK, AddItem
  PROVE  LET item == Head(c.items)
             k == Find(item.id)
             n == Len(koses)
         IN  /\ item \in Items
             /\ koses' \in Seq(LoggerKosaPackets) /\ capacity' \in Nat
             /\ Len(koses') = IF k = 0 THEN n + 1 ELSE n
             /\ \A j \in 1 .. n : /\ koses'[j].id = koses[j].id
                                  /\ j # k => koses'[j].items = koses[j].items
             /\ k # 0 =>
                  koses'[k].items = IF PlumeOf(item.id) = PlumeOf(koses[k].id)
                                    THEN Append(koses[k].items, item)
                                    ELSE koses[k].items
             /\ k = 0 => /\ koses'[n + 1].id = item.id
                         /\ koses'[n + 1].items = <<item>>
             /\ k # 0 => \A j \in 1 .. n :
                  koses'[j].expectedPackets
                    = IF j = k THEN Told(koses[j].expectedPackets)
                               ELSE koses[j].expectedPackets
             /\ k = 0 =>
                  /\ \A j \in 1 .. n :
                       koses'[j].expectedPackets
                         \in {0, c.expectedPackets, koses[j].expectedPackets}
                  /\ koses'[n + 1].expectedPackets \in {0, c.expectedPackets}
                  /\ n = 0 => koses'[1].expectedPackets = c.expectedPackets
<1> DEFINE item == Head(c.items)
           k == Find(item.id)
           n == Len(koses)
<1>1. /\ koses \in Seq(LoggerKosaPackets) /\ n \in Nat /\ DOMAIN koses = 1 .. n
      /\ capacity \in Nat
  BY DEF TypeOK
<1>2. item \in Items
  BY DEF AddItem, TypeOK
<1>3. k \in 0 .. n
  BY <1>1, FindProperties
<1>4. CASE k = 0
  <2>1. PushBack(NewKosa(item))
    BY <1>4 DEF AddItem
  <2>2. Told(0) = c.expectedPackets
    BY DEF Told
  <2> QED
    BY <1>1, <1>2, <1>4, <2>1, <2>2, PushBackProperties, NewKosaProperties
<1>5. CASE k # 0
  <2>1. koses' = [koses EXCEPT ![k] = Expect(Add(koses[k], item))] /\ capacity' = capacity
    BY <1>5 DEF AddItem
  <2>2. k \in 1 .. n /\ koses[k] \in LoggerKosaPackets
    BY <1>1, <1>3, <1>5
  <2>3. Add(koses[k], item) \in LoggerKosaPackets
    BY <1>2, <2>2, AddProperties
  <2>4. /\ Expect(Add(koses[k], item)) \in LoggerKosaPackets
        /\ Expect(Add(koses[k], item)).id = koses[k].id
        /\ Expect(Add(koses[k], item)).expectedPackets = Told(koses[k].expectedPackets)
        /\ Expect(Add(koses[k], item)).items
             = IF PlumeOf(item.id) = PlumeOf(koses[k].id)
               THEN Append(koses[k].items, item) ELSE koses[k].items
    BY <1>2, <2>2, <2>3, AddProperties, ExpectProperties
  <2> HIDE DEF item, k
  <2>5. /\ koses' \in Seq(LoggerKosaPackets) /\ Len(koses') = n
        /\ \A j \in 1 .. n : koses'[j] = IF j = k THEN Expect(Add(koses[k], item))
                                                 ELSE koses[j]
    BY <1>1, <2>1, <2>2, <2>4, ExceptSeq
  <2> QED
    BY <1>1, <1>2, <1>5, <2>1, <2>2, <2>4, <2>5 DEF item, k
<1> QED
  BY <1>4, <1>5

(* Erasing an entry or passing over it.                                    *)
LEMMA EraseIfProperties ==
  ASSUME TypeOK, it \in 1 .. Len(koses), NEW condition \in BOOLEAN, EraseIf(condition)
  PROVE  /\ koses' \in Seq(LoggerKosaPackets)
         /\ it' \in Nat
         /\ IF condition
            THEN /\ Len(koses') = Len(koses) - 1
                 /\ \A j \in 1 .. Len(koses) - 1 :
                      koses'[j] = IF j < it THEN koses[j] ELSE koses[j + 1]
            ELSE koses' = koses
<1>1. koses \in Seq(LoggerKosaPackets) /\ it \in Nat
  BY DEF TypeOK
<1>2. CASE condition
  <2>1. koses' = RemoveAt(koses, it) /\ it' = it
    BY <1>2 DEF EraseIf
  <2> QED
    BY <1>1, <1>2, <2>1, RemoveAtProperties
<1>3. CASE ~condition
  BY <1>1, <1>3 DEF EraseIf
<1> QED
  BY <1>2, <1>3

(* The clock changes ages only.                                            *)
LEMMA TickProperties ==
  ASSUME TypeOK, Tick
  PROVE  /\ koses' \in Seq(LoggerKosaPackets)
         /\ Len(koses') = Len(koses)
         /\ \A k \in 1 .. Len(koses) :
              /\ koses'[k].id = koses[k].id /\ koses'[k].items = koses[k].items
              /\ koses'[k].expectedPackets = koses[k].expectedPackets
<1> DEFINE n == Len(koses)
           Aged(k) == [koses[k] EXCEPT !.age = IF Expired(koses[k]) THEN @ ELSE @ + 1]
<1>1. koses \in Seq(LoggerKosaPackets) /\ n \in Nat /\ DOMAIN koses = 1 .. n
  BY DEF TypeOK
<1>2. \A k \in 1 .. n : /\ Aged(k) \in LoggerKosaPackets
                        /\ Aged(k).id = koses[k].id
                        /\ Aged(k).items = koses[k].items
                        /\ Aged(k).expectedPackets = koses[k].expectedPackets
  <2> SUFFICES ASSUME NEW k \in 1 .. n
               PROVE  /\ Aged(k) \in LoggerKosaPackets
                      /\ Aged(k).id = koses[k].id
                      /\ Aged(k).items = koses[k].items
                      /\ Aged(k).expectedPackets = koses[k].expectedPackets
    OBVIOUS
  <2> DEFINE age == IF Expired(koses[k]) THEN koses[k].age ELSE koses[k].age + 1
  <2>1. koses[k] \in LoggerKosaPackets
    BY <1>1
  <2>2. koses[k].age \in 0 .. MaxWait + 1
    BY <2>1 DEF LoggerKosaPackets
  <2>3. age \in 0 .. MaxWait + 1
    BY <2>2, MaxWaitAssumption DEF Expired
  <2>4. Aged(k) = [koses[k] EXCEPT !.age = age]
    OBVIOUS
  <2> HIDE DEF age, Aged
  <2> QED
    BY <2>1, <2>3, <2>4 DEF LoggerKosaPackets
<1> HIDE DEF Aged
<1>3. koses' = [k \in 1 .. n |-> Aged(k)]
  BY <1>1 DEF Tick, Aged
<1> QED
  BY <1>1, <1>2, <1>3, IsASeq, LenProperties

(* Copying a measurement header changes headers only.                      *)
LEMMA AddHeaderProperties ==
  ASSUME TypeOK, AddHeader
  PROVE  /\ koses' \in Seq(LoggerKosaPackets)
         /\ Len(koses') = Len(koses)
         /\ \A k \in 1 .. Len(koses) :
              /\ koses'[k].id = koses[k].id /\ koses'[k].items = koses[k].items
              /\ koses'[k].expectedPackets = koses[k].expectedPackets
<1> DEFINE mh == Head(mhs)
           k == Find(mh)
<1>1. koses \in Seq(LoggerKosaPackets) /\ mh \in Plumes
  BY DEF AddHeader, TypeOK
<1>2. k \in 0 .. Len(koses)
  BY <1>1, FindProperties
<1>3. koses' = IF k = 0 THEN koses ELSE [koses EXCEPT ![k].header = mh]
  BY DEF AddHeader
<1> HIDE DEF k, mh
<1>4. CASE k = 0
  BY <1>1, <1>3, <1>4
<1>5. CASE k # 0
  <2>1. k \in 1 .. Len(koses) /\ koses[k] \in LoggerKosaPackets
    BY <1>1, <1>2, <1>5
  <2>2. [koses[k] EXCEPT !.header = mh] \in LoggerKosaPackets
    BY <1>1, <2>1 DEF LoggerKosaPackets
  <2>3. koses' = [koses EXCEPT ![k] = [koses[k] EXCEPT !.header = mh]]
    BY <1>3, <1>5
  <2>4. /\ [koses[k] EXCEPT !.header = mh].id = koses[k].id
        /\ [koses[k] EXCEPT !.header = mh].items = koses[k].items
        /\ [koses[k] EXCEPT !.header = mh].expectedPackets = koses[k].expectedPackets
    BY <2>1 DEF LoggerKosaPackets
  <2> QED
    BY <1>1, <2>1, <2>2, <2>3, <2>4, ExceptSeq
<1> QED
  BY <1>4, <1>5

LEMMA TypeOKStep ==
  ASSUME TypeOK, [Next]_vars
  PROVE  TypeOK'
<1>1. ASSUME NEW batch \in Batches, Put(batch)
      PROVE  TypeOK'
  BY <1>1, BatchesAssumption DEF Put, TypeOK
<1>2. CASE PutFrame
  BY <1>2, PutFrameType
<1>3. CASE AddItem
  <2>1. koses' \in Seq(LoggerKosaPackets) /\ capacity' \in Nat
    BY <1>3, AddItemProperties
  <2>2. c' \in [items : Seq(Items), expectedPackets : Nat]
    <3>1. NewCollection \in [items : Seq(Items), expectedPackets : Nat]
      BY DEF NewCollection
    <3>2. c.items \in Seq(Items) /\ c.items # <<>>
      BY <1>3 DEF AddItem, TypeOK
    <3>3. [c EXCEPT !.items = Tail(c.items)] \in [items : Seq(Items), expectedPackets : Nat]
      BY <3>2, HeadTailProperties DEF TypeOK
    <3> QED
      BY <1>3, <3>1, <3>3 DEF AddItem
  <2> QED
    BY <1>3, <2>1, <2>2 DEF AddItem, TypeOK
<1>4. CASE AddHeader
  <2>1. koses' \in Seq(LoggerKosaPackets)
    BY <1>4, AddHeaderProperties
  <2> QED
    BY <1>4, <2>1 DEF AddHeader, TypeOK
<1>5. CASE BeginLoop("rmExpired")
  BY <1>5 DEF BeginLoop, TypeOK
<1>6. CASE EndLoop("rmExpired")
  BY <1>6 DEF EndLoop, TypeOK
<1>7. CASE RmExpired
  <2>1. it \in 1 .. Len(koses)
    BY <1>7 DEF RmExpired, TypeOK
  <2>2. koses' \in Seq(LoggerKosaPackets)
    <3> DEFINE condition == Expired(koses[it])
    <3>1. condition \in BOOLEAN
      BY DEF Expired
    <3>2. EraseIf(condition)
      BY <1>7 DEF RmExpired
    <3> HIDE DEF condition
    <3> QED
      BY <2>1, <3>1, <3>2, EraseIfProperties
  <2>3. it' \in Nat /\ it' # 0
    BY <1>7, <2>1 DEF RmExpired, EraseIf, TypeOK
  <2> QED
    BY <1>7, <2>2, <2>3 DEF RmExpired, EraseIf, TypeOK
<1>8. CASE Tick
  <2>1. koses' \in Seq(LoggerKosaPackets)
    BY <1>8, TickProperties
  <2> QED
    BY <1>8, <2>1 DEF Tick, TypeOK
<1>9. CASE UNCHANGED vars
  BY <1>9 DEF vars, TypeOK
<1> QED
  BY <1>1, <1>2, <1>3, <1>4, <1>5, <1>6, <1>7, <1>8, <1>9
  DEF Next, PutStep, RmExpiredStep

(* In every behaviour of the collector, for every traffic, loader and      *)
(* bound, the variables keep their types: in particular every id comes     *)
(* from bytes, and koses[0] exists where the code dereferences it.         *)
THEOREM TypeCorrect == Spec => []TypeOK
<1>1. Init => TypeOK
  BY DEF Init, TypeOK, NewCollection
<1>2. TypeOK /\ [Next]_vars => TypeOK'
  BY TypeOKStep
<1> QED
  BY <1>1, <1>2, PTL DEF Spec

-----------------------------------------------------------------------------
(* One entry per plume, and the items of the plume in it.                  *)

(* A step that keeps every entry's id and items keeps both invariants.     *)
LEMMA SameItems ==
  ASSUME UniqueKoses, ItemsAgree,
         koses \in Seq(LoggerKosaPackets), koses' \in Seq(LoggerKosaPackets),
         Len(koses') = Len(koses),
         \A k \in 1 .. Len(koses) :
           koses'[k].id = koses[k].id /\ koses'[k].items = koses[k].items
  PROVE  UniqueKoses' /\ ItemsAgree'
BY DEF UniqueKoses, ItemsAgree

(* So does a step that erases one entry or none.                           *)
LEMMA ErasedItems ==
  ASSUME TypeOK, UniqueKoses, ItemsAgree, it \in 1 .. Len(koses),
         NEW condition \in BOOLEAN, EraseIf(condition)
  PROVE  UniqueKoses' /\ ItemsAgree'
<1>1. koses \in Seq(LoggerKosaPackets) /\ koses' \in Seq(LoggerKosaPackets)
  BY EraseIfProperties DEF TypeOK
<1>2. CASE ~condition
  <2>1. koses' = koses
    BY <1>2, EraseIfProperties
  <2> QED
    BY <1>1, <2>1 DEF UniqueKoses, ItemsAgree
<1>3. CASE condition
  <2> DEFINE From(j) == IF j < it THEN j ELSE j + 1
  <2>1. Len(koses') = Len(koses) - 1
    BY <1>3, EraseIfProperties
  <2>2. \A j \in DOMAIN koses' : From(j) \in DOMAIN koses /\ koses'[j] = koses[From(j)]
    <3>1. DOMAIN koses = 1 .. Len(koses) /\ DOMAIN koses' = 1 .. Len(koses) - 1
      BY <1>1, <2>1
    <3>2. \A j \in 1 .. Len(koses) - 1 :
            koses'[j] = IF j < it THEN koses[j] ELSE koses[j + 1]
      BY <1>3, EraseIfProperties
    <3> QED
      BY <3>1, <3>2
  <2>3. \A i, j \in DOMAIN koses' : From(i) = From(j) => i = j
    BY <1>1
  <2> HIDE DEF From
  <2>4. UniqueKoses'
    BY <2>2, <2>3 DEF UniqueKoses
  <2>5. ItemsAgree'
    BY <2>2 DEF ItemsAgree
  <2> QED
    BY <2>4, <2>5
<1> QED
  BY <1>2, <1>3

(* Filing an item: a new entry is created only where no entry matches the  *)
(* id, and an item only joins an entry of its plume.                       *)
LEMMA FiledItems ==
  ASSUME TypeOK, UniqueKoses, ItemsAgree, AddItem
  PROVE  UniqueKoses' /\ ItemsAgree'
<1> DEFINE item == Head(c.items)
           k == Find(item.id)
           n == Len(koses)
<1>1. /\ koses \in Seq(LoggerKosaPackets) /\ koses' \in Seq(LoggerKosaPackets)
      /\ n \in Nat /\ DOMAIN koses = 1 .. n
      /\ item \in Items
      /\ Len(koses') = IF k = 0 THEN n + 1 ELSE n
  BY AddItemProperties DEF TypeOK
<1>2. /\ k \in 0 .. n
      /\ k = 0 => \A j \in 1 .. n : ~Matches(koses[j], item.id)
  BY <1>1, FindProperties
<1>3. \A j \in 1 .. n : /\ koses'[j].id = koses[j].id
                        /\ j # k => koses'[j].items = koses[j].items
  BY AddItemProperties
<1>4. CASE k = 0
  <2>1. koses'[n + 1].id = item.id /\ koses'[n + 1].items = <<item>>
    BY <1>4, AddItemProperties
  <2> HIDE DEF item, k, n
  <2>2. DOMAIN koses' = 1 .. n + 1
    BY <1>1, <1>4
  <2>3. \A j \in 1 .. n : PlumeOf(koses[j].id) # PlumeOf(item.id)
    BY <1>2, <1>4 DEF Matches, PlumeOf
  <2>4. UniqueKoses'
    BY <1>1, <1>3, <2>1, <2>2, <2>3 DEF UniqueKoses
  <2>5. ItemsAgree'
    <3>1. \A j \in 1 .. n : koses'[j].items = koses[j].items
      BY <1>2, <1>3, <1>4
    <3>2. ASSUME NEW j \in DOMAIN koses'
          PROVE  /\ koses'[j].items # <<>>
                 /\ koses'[j].id = koses'[j].items[1].id
                 /\ \A i \in DOMAIN koses'[j].items :
                      PlumeOf(koses'[j].items[i].id) = PlumeOf(koses'[j].id)
      <4>1. CASE j \in 1 .. n
        BY <1>1, <1>3, <3>1, <4>1 DEF ItemsAgree
      <4>2. CASE j = n + 1
        BY <2>1, <4>2
      <4> QED
        BY <1>1, <2>2, <4>1, <4>2
    <3> QED
      BY <3>2 DEF ItemsAgree
  <2> QED
    BY <2>4, <2>5
<1>5. CASE k # 0
  <2>1. koses'[k].items = IF PlumeOf(item.id) = PlumeOf(koses[k].id)
                          THEN Append(koses[k].items, item) ELSE koses[k].items
    BY <1>5, AddItemProperties
  <2> HIDE DEF item, k, n
  <2>2. DOMAIN koses' = 1 .. n /\ k \in 1 .. n
    BY <1>1, <1>2, <1>5
  <2>3. UniqueKoses'
    BY <1>1, <1>3, <2>2 DEF UniqueKoses
  <2>4. koses[k].items \in Seq(Items) /\ koses[k].items # <<>>
    <3>1. koses[k] \in LoggerKosaPackets
      BY <1>1, <2>2
    <3> QED
      BY <1>1, <2>2, <3>1 DEF LoggerKosaPackets, ItemsAgree
  <2>5. /\ koses'[k].items # <<>>
        /\ koses'[k].items[1] = koses[k].items[1]
        /\ \A i \in DOMAIN koses'[k].items :
             \/ i \in DOMAIN koses[k].items /\ koses'[k].items[i] = koses[k].items[i]
             \/ PlumeOf(koses'[k].items[i].id) = PlumeOf(koses[k].id)
    <3>1. CASE PlumeOf(item.id) = PlumeOf(koses[k].id)
      <4> DEFINE s == koses[k].items
                 l == Len(s)
      <4>1. l \in Nat /\ l # 0 /\ DOMAIN s = 1 .. l
        BY <2>4
      <4>2. /\ Append(s, item) # <<>> /\ Len(Append(s, item)) = l + 1
            /\ DOMAIN Append(s, item) = 1 .. l + 1
            /\ \A i \in 1 .. l : Append(s, item)[i] = s[i]
            /\ Append(s, item)[l + 1] = item
        BY <1>1, <2>4, AppendProperties
      <4> QED
        BY <2>1, <3>1, <4>1, <4>2
    <3>2. CASE PlumeOf(item.id) # PlumeOf(koses[k].id)
      BY <2>1, <2>4, <3>2
    <3> QED
      BY <3>1, <3>2
  <2>6. ItemsAgree'
    <3>1. ASSUME NEW j \in DOMAIN koses'
          PROVE  /\ koses'[j].items # <<>>
                 /\ koses'[j].id = koses'[j].items[1].id
                 /\ \A i \in DOMAIN koses'[j].items :
                      PlumeOf(koses'[j].items[i].id) = PlumeOf(koses'[j].id)
      <4>1. CASE j = k
        BY <1>1, <1>3, <2>2, <2>5, <4>1 DEF ItemsAgree
      <4>2. CASE j # k
        BY <1>1, <1>3, <2>2, <4>2 DEF ItemsAgree
      <4> QED
        BY <4>1, <4>2
    <3> QED
      BY <3>1 DEF ItemsAgree
  <2> QED
    BY <2>3, <2>6
<1> QED
  BY <1>4, <1>5

(* The inductive invariant of the collector.                               *)
IInv == TypeOK /\ UniqueKoses /\ ItemsAgree

LEMMA IInvStep ==
  ASSUME IInv, [Next]_vars
  PROVE  IInv'
<1> USE DEF IInv
<1>1. TypeOK'
  BY TypeOKStep
<1>2. UniqueKoses' /\ ItemsAgree'
  <2>1. ASSUME koses' = koses
        PROVE  UniqueKoses' /\ ItemsAgree'
    BY <2>1 DEF UniqueKoses, ItemsAgree
  <2>2. CASE AddItem
    BY <2>2, FiledItems
  <2>3. CASE AddHeader
    BY <2>3, AddHeaderProperties, SameItems DEF TypeOK
  <2>4. CASE RmExpired
    <3> DEFINE condition == Expired(koses[it])
    <3>1. condition \in BOOLEAN
      BY DEF Expired
    <3>2. EraseIf(condition) /\ it \in 1 .. Len(koses)
      BY <2>4 DEF RmExpired, TypeOK
    <3> HIDE DEF condition
    <3> QED
      BY <3>1, <3>2, ErasedItems
  <2>5. CASE Tick
    BY <2>5, TickProperties, SameItems DEF TypeOK
  <2>6. CASE UNCHANGED vars
    BY <2>1, <2>6 DEF vars
  <2>7. ASSUME NEW batch \in Batches, Put(batch)
        PROVE  koses' = koses
    BY <2>7 DEF Put
  <2>8. ASSUME PutFrame \/ BeginLoop("rmExpired") \/ EndLoop("rmExpired")
        PROVE  koses' = koses
    BY <2>8 DEF PutFrame, BeginLoop, EndLoop
  <2> QED
    BY <2>1, <2>2, <2>3, <2>4, <2>5, <2>6, <2>7, <2>8
    DEF Next, PutStep, RmExpiredStep
<1> QED
  BY <1>1, <1>2

LEMMA IInvCorrect == Spec => []IInv
<1>1. Init => IInv
  BY DEF Init, IInv, TypeOK, NewCollection, UniqueKoses, ItemsAgree
<1>2. IInv /\ [Next]_vars => IInv'
  BY IInvStep
<1> QED
  BY <1>1, <1>2, PTL DEF Spec

(* No plume ever has two entries.                                          *)
THEOREM KosesAreUnique == Spec => []UniqueKoses
BY IInvCorrect, PTL DEF IInv

(* No entry ever holds an item of another plume, or none.                  *)
THEOREM ItemsAreOfTheirPlume == Spec => []ItemsAgree
BY IInvCorrect, PTL DEF IInv

-----------------------------------------------------------------------------
(* The map a vector s of entries stands for.                               *)

HeldBy(s) == {PlumeOf(s[k].id) : k \in DOMAIN s}
MapOf(s) ==
  [p \in HeldBy(s) |-> s[CHOOSE k \in DOMAIN s : PlumeOf(s[k].id) = p].items]

IsUnique(s) ==
  \A j, k \in DOMAIN s : PlumeOf(s[j].id) = PlumeOf(s[k].id) => j = k

(* The plume of an entry is mapped to the items of that entry.             *)
LEMMA MapOfProperties ==
  ASSUME NEW s, IsUnique(s)
  PROVE  /\ DOMAIN MapOf(s) = HeldBy(s)
         /\ \A k \in DOMAIN s : MapOf(s)[PlumeOf(s[k].id)] = s[k].items
<1>1. DOMAIN MapOf(s) = HeldBy(s)
  BY DEF MapOf
<1>2. ASSUME NEW k \in DOMAIN s
      PROVE  MapOf(s)[PlumeOf(s[k].id)] = s[k].items
  <2> DEFINE p == PlumeOf(s[k].id)
             chosen == CHOOSE j \in DOMAIN s : PlumeOf(s[j].id) = p
  <2>1. p \in HeldBy(s)
    BY DEF HeldBy
  <2>2. chosen \in DOMAIN s /\ PlumeOf(s[chosen].id) = p
    OBVIOUS
  <2>3. chosen = k
    BY <2>2 DEF IsUnique
  <2>4. MapOf(s)[p] = s[chosen].items
    BY <2>1 DEF MapOf
  <2> QED BY <2>3, <2>4
<1> QED BY <1>1, <1>2

(* It is the only function that does so.                                   *)
LEMMA MapOfIsTheOne ==
  ASSUME NEW s, IsUnique(s), NEW f, f = [p \in HeldBy(s) |-> f[p]],
         \A k \in DOMAIN s : f[PlumeOf(s[k].id)] = s[k].items
  PROVE  MapOf(s) = f
<1>1. \A p \in HeldBy(s) : MapOf(s)[p] = f[p]
  BY MapOfProperties DEF HeldBy
<1>2. MapOf(s) = [p \in HeldBy(s) |-> MapOf(s)[p]]
  BY DEF MapOf
<1>3. [p \in HeldBy(s) |-> MapOf(s)[p]] = [p \in HeldBy(s) |-> f[p]]
  BY <1>1
<1> QED BY <1>2, <1>3

(* Entries that keep their ids and items, in the same places.              *)
LEMMA SameMap ==
  ASSUME NEW s, NEW t, IsUnique(s), IsUnique(t), DOMAIN s = DOMAIN t,
         \A k \in DOMAIN s : s[k].id = t[k].id /\ s[k].items = t[k].items
  PROVE  MapOf(t) = MapOf(s)
<1>1. HeldBy(t) = HeldBy(s)
  BY DEF HeldBy
<1>2. MapOf(s) = [p \in HeldBy(t) |-> MapOf(s)[p]]
  BY <1>1 DEF MapOf
<1>3. \A k \in DOMAIN t : MapOf(s)[PlumeOf(t[k].id)] = t[k].items
  BY MapOfProperties
<1> QED BY <1>2, <1>3, MapOfIsTheOne

(* The refinement mapping.                                                 *)
LEMMA Mapped ==
  /\ [p \in Held |-> ItemsOf(p)] = MapOf(koses)
  /\ [p \in Held |-> ItemsOf(p)]' = MapOf(koses')
<1>1. [p \in Held |-> ItemsOf(p)] = MapOf(koses)
  BY DEF Held, ItemsOf, MapOf, HeldBy
<1>2. [p \in Held |-> ItemsOf(p)]' = MapOf(koses')
  BY DEF Held, ItemsOf, MapOf, HeldBy
<1> QED BY <1>1, <1>2

-----------------------------------------------------------------------------
(* Each step of the collector is a step of the map, or none.               *)

(* What a step leaves alone.                                               *)
LEMMA StutterStep ==
  ASSUME c' = c, MapOf(koses') = MapOf(koses)
  PROVE  [Map!Next]_<<c.items, [p \in Held |-> ItemsOf(p)]>>
BY Mapped

(* Decoding a frame.                                                       *)
LEMMA PutFrameRefines ==
  ASSUME IInv, PutFrame
  PROVE  [Map!Next]_<<c.items, [p \in Held |-> ItemsOf(p)]>>
<1> DEFINE f == Head(values)
           s == c.items
           s1 == c'.items
<1>1. koses' = koses /\ MapOf(koses') = MapOf(koses)
  BY DEF PutFrame
<1>2. s \in Seq(Items) /\ Len(s) \in Nat
  BY DEF IInv, TypeOK
<1>3. CASE c' = c
  BY <1>1, <1>3, StutterStep
<1>4. ASSUME NEW item, s1 = Append(s, item)
      PROVE  Map!Decode
  <2>1. Len(s1) = Len(s) + 1 /\ \A i \in DOMAIN s : s1[i] = s[i]
    BY <1>2, <1>4
  <2> QED BY <1>1, <2>1, Mapped DEF Map!Decode
<1>5. CASE f.typ = "RAW" /\ s # <<>>
  <2> DEFINE all == IF Len(s[1].packet) < MaxRawFrames
                    THEN Append(s[1].packet, f) ELSE s[1].packet
  <2>1. s1 = [s EXCEPT ![1].packet = all]
    BY <1>5 DEF PutFrame, putRaw
  <2> HIDE DEF all
  <2>2. s[1] \in Items
    BY <1>2, <1>5
  <2>3. Len(s1) = Len(s)
    BY <1>2, <2>1
  <2>4. \A i \in DOMAIN s : s1[i].id = s[i].id
    BY <1>2, <2>1, <2>2 DEF Items
  <2>5. Map!Extend
    BY <1>1, <2>3, <2>4, Mapped DEF Map!Extend
  <2> QED BY <2>5 DEF Map!Next
<1>6. CASE f.typ = "RAW" /\ s = <<>>
  <2>1. PICK item : s1 = <<item>>
    BY <1>6 DEF PutFrame, putRaw
  <2>2. s1 = Append(s, item)
    BY <1>6, <2>1
  <2>3. Map!Decode
    BY <2>2, <1>4
  <2> QED BY <2>3 DEF Map!Next
<1>7. CASE f.typ \notin {"RAW", "UNKNOWN"}
  <2>1. s1 = Append(s, [id |-> ItemId(f), packet |-> <<f>>])
    BY <1>7 DEF PutFrame, put1
  <2>2. Map!Decode
    BY <2>1, <1>4
  <2> QED BY <2>2 DEF Map!Next
<1>8. CASE f.typ = "UNKNOWN"
  BY <1>3, <1>8 DEF PutFrame, put1
<1> QED BY <1>5, <1>6, <1>7, <1>8

(* Filing an item.                                                         *)
LEMMA AddItemRefines ==
  ASSUME IInv, IInv', AddItem
  PROVE  [Map!Next]_<<c.items, [p \in Held |-> ItemsOf(p)]>>
<1> DEFINE item == Head(c.items)
           k == Find(item.id)
           n == Len(koses)
           p == PlumeOf(item.id)
           m == MapOf(koses)
<1>1. /\ koses \in Seq(LoggerKosaPackets) /\ koses' \in Seq(LoggerKosaPackets)
      /\ n \in Nat /\ DOMAIN koses = 1 .. n
      /\ IsUnique(koses) /\ IsUnique(koses')
  BY DEF IInv, TypeOK, UniqueKoses, IsUnique
<1>2. /\ k \in 0 .. n
      /\ k = 0 => \A j \in DOMAIN koses : ~Matches(koses[j], item.id)
      /\ k # 0 => Matches(koses[k], item.id)
  BY <1>1, FindProperties
<1>3. /\ Len(koses') = IF k = 0 THEN n + 1 ELSE n
      /\ \A j \in 1 .. n : /\ koses'[j].id = koses[j].id
                           /\ j # k => koses'[j].items = koses[j].items
      /\ k # 0 => koses'[k].items = IF PlumeOf(item.id) = PlumeOf(koses[k].id)
                                    THEN Append(koses[k].items, item)
                                    ELSE koses[k].items
      /\ k = 0 => koses'[n + 1].id = item.id /\ koses'[n + 1].items = <<item>>
  BY AddItemProperties DEF IInv
<1>4. c.items # <<>> /\ c'.items = Tail(c.items)
  <2>1. c.items \in Seq(Items) /\ c.items # <<>>
    BY DEF IInv, TypeOK, AddItem
  <2>2. ASSUME Len(c.items) = 1
        PROVE  Tail(c.items) = <<>>
    <3>1. Tail(c.items) \in Seq(Items) /\ Len(Tail(c.items)) = 0
      BY <2>1, <2>2, HeadTailProperties
    <3> QED BY <3>1, EmptySeq
  <2>3. [c EXCEPT !.items = Tail(c.items)].items = Tail(c.items)
    BY DEF IInv, TypeOK
  <2> QED BY <2>1, <2>2, <2>3 DEF AddItem, NewCollection
<1>5. DOMAIN m = HeldBy(koses) /\ \A j \in DOMAIN koses : m[PlumeOf(koses[j].id)] = koses[j].items
  BY <1>1, MapOfProperties
<1> DEFINE filed == [q \in DOMAIN m \cup {p} |->
                       IF q # p THEN m[q]
                       ELSE IF p \in DOMAIN m THEN Append(m[p], item) ELSE <<item>>]
<1>6. ASSUME MapOf(koses') = filed
      PROVE  Map!File
  <2>1. Map!Plume(Head(c.items)) = p
    BY DEF Map!Plume, PlumeOf
  <2> QED BY <1>4, <1>6, <2>1, Mapped DEF Map!File
<1> HIDE DEF k, n, item, m
<1>7. CASE k = 0
  <2>1. p \notin HeldBy(koses)
    BY <1>2, <1>7 DEF Matches, PlumeOf, HeldBy
  <2>2. DOMAIN koses' = 1 .. n + 1
    BY <1>1, <1>3, <1>7
  <2>3. HeldBy(koses') = HeldBy(koses) \cup {p}
    <3>1. \A j \in 1 .. n : PlumeOf(koses'[j].id) = PlumeOf(koses[j].id)
      BY <1>3
    <3>2. PlumeOf(koses'[n + 1].id) = p
      BY <1>3, <1>7
    <3>3. 1 .. n + 1 = (1 .. n) \cup {n + 1}
      BY <1>1
    <3> QED BY <1>1, <2>2, <3>1, <3>2, <3>3 DEF HeldBy
  <2>4. ASSUME NEW j \in DOMAIN koses'
        PROVE  filed[PlumeOf(koses'[j].id)] = koses'[j].items
    <3>1. CASE j = n + 1
      BY <1>3, <1>5, <1>7, <2>1, <3>1
    <3>2. CASE j \in 1 .. n
      <4>1. PlumeOf(koses[j].id) \in HeldBy(koses) /\ j # k
        BY <1>1, <1>7, <3>2 DEF HeldBy
      <4> QED BY <1>1, <1>3, <1>5, <2>1, <3>2, <4>1
    <3> QED BY <1>1, <2>2, <3>1, <3>2
  <2>5. filed = [q \in HeldBy(koses') |-> filed[q]]
    BY <1>5, <2>3
  <2>6. MapOf(koses') = filed
    BY <1>1, <2>4, <2>5, MapOfIsTheOne
  <2> QED BY <1>6, <2>6 DEF Map!Next
<1>8. CASE k # 0 /\ PlumeOf(koses[k].id) = p
  <2>1. DOMAIN koses' = 1 .. n /\ k \in 1 .. n
    BY <1>1, <1>2, <1>3, <1>8
  <2>2. HeldBy(koses') = HeldBy(koses) /\ p \in HeldBy(koses)
    BY <1>1, <1>3, <1>8, <2>1 DEF HeldBy
  <2>3. ASSUME NEW j \in DOMAIN koses'
        PROVE  filed[PlumeOf(koses'[j].id)] = koses'[j].items
    <3>1. PlumeOf(koses[j].id) \in HeldBy(koses) /\ koses'[j].id = koses[j].id
      BY <1>1, <1>3, <2>1 DEF HeldBy
    <3>2. CASE j = k
      BY <1>3, <1>5, <1>8, <2>1, <2>2, <3>1, <3>2, <1>1
    <3>3. CASE j # k
      <4>1. PlumeOf(koses[j].id) # p
        BY <1>1, <1>8, <2>1, <3>3 DEF IsUnique
      <4> QED BY <1>1, <1>3, <1>5, <2>1, <3>1, <3>3, <4>1
    <3> QED BY <3>2, <3>3
  <2>4. filed = [q \in HeldBy(koses') |-> filed[q]]
    BY <1>5, <2>2
  <2>5. MapOf(koses') = filed
    BY <1>1, <2>3, <2>4, MapOfIsTheOne
  <2> QED BY <1>6, <2>5 DEF Map!Next
<1>9. CASE k # 0 /\ PlumeOf(koses[k].id) # p
  <2>1. item.id.kosa_year = NO_MATCH_YEAR
    BY <1>2, <1>9 DEF Matches, PlumeOf
  <2>2. DOMAIN koses' = DOMAIN koses
    BY <1>1, <1>3, <1>9
  <2>3. \A j \in DOMAIN koses : koses[j].id = koses'[j].id /\ koses[j].items = koses'[j].items
    BY <1>1, <1>3, <1>9
  <2>4. MapOf(koses') = MapOf(koses)
    BY <1>1, <2>2, <2>3, SameMap
  <2>5. Map!Refuse
    BY <1>4, <2>1, <2>4, Mapped DEF Map!Refuse, item
  <2> QED BY <2>5 DEF Map!Next
<1> QED BY <1>7, <1>8, <1>9

(* Erasing an entry.                                                       *)
LEMMA RmExpiredRefines ==
  ASSUME IInv, IInv', RmExpired
  PROVE  [Map!Next]_<<c.items, [p \in Held |-> ItemsOf(p)]>>
<1> DEFINE condition == Expired(koses[it])
           n == Len(koses)
           p == PlumeOf(koses[it].id)
           m == MapOf(koses)
<1>1. /\ koses \in Seq(LoggerKosaPackets) /\ koses' \in Seq(LoggerKosaPackets)
      /\ n \in Nat /\ DOMAIN koses = 1 .. n
      /\ IsUnique(koses) /\ IsUnique(koses')
      /\ it \in 1 .. n
  BY DEF IInv, TypeOK, UniqueKoses, IsUnique, RmExpired
<1>2. condition \in BOOLEAN /\ EraseIf(condition) /\ c' = c
  BY DEF RmExpired, EraseIf, Expired
<1> HIDE DEF condition
<1>3. IF condition
      THEN /\ Len(koses') = n - 1
           /\ \A j \in 1 .. n - 1 :
                koses'[j] = IF j < it THEN koses[j] ELSE koses[j + 1]
      ELSE koses' = koses
  BY <1>1, <1>2, EraseIfProperties DEF IInv
<1>4. CASE ~condition
  BY <1>2, <1>3, <1>4, StutterStep
<1>5. CASE condition
  <2> DEFINE From(j) == IF j < it THEN j ELSE j + 1
             kept == [q \in DOMAIN m \ {p} |-> m[q]]
  <2>1. DOMAIN koses' = 1 .. n - 1
    BY <1>1, <1>3, <1>5
  <2>2. \A j \in DOMAIN koses' :
          From(j) \in DOMAIN koses /\ From(j) # it /\ koses'[j] = koses[From(j)]
    BY <1>1, <1>3, <1>5, <2>1
  <2>3. \A i \in DOMAIN koses : i # it => \E j \in DOMAIN koses' : From(j) = i
    <3> SUFFICES ASSUME NEW i \in DOMAIN koses, i # it
                 PROVE  \E j \in DOMAIN koses' : From(j) = i
      OBVIOUS
    <3>1. CASE i < it
      BY <1>1, <2>1, <3>1
    <3>2. CASE i > it
      <4>1. i - 1 \in 1 .. n - 1 /\ From(i - 1) = i
        BY <1>1, <3>2
      <4> QED BY <2>1, <4>1
    <3> QED BY <1>1, <3>1, <3>2
  <2> HIDE DEF From
  <2>4. DOMAIN m = HeldBy(koses) /\ \A j \in DOMAIN koses : m[PlumeOf(koses[j].id)] = koses[j].items
    BY <1>1, MapOfProperties
  <2>5. \A i \in DOMAIN koses : PlumeOf(koses[i].id) = p <=> i = it
    BY <1>1 DEF IsUnique
  <2> HIDE DEF p, m
  <2>6. HeldBy(koses') = HeldBy(koses) \ {p}
    <3>1. ASSUME NEW q \in HeldBy(koses')
          PROVE  q \in HeldBy(koses) \ {p}
      <4>1. PICK j \in DOMAIN koses' : q = PlumeOf(koses'[j].id)
        BY <3>1 DEF HeldBy
      <4>2. q = PlumeOf(koses[From(j)].id) /\ From(j) \in DOMAIN koses /\ From(j) # it
        BY <2>2, <4>1
      <4> QED BY <2>5, <4>2 DEF HeldBy
    <3>2. ASSUME NEW q \in HeldBy(koses) \ {p}
          PROVE  q \in HeldBy(koses')
      <4>1. PICK i \in DOMAIN koses : q = PlumeOf(koses[i].id)
        BY <3>2 DEF HeldBy
      <4>2. PICK j \in DOMAIN koses' : From(j) = i
        BY <2>3, <2>5, <3>2, <4>1
      <4> QED BY <2>2, <4>1, <4>2 DEF HeldBy
    <3> QED BY <3>1, <3>2
  <2>7. ASSUME NEW j \in DOMAIN koses'
        PROVE  kept[PlumeOf(koses'[j].id)] = koses'[j].items
    <3>1. koses'[j] = koses[From(j)] /\ From(j) \in DOMAIN koses /\ From(j) # it
      BY <2>2
    <3>2. PlumeOf(koses'[j].id) \in HeldBy(koses) \ {p}
      BY <2>6 DEF HeldBy
    <3> QED BY <2>4, <3>1, <3>2
  <2>8. kept = [q \in HeldBy(koses') |-> kept[q]]
    BY <2>4, <2>6
  <2>9. MapOf(koses') = kept
    BY <1>1, <2>7, <2>8, MapOfIsTheOne
  <2>10. p \in DOMAIN m
    BY <1>1, <2>4 DEF HeldBy, p
  <2>11. Map!Forget(p)
    BY <1>2, <2>9, Mapped DEF Map!Forget, m
  <2>12. p \in DOMAIN [q \in Held |-> ItemsOf(q)]
    BY <2>10, Mapped DEF m
  <2> QED BY <2>11, <2>12 DEF Map!Next
<1> QED BY <1>2, <1>4, <1>5

LEMMA StepRefines ==
  ASSUME IInv, IInv', [Next]_vars
  PROVE  [Map!Next]_<<c.items, [p \in Held |-> ItemsOf(p)]>>
<1>0. IsUnique(koses) /\ IsUnique(koses')
  BY DEF IInv, UniqueKoses, IsUnique
<1>1. CASE PutFrame
  BY <1>1, PutFrameRefines
<1>2. CASE AddItem
  BY <1>2, AddItemRefines
<1>3. CASE RmExpired
  BY <1>3, RmExpiredRefines
<1>4. CASE AddHeader \/ Tick
  <2>1. /\ koses' \in Seq(LoggerKosaPackets) /\ koses \in Seq(LoggerKosaPackets)
        /\ Len(koses') = Len(koses)
        /\ \A k \in 1 .. Len(koses) :
             koses'[k].id = koses[k].id /\ koses'[k].items = koses[k].items
    BY <1>4, AddHeaderProperties, TickProperties DEF IInv, TypeOK
  <2>2. c' = c
    BY <1>4 DEF AddHeader, Tick
  <2>3. DOMAIN koses = 1 .. Len(koses) /\ DOMAIN koses' = DOMAIN koses
    BY <2>1
  <2>4. MapOf(koses') = MapOf(koses)
    BY <1>0, <2>1, <2>3, SameMap
  <2> QED BY <2>2, <2>4, StutterStep
<1>5. CASE koses' = koses /\ c' = c
  BY <1>5, StutterStep
<1>6. ASSUME NEW batch, Put(batch)
      PROVE  koses' = koses /\ c' = c
  BY <1>6 DEF Put
<1>7. BeginLoop("rmExpired") \/ EndLoop("rmExpired") \/ UNCHANGED vars
        => koses' = koses /\ c' = c
  BY DEF BeginLoop, EndLoop, vars
<1> QED
  BY <1>1, <1>2, <1>3, <1>4, <1>5, <1>6, <1>7 DEF Next, PutStep, RmExpiredStep

LEMMA InitRefines == Init => Map!Init
<1> SUFFICES ASSUME Init
             PROVE  Map!Init
  OBVIOUS
<1>1. c.items = <<>> /\ Held = {}
  BY DEF Init, NewCollection, Held
<1> QED BY <1>1 DEF Map!Init

(* The vector of entries, with its lookups by wildcard year, reallocations *)
(* and erasures, implements the map from plumes to items: every item that  *)
(* put() decodes is filed, once, in order, under its own plume, or refused *)
(* for its wildcard year, and a plume is forgotten whole.                  *)
THEOREM CollectorImplementsMap == Spec => MapSpec
<1>1. IInv /\ IInv' /\ [Next]_vars => [Map!Next]_<<c.items, [p \in Held |-> ItemsOf(p)]>>
  BY StepRefines
<1> QED
  BY <1>1, InitRefines, IInvCorrect, PTL DEF Spec, MapSpec, Map!Spec

-----------------------------------------------------------------------------
(* The program: the invariant.                                             *)

(* No put() runs.                                                          *)
Quiet == values = <<>> /\ c.items = <<>> /\ mhs = <<>>

(* Which loops run before saved is TRUE and which after.                   *)
LoopsAlternate ==
  /\ loop # "none" => Quiet
  /\ loop = "remove" => saved
  /\ loop \in {"insert", "rmExpired"} => ~saved

IsSaved(kosa) == Completed(kosa) => Row(kosa) \in clauses

(* The loop of loggerSQLInsertPackets() has returned what it has passed.   *)
PassedIsSaved ==
  loop = "insert" => \A k \in DOMAIN koses : k < it => IsSaved(koses[k])

(* Until the removal has ended nothing is in memory that completes.        *)
AllIsSaved ==
  saved => Quiet /\ \A k \in DOMAIN koses : IsSaved(koses[k])

SaveInv == LoopsAlternate /\ PassedIsSaved /\ AllIsSaved
GatewayInv == GatewayTypeOK /\ UniqueKoses /\ ItemsAgree

-----------------------------------------------------------------------------
(* The types, and one entry per plume.                                     *)

(* A call of the parser begins or ends.                                    *)
LEMMA LoopKeepsIInv ==
  ASSUME IInv,
         NEW name \in {"rmExpired", "insert", "remove"},
         BeginLoop(name) \/ EndLoop(name)
  PROVE  IInv'
<1>1. koses' = koses
  BY DEF BeginLoop, EndLoop
<1>2. UniqueKoses' /\ ItemsAgree'
  BY <1>1 DEF IInv, UniqueKoses, ItemsAgree
<1>3. TypeOK'
  BY DEF IInv, TypeOK, BeginLoop, EndLoop
<1> QED BY <1>2, <1>3 DEF IInv

(* So does put(), with whatever frames.                                    *)
LEMMA PutKeepsIInv ==
  ASSUME IInv, NEW batch \in Seq(Frames), Put(batch)
  PROVE  IInv'
<1>1. koses' = koses
  BY DEF Put
<1>2. UniqueKoses' /\ ItemsAgree'
  BY <1>1 DEF IInv, UniqueKoses, ItemsAgree
<1>3. TypeOK'
  BY DEF IInv, TypeOK, Put
<1> QED BY <1>2, <1>3 DEF IInv

LEMMA EraseKeepsIInv ==
  ASSUME IInv, it \in 1 .. Len(koses), NEW condition \in BOOLEAN, EraseIf(condition),
         loop # "none"
  PROVE  IInv'
<1>1. UniqueKoses' /\ ItemsAgree'
  BY ErasedItems DEF IInv
<1>2. koses' \in Seq(LoggerKosaPackets) /\ it' \in Nat
  BY EraseIfProperties DEF IInv
<1>3. it' # 0
  BY DEF EraseIf, IInv, TypeOK
<1>4. TypeOK'
  BY <1>2, <1>3 DEF IInv, TypeOK, EraseIf
<1> QED BY <1>1, <1>4 DEF IInv

(* A step of put() or rmExpired(), or of the clock.                        *)
LEMMA CollectorKeepsIInv ==
  ASSUME IInv, PutStep \/ RmExpiredStep \/ Tick
  PROVE  IInv'
BY IInvStep DEF Next

(* One iteration of loggerSQLInsertPackets().                              *)
LEMMA InsertKeepsIInv ==
  ASSUME IInv, clauses \subseteq Rows, insertPackets
  PROVE  IInv' /\ clauses' \subseteq Rows
<1>1. koses' = koses
  BY DEF insertPackets
<1>2. UniqueKoses' /\ ItemsAgree'
  BY <1>1 DEF IInv, UniqueKoses, ItemsAgree
<1>3. it \in 1 .. Len(koses)
  BY DEF insertPackets, IInv, TypeOK
<1>4. koses[it] \in LoggerKosaPackets
  BY <1>3 DEF IInv, TypeOK
<1>5. Row(koses[it]) \in Rows
  BY <1>4 DEF LoggerKosaPackets, Row, Rows
<1>6. clauses' \subseteq Rows
  BY <1>5 DEF insertPackets
<1>7. TypeOK'
  BY <1>3 DEF IInv, TypeOK, insertPackets
<1> QED BY <1>2, <1>6, <1>7 DEF IInv

(* One iteration of loggerRemoveCompletedOrExpired().                      *)
LEMMA RemoveKeepsIInv ==
  ASSUME IInv, removeCompletedOrExpired
  PROVE  IInv'
<1> DEFINE condition == Ready(koses[it])
<1>1. condition \in BOOLEAN
  BY DEF Ready, Completed, Expired
<1>2. it \in 1 .. Len(koses) /\ EraseIf(condition) /\ loop # "none"
  BY DEF removeCompletedOrExpired, IInv, TypeOK
<1> HIDE DEF condition
<1> QED BY <1>1, <1>2, EraseKeepsIInv

LEMMA DoneKeepsIInv ==
  ASSUME IInv, doneLoggerParser
  PROVE  IInv'
BY DEF IInv, doneLoggerParser, TypeOK, UniqueKoses, ItemsAgree

(* What the radio holds stays sequences of frames.                         *)
LEMMA CutIsFrames ==
  ASSUME NEW s \in Seq(Frames), NEW i \in Nat, NEW j \in Nat, i >= 1, j <= Len(s)
  PROVE  SubSeq(s, i, j) \in Seq(Frames)
<1>1. \A n \in i .. j : s[n] \in Frames
  BY ElementOfSeq
<1> QED BY <1>1, SubSeqProperties

LEMMA ReceiveKeepsType ==
  ASSUME GatewayTypeOK, IInv,
         NEW a \in DOMAIN air, NEW i \in DOMAIN air[a], NEW n \in 1 .. MaxBatch,
         i + n - 1 <= Len(air[a]), Receive(a, i, i + n - 1)
  PROVE  IInv' /\ clauses' \subseteq Rows /\ saved' \in BOOLEAN
<1>1. air[a] \in Seq(Frames)
  BY DEF GatewayTypeOK
<1>2. i \in Nat /\ i >= 1 /\ i + n - 1 \in Nat
  BY <1>1, FlagsAssumption
<1>3. SubSeq(air[a], i, i + n - 1) \in Seq(Frames)
  BY <1>1, <1>2, CutIsFrames
<1>4. IInv'
  BY <1>3, PutKeepsIInv DEF Receive, loggerParsePackets
<1> QED BY <1>4 DEF GatewayTypeOK, Receive, loggerParsePackets

LEMMA DeliverKeepsAir ==
  ASSUME GatewayTypeOK,
         NEW a \in DOMAIN air, NEW i \in DOMAIN air[a], NEW n \in 1 .. MaxBatch,
         i + n - 1 <= Len(air[a]), Deliver(a, i, i + n - 1)
  PROVE  air' \in [DOMAIN Sends -> Seq(Frames)]
<1> DEFINE s == air[a]
           j == i + n - 1
           rest == SubSeq(s, 1, i - 1) \o SubSeq(s, j + 1, Len(s))
<1>1. s \in Seq(Frames) /\ Len(s) \in Nat
  BY DEF GatewayTypeOK
<1>2. i \in Nat /\ i >= 1 /\ j \in Nat /\ j <= Len(s)
  BY <1>1, FlagsAssumption
<1>3. SubSeq(s, 1, i - 1) \in Seq(Frames)
  <2>1. i - 1 \in Nat /\ i - 1 <= Len(s)
    BY <1>1, <1>2
  <2> QED BY <1>1, <2>1, CutIsFrames
<1>4. SubSeq(s, j + 1, Len(s)) \in Seq(Frames)
  <2>1. j + 1 \in Nat /\ j + 1 >= 1
    BY <1>2
  <2> QED BY <1>1, <2>1, CutIsFrames
<1>5. rest \in Seq(Frames)
  BY <1>3, <1>4, ConcatProperties
<1>6. air' = [air EXCEPT ![a] = rest]
  BY DEF Deliver
<1> HIDE DEF rest
<1> QED BY <1>5, <1>6 DEF GatewayTypeOK

LEMMA RadioStep ==
  ASSUME GatewayInv, Radio
  PROVE  GatewayInv'
<1> USE DEF GatewayInv
<1>0. IInv
  BY DEF GatewayTypeOK, IInv
<1>1. ASSUME NEW a \in DOMAIN air, Lose(a)
      PROVE  GatewayInv'
  <2>1. air[a] \in Seq(Frames) /\ air[a] # <<>>
    BY <1>1 DEF GatewayTypeOK, Lose
  <2>2. Tail(air[a]) \in Seq(Frames)
    BY <2>1
  <2>3. air' \in [DOMAIN Sends -> Seq(Frames)]
    BY <1>1, <2>2 DEF GatewayTypeOK, Lose
  <2> QED
    BY <1>1, <2>3 DEF GatewayTypeOK, Lose, parseVars, vars, TypeOK, UniqueKoses, ItemsAgree
<1>2. ASSUME NEW a \in DOMAIN air, NEW i \in DOMAIN air[a], NEW n \in 1 .. MaxBatch,
             i + n - 1 <= Len(air[a]),
             Deliver(a, i, i + n - 1) \/ Repeat(a, i, i + n - 1)
      PROVE  GatewayInv'
  <2>1. Receive(a, i, i + n - 1)
    BY <1>2 DEF Deliver, Repeat
  <2>2. IInv' /\ clauses' \subseteq Rows /\ saved' \in BOOLEAN
    BY <1>0, <1>2, <2>1, ReceiveKeepsType
  <2>3. CASE Deliver(a, i, i + n - 1)
    <3>1. air' \in [DOMAIN Sends -> Seq(Frames)]
      BY <1>2, <2>3, DeliverKeepsAir
    <3> QED BY <2>2, <2>3, <3>1 DEF GatewayTypeOK, IInv, Deliver
  <2>4. CASE Repeat(a, i, i + n - 1)
    <3>1. repeats' \in 0 .. MaxRepeats
      BY <2>4, FlagsAssumption DEF GatewayTypeOK, Repeat
    <3> QED BY <2>2, <2>4, <3>1 DEF GatewayTypeOK, IInv, Repeat
  <2> QED BY <1>2, <2>3, <2>4
<1> QED BY <1>1, <1>2 DEF Radio

LEMMA GatewayInvStep == GatewayInv /\ [GatewayNext]_gatewayVars => GatewayInv'
<1> SUFFICES ASSUME GatewayInv, [GatewayNext]_gatewayVars
             PROVE  GatewayInv'
  OBVIOUS
<1> USE DEF GatewayInv
<1>0. IInv /\ clauses \subseteq Rows
  BY DEF GatewayTypeOK, IInv
<1>1. CASE Radio
  BY <1>1, RadioStep
<1>2. CASE Call
  <2>1. IInv' /\ clauses' \subseteq Rows
    BY <1>0, <1>2, CollectorKeepsIInv, InsertKeepsIInv, RemoveKeepsIInv
    DEF Call, CallStep, removeCompletedOrExpired
  <2> QED BY <1>2, <2>1 DEF Call, GatewayTypeOK, IInv
<1>3. CASE SaveReady \/ EndSave \/ RemoveReady \/ EndRemove
  <2>1. /\ \E name \in {"insert", "remove"} : BeginLoop(name) \/ EndLoop(name)
        /\ UNCHANGED <<clauses, air, repeats>>
        /\ saved' \in BOOLEAN
    BY <1>3 DEF SaveReady, EndSave, RemoveReady, EndRemove, beginInsertPackets,
         endInsertPackets, beginRemoveCompletedOrExpired, endRemoveCompletedOrExpired,
         GatewayTypeOK
  <2>2. IInv'
    BY <1>0, <2>1, LoopKeepsIInv
  <2> QED BY <2>1, <2>2 DEF GatewayTypeOK, IInv
<1>4. CASE Finish
  <2>1. BeginLoop("rmExpired") \/ doneLoggerParser
    BY <1>4 DEF Finish, flushLoggerParser
  <2>2. IInv'
    BY <1>0, <2>1, LoopKeepsIInv, DoneKeepsIInv
  <2>3. UNCHANGED <<clauses, air, repeats, saved>>
    BY <1>4 DEF Finish, flushLoggerParser, doneLoggerParser
  <2> QED BY <2>2, <2>3 DEF GatewayTypeOK, IInv
<1>5. CASE Clock
  <2>1. IInv'
    BY <1>0, <1>5, CollectorKeepsIInv DEF Clock
  <2> QED BY <1>5, <2>1 DEF Clock, GatewayTypeOK, IInv
<1>6. CASE UNCHANGED gatewayVars
  BY <1>6 DEF gatewayVars, parseVars, vars, GatewayTypeOK, TypeOK, UniqueKoses, ItemsAgree
<1> QED BY <1>1, <1>2, <1>3, <1>4, <1>5, <1>6 DEF GatewayNext

LEMMA GatewayInvInit == GatewayInit => GatewayInv
<1> SUFFICES ASSUME GatewayInit
             PROVE  GatewayInv
  OBVIOUS
<1>1. TypeOK /\ UniqueKoses /\ ItemsAgree
  BY DEF GatewayInit, initLoggerParser, Init, TypeOK, NewCollection, UniqueKoses, ItemsAgree
<1>2. air \in [DOMAIN Sends -> Seq(Frames)]
  BY SendsAssumption DEF GatewayInit
<1>3. clauses \subseteq Rows /\ saved \in BOOLEAN
  BY DEF GatewayInit, initLoggerParser
<1>4. repeats \in 0 .. MaxRepeats
  BY FlagsAssumption DEF GatewayInit
<1> QED
  BY <1>1, <1>2, <1>3, <1>4 DEF GatewayInv, GatewayTypeOK

(* Whatever is sent, lost, repeated and reordered, the collection, what is *)
(* returned for the database and the radio keep their types.               *)
THEOREM GatewayTypeCorrect == GatewaySpec => []GatewayTypeOK
<1>1. GatewayInv => GatewayTypeOK
  BY DEF GatewayInv
<1> QED BY <1>1, GatewayInvInit, GatewayInvStep, PTL DEF GatewaySpec

-----------------------------------------------------------------------------
(* What is completed is saved before it is removed, when no frame is given *)
(* to the parser between the two calls.                                    *)

(* The clock changes neither what completes nor its row.                   *)
LEMMA TickKeepsSaved ==
  ASSUME TypeOK, Tick, UNCHANGED clauses
  PROVE  DOMAIN koses' = DOMAIN koses
         /\ \A k \in DOMAIN koses : IsSaved(koses[k]) => IsSaved(koses'[k])
<1>1. DOMAIN koses' = DOMAIN koses
  BY DEF Tick
<1>2. ASSUME NEW k \in DOMAIN koses, IsSaved(koses[k])
      PROVE  IsSaved(koses'[k])
  <2>1. koses[k] \in LoggerKosaPackets
    BY DEF TypeOK
  <2>2. PICK age : koses'[k] = [koses[k] EXCEPT !.age = age]
    BY DEF Tick
  <2>3. /\ koses'[k].id = koses[k].id
        /\ koses'[k].items = koses[k].items
        /\ koses'[k].expectedPackets = koses[k].expectedPackets
    BY <2>1, <2>2 DEF LoggerKosaPackets
  <2>4. Row(koses'[k]) = Row(koses[k])
    BY <2>3 DEF Row
  <2>5. Completed(koses'[k]) <=> Completed(koses[k])
    BY <2>3 DEF Completed
  <2> QED BY <1>2, <2>4, <2>5 DEF IsSaved
<1> QED BY <1>1, <1>2

LEMMA EraseKeepsSaved ==
  ASSUME TypeOK, it \in 1 .. Len(koses), NEW condition \in BOOLEAN, EraseIf(condition),
         \A k \in DOMAIN koses : IsSaved(koses[k]), UNCHANGED clauses
  PROVE  \A k \in DOMAIN koses' : IsSaved(koses'[k])
<1>1. koses' \in Seq(LoggerKosaPackets) /\ koses \in Seq(LoggerKosaPackets) /\ it \in Nat
  BY EraseIfProperties DEF TypeOK
<1> SUFFICES ASSUME NEW k \in DOMAIN koses'
             PROVE  IsSaved(koses'[k])
  OBVIOUS
<1>2. \E j \in DOMAIN koses : koses'[k] = koses[j]
  <2>1. CASE condition
    <3>1. Len(koses') = Len(koses) - 1
      BY <2>1, EraseIfProperties
    <3>2. k \in 1 .. Len(koses) - 1
      BY <1>1, <3>1
    <3>3. koses'[k] = IF k < it THEN koses[k] ELSE koses[k + 1]
      BY <2>1, <3>2, EraseIfProperties
    <3>4. k \in DOMAIN koses /\ k + 1 \in DOMAIN koses
      BY <1>1, <3>2
    <3> QED BY <3>3, <3>4
  <2>2. CASE ~condition
    BY <2>2 DEF EraseIf
  <2> QED BY <2>1, <2>2
<1>3. \A kosa : IsSaved(kosa)' <=> IsSaved(kosa)
  BY DEF IsSaved, Completed, Row
<1> QED BY <1>2, <1>3

LEMMA SaveInvCall ==
  ASSUME GatewayInv, SaveInv, Call
  PROVE  SaveInv'
<1> USE DEF SaveInv
<1>0. IInv /\ koses \in Seq(LoggerKosaPackets) /\ it \in Nat
  BY DEF GatewayInv, GatewayTypeOK, IInv, TypeOK
<1>1. CASE PutStep
  <2>1. ~Quiet /\ loop' = loop
    BY <1>1 DEF PutStep, PutFrame, AddItem, AddHeader, Quiet
  <2>2. loop = "none" /\ ~saved /\ saved' = saved
    BY <2>1 DEF LoopsAlternate, AllIsSaved, Call
  <2> QED BY <2>1, <2>2 DEF LoopsAlternate, PassedIsSaved, AllIsSaved
<1>2. CASE RmExpiredStep
  <2>1. loop = "rmExpired" /\ loop' \in {"rmExpired", "none"} /\ ~saved /\ ~saved'
    BY <1>2 DEF RmExpiredStep, RmExpired, EraseIf, EndLoop, LoopsAlternate, Call
  <2>2. Quiet /\ Quiet'
    BY <1>2, <2>1 DEF RmExpiredStep, RmExpired, EraseIf, EndLoop, LoopsAlternate, Quiet
  <2> QED BY <2>1, <2>2 DEF LoopsAlternate, PassedIsSaved, AllIsSaved
<1>3. CASE insertPackets
  <2>1. loop = "insert" /\ loop' = "insert" /\ ~saved /\ ~saved' /\ koses' = koses
    BY <1>3 DEF insertPackets, LoopsAlternate, Call
  <2>2. Quiet /\ Quiet'
    BY <1>3, <2>1 DEF insertPackets, LoopsAlternate, Quiet
  <2>3. ASSUME NEW k \in DOMAIN koses, k < it'
        PROVE  IsSaved(koses[k])'
    <3>1. it' = it + 1 /\ clauses \subseteq clauses'
      BY <1>3 DEF insertPackets
    <3>2. k \in Nat /\ (k < it \/ k = it)
      BY <1>0, <2>3, <3>1
    <3>3. CASE k < it
      <4>1. IsSaved(koses[k])
        BY <2>1, <3>3 DEF PassedIsSaved
      <4> QED BY <2>1, <3>1, <4>1 DEF IsSaved, Completed, Row
    <3>4. CASE k = it
      <4>1. Completed(koses[k]) => Row(koses[k]) \in clauses'
        BY <1>3, <3>4 DEF insertPackets, Ready
      <4> QED BY <2>1, <4>1 DEF IsSaved, Completed, Row
    <3> QED BY <3>2, <3>3, <3>4
  <2> QED BY <2>1, <2>2, <2>3 DEF LoopsAlternate, PassedIsSaved, AllIsSaved
<1>4. CASE removeCompletedOrExpired
  <2> DEFINE condition == Ready(koses[it])
  <2>1. condition \in BOOLEAN
    BY DEF Ready, Completed, Expired
  <2>2. loop = "remove" /\ loop' = "remove" /\ saved /\ saved'
    BY <1>4 DEF removeCompletedOrExpired, EraseIf, LoopsAlternate, Call
  <2>3. Quiet /\ Quiet'
    BY <1>4, <2>2 DEF removeCompletedOrExpired, EraseIf, LoopsAlternate, Quiet
  <2>4. it \in 1 .. Len(koses) /\ EraseIf(condition) /\ UNCHANGED clauses
    BY <1>0, <1>4 DEF removeCompletedOrExpired, IInv, TypeOK
  <2>5. \A k \in DOMAIN koses : IsSaved(koses[k])
    BY <2>2 DEF AllIsSaved
  <2> HIDE DEF condition
  <2>6. \A k \in DOMAIN koses' : IsSaved(koses'[k])
    BY <1>0, <2>1, <2>4, <2>5, EraseKeepsSaved DEF IInv
  <2>7. \A k \in DOMAIN koses' : IsSaved(koses[k])'
    BY <2>4, <2>6 DEF IsSaved, Completed, Row
  <2> QED BY <2>2, <2>3, <2>7 DEF LoopsAlternate, PassedIsSaved, AllIsSaved
<1> QED BY <1>1, <1>2, <1>3, <1>4 DEF Call, CallStep

LEMMA SaveInvStep ==
  ASSUME GatewayInv, SaveInv, ~OtherThread, [GatewayNext]_gatewayVars
  PROVE  SaveInv'
<1> USE DEF SaveInv
<1>0. TypeOK
  BY DEF GatewayInv, GatewayTypeOK
<1>1. CASE Radio
  <2>1. CASE UNCHANGED <<parseVars, saved>>
    BY <2>1 DEF parseVars, vars, LoopsAlternate, PassedIsSaved, AllIsSaved,
         Quiet, IsSaved, Completed, Row
  <2>2. CASE ~saved /\ loop = "none" /\ ~saved' /\ loop' = "none"
    BY <2>2 DEF LoopsAlternate, PassedIsSaved, AllIsSaved
  <2>3. ASSUME NEW a, NEW i, NEW j, Receive(a, i, j)
        PROVE  ~saved /\ loop = "none" /\ ~saved' /\ loop' = "none"
    BY <2>3 DEF Receive, loggerParsePackets, Put, Idle
  <2> QED BY <1>1, <2>1, <2>2, <2>3 DEF Radio, Lose, Deliver, Repeat
<1>2. CASE Call
  BY <1>2, SaveInvCall
<1>3. CASE SaveReady \/ RemoveReady
  <2>1. Quiet /\ loop = "none" /\ UNCHANGED <<koses, values, c, mhs, clauses, saved>>
    BY <1>3 DEF SaveReady, RemoveReady, beginInsertPackets,
         beginRemoveCompletedOrExpired, BeginLoop, Idle, Quiet
  <2>2. Quiet'
    BY <2>1 DEF Quiet
  <2>3. AllIsSaved'
    BY <2>1, <2>2 DEF AllIsSaved, IsSaved, Completed, Row
  <2>4. \/ loop' = "insert" /\ ~saved /\ it' = 1
        \/ loop' = "remove" /\ saved
    BY <1>3 DEF SaveReady, RemoveReady, beginInsertPackets,
         beginRemoveCompletedOrExpired, BeginLoop
  <2>5. LoopsAlternate'
    BY <2>1, <2>2, <2>4 DEF LoopsAlternate
  <2>6. PassedIsSaved'
    BY <1>0, <2>1, <2>4 DEF PassedIsSaved, TypeOK
  <2> QED BY <2>3, <2>5, <2>6
<1>4. CASE EndSave
  <2>1. /\ loop = "insert" /\ loop' = "none" /\ saved'
        /\ it > Len(koses)
        /\ UNCHANGED <<koses, values, c, mhs, clauses>>
    BY <1>4 DEF EndSave, endInsertPackets, EndLoop
  <2>2. Quiet'
    BY <2>1 DEF LoopsAlternate, Quiet
  <2>3. \A k \in DOMAIN koses : IsSaved(koses[k])
    <3>1. \A k \in DOMAIN koses : k < it
      BY <1>0, <2>1 DEF TypeOK
    <3> QED BY <2>1, <3>1 DEF PassedIsSaved
  <2>4. AllIsSaved'
    BY <2>1, <2>2, <2>3 DEF AllIsSaved, IsSaved, Completed, Row
  <2> QED BY <2>1, <2>2, <2>4 DEF LoopsAlternate, PassedIsSaved
<1>5. CASE EndRemove
  BY <1>5 DEF EndRemove, endRemoveCompletedOrExpired, EndLoop, LoopsAlternate,
       PassedIsSaved, AllIsSaved
<1>6. CASE Finish
  <2>1. Quiet /\ loop' \in {"rmExpired", "done"} /\ ~saved /\ ~saved' /\ Quiet'
    BY <1>6 DEF Finish, flushLoggerParser, doneLoggerParser, BeginLoop, Idle, Quiet
  <2> QED BY <2>1 DEF LoopsAlternate, PassedIsSaved, AllIsSaved
<1>7. CASE Clock
  <2>1. /\ Tick
        /\ UNCHANGED <<clauses, saved, loop, it, values, c, mhs>>
    BY <1>7 DEF Clock, Tick
  <2>2. /\ DOMAIN koses' = DOMAIN koses
        /\ \A k \in DOMAIN koses : IsSaved(koses[k]) => IsSaved(koses'[k])
    BY <1>0, <2>1, TickKeepsSaved
  <2>3. \A k \in DOMAIN koses : IsSaved(koses[k]) => IsSaved(koses[k])'
    BY <2>1, <2>2 DEF IsSaved, Completed, Row
  <2>4. LoopsAlternate'
    BY <2>1 DEF LoopsAlternate, Quiet
  <2>5. PassedIsSaved'
    BY <2>1, <2>2, <2>3 DEF PassedIsSaved
  <2>6. AllIsSaved'
    BY <2>1, <2>2, <2>3 DEF AllIsSaved, Quiet
  <2> QED BY <2>4, <2>5, <2>6
<1>8. CASE UNCHANGED gatewayVars
  BY <1>8 DEF gatewayVars, parseVars, vars, LoopsAlternate, PassedIsSaved, AllIsSaved,
       Quiet, IsSaved, Completed, Row
<1> QED BY <1>1, <1>2, <1>3, <1>4, <1>5, <1>6, <1>7, <1>8 DEF GatewayNext

(* loggerRemoveCompletedOrExpired() removes a completed entry only after   *)
(* loggerSQLInsertPackets() has returned what it holds, for every radio    *)
(* and every time that passes between the calls, as long as no frame is    *)
(* given to the parser between the two.                                    *)
THEOREM SavedBeforeRemoved ==
  ASSUME ~OtherThread
  PROVE  GatewaySpec => CompletedIsSavedFirst
<1>1. GatewayInit => SaveInv
  BY DEF GatewayInit, initLoggerParser, Init, SaveInv, LoopsAlternate, PassedIsSaved,
       AllIsSaved
<1>2. GatewayInv /\ SaveInv /\ [GatewayNext]_gatewayVars => SaveInv'
  BY SaveInvStep
<1>3. GatewayInv /\ SaveInv =>
        (loop = "remove" => \A k \in DOMAIN koses :
           Completed(koses[k]) /\ Leaves(k) => Row(koses[k]) \in clauses)
  BY DEF SaveInv, LoopsAlternate, AllIsSaved, IsSaved
<1> QED
  BY <1>1, <1>2, <1>3, GatewayInvInit, GatewayInvStep, PTL
  DEF GatewaySpec, CompletedIsSavedFirst

-----------------------------------------------------------------------------
(* The way of a frame: from the air to the parser (values), to the         *)
(* temporary collection and to an entry.                                   *)

(* No measurement is sent without packet headers: LoRaWAN frames have them.*)
NoRaw == \A f \in Sent : f.typ # "RAW"

(* A serial number ("kosa") is used in one year only.                      *)
OneYear == \A f, g \in Sent : f.kosa = g.kosa => PlumeOf(f) = PlumeOf(g)

(* The loader gives a logger's next frames the base measurement of its own *)
(* plume.                                                                  *)
LoadIsOwn ==
  \A f \in Sent : f.typ \in {"DELTA_2", "HUFF_2"} /\ f.addr \in DOMAIN Load
                    => PlumeOf(Load[f.addr]) = PlumeOf(f)

FrameOf(item) == item.packet[1]

(* Frames in the temporary collection.                                     *)
Collected == {FrameOf(item) : item \in ToSet(c.items)}

(* What no put() changes, but for the entry it files an item in.           *)
SameEntry(kosa, other) ==
  /\ kosa.id = other.id
  /\ kosa.items = other.items
  /\ kosa.expectedPackets = other.expectedPackets

LoopIsQuiet == loop # "none" => Quiet

(* No frame moves; an entry may go.                                        *)
NoneMoves ==
  /\ UNCHANGED <<air, values, c>>
  /\ Len(koses') <= Len(koses)
  /\ Len(koses') < Len(koses) => Quiet
  /\ \A k \in DOMAIN koses' : \E j \in DOMAIN koses : SameEntry(koses'[k], koses[j])

(* Frames leave the air, lost or received.                                 *)
FramesLost ==
  /\ \E a \in DOMAIN air : Lose(a)
  /\ UNCHANGED <<values, c, koses>>

FramesReceived ==
  /\ Quiet
  /\ \E a \in DOMAIN air : \E i \in DOMAIN air[a] : \E n \in 1 .. MaxBatch :
       /\ i + n - 1 <= Len(air[a])
       /\ i = 1 \/ Reorders
       /\ values' = SubSeq(air[a], i, i + n - 1)
       /\ \/ air' = [air EXCEPT ![a] = SubSeq(@, 1, i - 1) \o SubSeq(@, i + n, Len(@))]
          \/ air' = air /\ repeats < MaxRepeats
  /\ UNCHANGED <<c, koses>>

FrameDecoded == PutFrame /\ UNCHANGED <<air, koses>>

ItemFiled == AddItem /\ UNCHANGED <<air, values>>

-----------------------------------------------------------------------------
LEMMA LoopIsQuietInit == GatewayInit => LoopIsQuiet
BY DEF GatewayInit, initLoggerParser, Init, LoopIsQuiet

LEMMA LoopIsQuietStep == LoopIsQuiet /\ [GatewayNext]_gatewayVars => LoopIsQuiet'
<1> SUFFICES ASSUME LoopIsQuiet, [GatewayNext]_gatewayVars
             PROVE  LoopIsQuiet'
  OBVIOUS
<1> USE DEF LoopIsQuiet
<1>1. CASE Radio
  <2>1. CASE \E a \in DOMAIN air : Lose(a)
    BY <2>1 DEF Lose, parseVars, vars, Quiet
  <2>2. ASSUME NEW a, NEW i, NEW j, Receive(a, i, j)
        PROVE  LoopIsQuiet'
    BY <2>2 DEF Receive, loggerParsePackets, Put, Idle
  <2> QED BY <1>1, <2>1, <2>2 DEF Radio, Deliver, Repeat
<1>2. CASE Call
  <2>1. CASE PutStep
    BY <2>1 DEF PutStep, PutFrame, AddItem, AddHeader, Quiet
  <2>2. CASE RmExpiredStep \/ insertPackets \/ removeCompletedOrExpired
    BY <2>2 DEF RmExpiredStep, RmExpired, EraseIf, EndLoop, insertPackets,
         removeCompletedOrExpired, Quiet
  <2> QED BY <1>2, <2>1, <2>2 DEF Call, CallStep
<1>3. CASE SaveReady \/ EndSave \/ RemoveReady \/ EndRemove
  BY <1>3 DEF SaveReady, EndSave, RemoveReady, EndRemove, beginInsertPackets,
       endInsertPackets, beginRemoveCompletedOrExpired, endRemoveCompletedOrExpired,
       BeginLoop, EndLoop, Idle, Quiet
<1>4. CASE Finish
  BY <1>4 DEF Finish, flushLoggerParser, doneLoggerParser, BeginLoop, Idle, Quiet
<1>5. CASE Clock
  BY <1>5 DEF Clock, Tick, Quiet
<1>6. CASE UNCHANGED gatewayVars
  BY <1>6 DEF gatewayVars, parseVars, vars, Quiet
<1> QED BY <1>1, <1>2, <1>3, <1>4, <1>5, <1>6 DEF GatewayNext

(* A step that keeps the entries, each by itself.                          *)
LEMMA EntriesKept ==
  ASSUME koses' = koses, UNCHANGED <<air, values, c>>, koses \in Seq(LoggerKosaPackets)
  PROVE  NoneMoves
BY DEF NoneMoves, SameEntry

(* An iteration of one of the two loops that erase.                        *)
LEMMA EraseMovesNone ==
  ASSUME TypeOK, LoopIsQuiet, it \in 1 .. Len(koses), loop # "none",
         NEW condition \in BOOLEAN, EraseIf(condition), UNCHANGED air
  PROVE  NoneMoves
<1>1. koses \in Seq(LoggerKosaPackets) /\ koses' \in Seq(LoggerKosaPackets) /\ it \in Nat
  BY EraseIfProperties DEF TypeOK
<1>2. Quiet /\ UNCHANGED <<air, values, c>>
  BY DEF LoopIsQuiet, EraseIf
<1>3. CASE ~condition
  <2>1. koses' = koses
    BY <1>3, EraseIfProperties
  <2> QED BY <1>1, <1>2, <2>1, EntriesKept
<1>4. CASE condition
  <2>1. Len(koses') = Len(koses) - 1
    BY <1>4, EraseIfProperties
  <2>2. ASSUME NEW k \in DOMAIN koses'
        PROVE  \E j \in DOMAIN koses : koses'[k] = koses[j]
    <3>1. k \in 1 .. Len(koses) - 1
      BY <1>1, <2>1
    <3>2. koses'[k] = IF k < it THEN koses[k] ELSE koses[k + 1]
      BY <1>4, <3>1, EraseIfProperties
    <3>3. k \in DOMAIN koses /\ k + 1 \in DOMAIN koses
      BY <1>1, <3>1
    <3> QED BY <3>2, <3>3
  <2> QED BY <1>1, <1>2, <2>1, <2>2 DEF NoneMoves, SameEntry
<1> QED BY <1>3, <1>4

(* What a step does with the frames.                                       *)
LEMMA StepMoves ==
  ASSUME GatewayInv, LoopIsQuiet, [GatewayNext]_gatewayVars
  PROVE  NoneMoves \/ FramesLost \/ FramesReceived \/ FrameDecoded \/ ItemFiled
<1>0. TypeOK /\ koses \in Seq(LoggerKosaPackets) /\ Len(koses) \in Nat
  BY DEF GatewayInv, GatewayTypeOK, TypeOK
<1>1. CASE Radio
  <2>1. CASE \E a \in DOMAIN air : Lose(a)
    BY <2>1 DEF FramesLost, Lose, parseVars, vars
  <2>2. ASSUME NEW a \in DOMAIN air, NEW i \in DOMAIN air[a], NEW n \in 1 .. MaxBatch,
               i + n - 1 <= Len(air[a]),
               Deliver(a, i, i + n - 1) \/ Repeat(a, i, i + n - 1)
        PROVE  FramesReceived
    <3>1. Receive(a, i, i + n - 1)
      BY <2>2 DEF Deliver, Repeat
    <3>2. /\ Quiet /\ values' = SubSeq(air[a], i, i + n - 1)
          /\ i = 1 \/ Reorders
          /\ UNCHANGED <<c, koses>>
      BY <3>1 DEF Receive, loggerParsePackets, Put, Idle, Quiet
    <3>3. i \in Nat /\ n \in Nat
      BY FlagsAssumption DEF GatewayInv, GatewayTypeOK
    <3>4. (i + n - 1) + 1 = i + n
      BY <3>3
    <3>5. \/ air' = [air EXCEPT ![a] = SubSeq(@, 1, i - 1) \o SubSeq(@, i + n, Len(@))]
          \/ air' = air /\ repeats < MaxRepeats
      BY <2>2, <3>4 DEF Deliver, Repeat
    <3> QED BY <2>2, <3>2, <3>5 DEF FramesReceived
  <2> QED BY <1>1, <2>1, <2>2 DEF Radio
<1>2. CASE Call
  <2>1. CASE PutFrame \/ AddItem
    BY <1>2, <2>1 DEF Call, FrameDecoded, ItemFiled, PutFrame, AddItem
  <2>2. CASE AddHeader
    <3>1. /\ koses' \in Seq(LoggerKosaPackets) /\ Len(koses') = Len(koses)
          /\ \A k \in 1 .. Len(koses) : SameEntry(koses'[k], koses[k])
      BY <1>0, <2>2, AddHeaderProperties DEF SameEntry
    <3> QED BY <1>0, <1>2, <2>2, <3>1 DEF Call, AddHeader, NoneMoves
  <2>3. CASE RmExpired
    <3> DEFINE condition == Expired(koses[it])
    <3>1. condition \in BOOLEAN
      BY DEF Expired
    <3>2. EraseIf(condition) /\ it \in 1 .. Len(koses) /\ loop # "none"
      BY <1>0, <2>3 DEF RmExpired, TypeOK
    <3>3. UNCHANGED air
      BY <1>2 DEF Call
    <3> HIDE DEF condition
    <3> QED BY <1>0, <3>1, <3>2, <3>3, EraseMovesNone
  <2>4. CASE removeCompletedOrExpired
    <3> DEFINE condition == Ready(koses[it])
    <3>1. condition \in BOOLEAN
      BY DEF Ready, Completed, Expired
    <3>2. EraseIf(condition) /\ it \in 1 .. Len(koses) /\ loop # "none"
      BY <1>0, <2>4 DEF removeCompletedOrExpired, TypeOK
    <3>3. UNCHANGED air
      BY <1>2 DEF Call
    <3> HIDE DEF condition
    <3> QED BY <1>0, <3>1, <3>2, <3>3, EraseMovesNone
  <2>5. CASE EndLoop("rmExpired") \/ insertPackets
    <3>1. koses' = koses /\ UNCHANGED <<air, values, c>>
      BY <1>2, <2>5 DEF Call, EndLoop, insertPackets
    <3> QED BY <1>0, <3>1, EntriesKept
  <2> QED BY <1>2, <2>1, <2>2, <2>3, <2>4, <2>5
       DEF Call, CallStep, PutStep, RmExpiredStep
<1>3. CASE SaveReady \/ EndSave \/ RemoveReady \/ EndRemove \/ UNCHANGED gatewayVars
  <2>1. koses' = koses /\ UNCHANGED <<air, values, c>>
    BY <1>3 DEF SaveReady, EndSave, RemoveReady, EndRemove, beginInsertPackets,
         endInsertPackets, beginRemoveCompletedOrExpired, endRemoveCompletedOrExpired,
         BeginLoop, EndLoop, gatewayVars, parseVars, vars
  <2> QED BY <1>0, <2>1, EntriesKept
<1>4. CASE Finish
  <2>1. CASE flushLoggerParser
    <3>1. koses' = koses /\ UNCHANGED <<air, values, c>>
      BY <1>4, <2>1 DEF Finish, flushLoggerParser, BeginLoop
    <3> QED BY <1>0, <3>1, EntriesKept
  <2>2. CASE doneLoggerParser
    <3>1. Quiet /\ koses' = <<>> /\ UNCHANGED <<air, values, c>>
      BY <1>4, <2>2 DEF Finish, doneLoggerParser, Idle, Quiet
    <3>2. Len(koses') = 0 /\ DOMAIN koses' = {}
      BY <3>1
    <3> QED BY <1>0, <3>1, <3>2 DEF NoneMoves
  <2> QED BY <1>4, <2>1, <2>2 DEF Finish
<1>5. CASE Clock
  <2>1. Tick /\ UNCHANGED <<air, values, c>>
    BY <1>5 DEF Clock, Tick
  <2>2. /\ koses' \in Seq(LoggerKosaPackets) /\ Len(koses') = Len(koses)
        /\ \A k \in 1 .. Len(koses) : SameEntry(koses'[k], koses[k])
    BY <1>0, <2>1, TickProperties DEF SameEntry
  <2> QED BY <1>0, <2>1, <2>2 DEF NoneMoves
<1> QED BY <1>1, <1>2, <1>3, <1>4, <1>5 DEF GatewayNext

-----------------------------------------------------------------------------
(* Lemmas on the elements of sequences.                                    *)

LEMMA TailElements ==
  ASSUME NEW S, NEW s \in Seq(S), s # <<>>
  PROVE  /\ Tail(s) \in Seq(S) /\ Len(Tail(s)) = Len(s) - 1
         /\ \A i \in DOMAIN Tail(s) : i + 1 \in DOMAIN s /\ Tail(s)[i] = s[i + 1]
         /\ ToSet(Tail(s)) \subseteq ToSet(s)
         /\ Head(s) = s[1] /\ 1 \in DOMAIN s /\ Head(s) \in ToSet(s)
<1>1. /\ Tail(s) \in Seq(S) /\ Len(Tail(s)) = Len(s) - 1
      /\ \A i \in 1 .. Len(s) - 1 : Tail(s)[i] = s[i + 1]
      /\ Head(s) = s[1]
  BY HeadTailProperties
<1>2. Len(s) \in Nat /\ Len(s) # 0 /\ DOMAIN s = 1 .. Len(s)
      /\ DOMAIN Tail(s) = 1 .. Len(s) - 1
  BY <1>1
<1>3. \A i \in DOMAIN Tail(s) : i + 1 \in DOMAIN s /\ Tail(s)[i] = s[i + 1]
  BY <1>1, <1>2
<1> QED BY <1>1, <1>2, <1>3 DEF ToSet

LEMMA AppendElements ==
  ASSUME NEW S, NEW s \in Seq(S), NEW e
  PROVE  /\ Append(s, e) # <<>> /\ Len(Append(s, e)) = Len(s) + 1
         /\ DOMAIN Append(s, e) = 1 .. Len(s) + 1
         /\ \A i \in 1 .. Len(s) : i \in DOMAIN s /\ Append(s, e)[i] = s[i]
         /\ Append(s, e)[Len(s) + 1] = e
         /\ ToSet(Append(s, e)) = ToSet(s) \cup {e}
<1>1. s \in Seq(S \cup {e}) /\ Len(s) \in Nat /\ DOMAIN s = 1 .. Len(s)
  BY SeqMonotonic
<1>2. /\ Len(Append(s, e)) = Len(s) + 1 /\ Append(s, e) \in Seq(S \cup {e})
      /\ \A i \in 1 .. Len(s) : Append(s, e)[i] = s[i]
      /\ Append(s, e)[Len(s) + 1] = e
  BY <1>1, AppendProperties
<1>3. DOMAIN Append(s, e) = 1 .. Len(s) + 1 /\ Append(s, e) # <<>>
  BY <1>1, <1>2
<1>4. ToSet(Append(s, e)) = ToSet(s) \cup {e}
  BY <1>1, <1>2, <1>3 DEF ToSet
<1> QED BY <1>1, <1>2, <1>3, <1>4

LEMMA SubSeqElements ==
  ASSUME NEW S, NEW s \in Seq(S), NEW i \in Nat, NEW j \in Nat, i >= 1, j <= Len(s)
  PROVE  /\ SubSeq(s, i, j) \in Seq(S)
         /\ \A k \in DOMAIN SubSeq(s, i, j) :
              i + k - 1 \in i .. j /\ i + k - 1 \in DOMAIN s
              /\ SubSeq(s, i, j)[k] = s[i + k - 1]
         /\ ToSet(SubSeq(s, i, j)) \subseteq ToSet(s)
         /\ Len(SubSeq(s, i, j)) = IF i <= j THEN j - i + 1 ELSE 0
<1>1. Len(s) \in Nat /\ DOMAIN s = 1 .. Len(s) /\ \A n \in i .. j : s[n] \in S
  BY ElementOfSeq
<1>2. /\ SubSeq(s, i, j) \in Seq(S)
      /\ Len(SubSeq(s, i, j)) = IF i <= j THEN j - i + 1 ELSE 0
      /\ \A n \in 1 .. j - i + 1 : SubSeq(s, i, j)[n] = s[i + n - 1]
  BY <1>1, SubSeqProperties
<1>3. ASSUME NEW k \in DOMAIN SubSeq(s, i, j)
      PROVE  /\ i + k - 1 \in i .. j /\ i + k - 1 \in DOMAIN s
             /\ SubSeq(s, i, j)[k] = s[i + k - 1]
  <2>1. k \in 1 .. j - i + 1
    BY <1>2
  <2> QED BY <1>1, <1>2, <2>1
<1>4. ToSet(SubSeq(s, i, j)) \subseteq ToSet(s)
  BY <1>3 DEF ToSet
<1> QED BY <1>2, <1>3, <1>4

-----------------------------------------------------------------------------
(* Where frames and items come from.                                       *)

(* An item holds one frame that was sent, under its serial number.         *)
OwnItem(item) ==
  /\ item.packet = <<FrameOf(item)>>
  /\ FrameOf(item) \in Sent
  /\ item.id.kosa = FrameOf(item).kosa

FramesAreSent ==
  /\ \A a \in DOMAIN air : ToSet(air[a]) \subseteq Sent
  /\ ToSet(values) \subseteq Sent
  /\ \A item \in ToSet(c.items) : OwnItem(item)
  /\ \A k \in DOMAIN koses : \A item \in ToSet(koses[k].items) : OwnItem(item)

(* The rest of the air after frames were taken out of it.                  *)
RestOf(s, i, n) == SubSeq(s, 1, i - 1) \o SubSeq(s, i + n, Len(s))

LEMMA RestElements ==
  ASSUME NEW S, NEW s \in Seq(S), NEW i \in DOMAIN s, NEW n \in Nat, n >= 1,
         i + n - 1 <= Len(s)
  PROVE  /\ RestOf(s, i, n) \in Seq(S)
         /\ \A k \in DOMAIN RestOf(s, i, n) :
              LET j == IF k < i THEN k ELSE k + n
              IN  j \in DOMAIN s /\ j \notin i .. i + n - 1 /\ RestOf(s, i, n)[k] = s[j]
         /\ ToSet(RestOf(s, i, n)) \subseteq ToSet(s)
<1> DEFINE before == SubSeq(s, 1, i - 1)
           after == SubSeq(s, i + n, Len(s))
<1>1. i \in 1 .. Len(s) /\ Len(s) \in Nat /\ DOMAIN s = 1 .. Len(s)
  OBVIOUS
<1>2. /\ before \in Seq(S) /\ Len(before) = i - 1
      /\ \A k \in DOMAIN before : before[k] = s[k]
  <2>1. i - 1 \in Nat /\ i - 1 <= Len(s)
    BY <1>1
  <2>2. /\ before \in Seq(S)
        /\ \A k \in DOMAIN before : before[k] = s[1 + k - 1]
        /\ Len(before) = IF 1 <= i - 1 THEN (i - 1) - 1 + 1 ELSE 0
    BY <2>1, SubSeqElements
  <2>3. Len(before) = i - 1
    BY <1>1, <2>2
  <2>4. \A k \in DOMAIN before : k \in Nat /\ 1 + k - 1 = k
    BY <2>2
  <2> QED BY <2>2, <2>3, <2>4
<1>3. /\ after \in Seq(S) /\ Len(after) = Len(s) - i - n + 1
      /\ \A k \in DOMAIN after : after[k] = s[i + n + k - 1]
  <2>1. i + n \in Nat /\ i + n >= 1 /\ Len(s) \in Nat /\ Len(s) <= Len(s)
    BY <1>1
  <2>2. /\ after \in Seq(S)
        /\ \A k \in DOMAIN after : after[k] = s[(i + n) + k - 1]
        /\ Len(after) = IF i + n <= Len(s) THEN Len(s) - (i + n) + 1 ELSE 0
    <3> DEFINE m == i + n
    <3> HIDE DEF m
    <3>1. m \in Nat /\ m >= 1
      BY <2>1 DEF m
    <3>2. /\ SubSeq(s, m, Len(s)) \in Seq(S)
          /\ \A k \in DOMAIN SubSeq(s, m, Len(s)) :
               SubSeq(s, m, Len(s))[k] = s[m + k - 1]
          /\ Len(SubSeq(s, m, Len(s))) = IF m <= Len(s) THEN Len(s) - m + 1 ELSE 0
      BY ONLY <2>1, <3>1, s \in Seq(S), SubSeqElements
    <3> QED BY ONLY <3>2 DEF after, m
  <2>3. Len(after) = Len(s) - i - n + 1
    BY <1>1, <2>2
  <2> QED BY <2>2, <2>3
<1> HIDE DEF before, after
<1>4. /\ before \o after \in Seq(S)
      /\ Len(before \o after) = Len(before) + Len(after)
      /\ \A k \in 1 .. Len(before) + Len(after) :
           (before \o after)[k] = IF k <= Len(before) THEN before[k]
                                  ELSE after[k - Len(before)]
  BY <1>2, <1>3, ConcatProperties
<1>5. RestOf(s, i, n) = before \o after
  BY DEF RestOf, before, after
<1>6. ASSUME NEW k \in DOMAIN RestOf(s, i, n)
      PROVE  LET j == IF k < i THEN k ELSE k + n
             IN  j \in DOMAIN s /\ j \notin i .. i + n - 1 /\ RestOf(s, i, n)[k] = s[j]
  <2>1. k \in 1 .. Len(before) + Len(after) /\ k \in 1 .. Len(s) - n /\ k \in Nat
    BY <1>1, <1>2, <1>3, <1>4, <1>5
  <2>2. CASE k < i
    <3>1. k <= Len(before) /\ k \in DOMAIN before /\ k \in DOMAIN s /\ k \notin i .. i + n - 1
      BY <1>1, <1>2, <2>1, <2>2
    <3> QED BY <1>2, <1>4, <1>5, <2>1, <2>2, <3>1
  <2>3. CASE ~(k < i)
    <3>1. ~(k <= Len(before)) /\ k - Len(before) = k - i + 1
      BY <1>1, <1>2, <2>1, <2>3
    <3>2. k - i + 1 \in DOMAIN after /\ i + n + (k - i + 1) - 1 = k + n
      <4>1. DOMAIN after = 1 .. Len(after)
        BY <1>3
      <4>2. k - i + 1 \in 1 .. Len(after) /\ i + n + (k - i + 1) - 1 = k + n
        BY ONLY <1>1, <1>3, <2>1, <2>3, n \in Nat
      <4> QED BY <4>1, <4>2
    <3>3. k + n \in DOMAIN s /\ k + n \notin i .. i + n - 1
      BY <1>1, <1>2, <1>3, <2>1, <2>3
    <3>4. RestOf(s, i, n)[k] = after[k - i + 1]
      BY <1>4, <1>5, <2>1, <3>1
    <3>5. after[k - i + 1] = s[k + n]
      BY <1>3, <3>2
    <3> QED BY <2>3, <3>3, <3>4, <3>5
  <2> QED BY <2>2, <2>3
<1>7. ToSet(RestOf(s, i, n)) \subseteq ToSet(s)
  BY <1>6 DEF ToSet
<1> QED BY <1>4, <1>5, <1>6, <1>7

(* The item put1() makes of a frame: under the frame's serial number.      *)
ItemOf(f) == [id |-> ItemId(f), packet |-> <<f>>]

LEMMA ItemIsOwn ==
  ASSUME LoadIsOwn, NEW f \in Sent
  PROVE  OwnItem(ItemOf(f)) /\ FrameOf(ItemOf(f)) = f
<1>1. FrameOf(ItemOf(f)) = f /\ ItemOf(f).packet = <<f>> /\ ItemOf(f).id = ItemId(f)
  BY DEF FrameOf, ItemOf
<1>2. ItemId(f).kosa = f.kosa
  <2>1. CASE f.typ \in {"DELTA_2", "HUFF_2"} /\ f.addr \in DOMAIN Load
    <3>1. PlumeOf(Load[f.addr]) = PlumeOf(f) /\ f.typ \notin FirstTypes
      BY <2>1 DEF LoadIsOwn, FirstTypes
    <3>2. Load[f.addr].kosa = f.kosa
      BY <3>1 DEF PlumeOf
    <3> QED BY <2>1, <3>1, <3>2 DEF ItemId
  <2>2. CASE ~(f.typ \in {"DELTA_2", "HUFF_2"} /\ f.addr \in DOMAIN Load)
    BY <2>2 DEF ItemId
  <2> QED BY <2>1, <2>2
<1> QED BY <1>1, <1>2 DEF OwnItem

LEMMA DecodedFrame ==
  ASSUME TypeOK, NoRaw, FramesAreSent, FrameDecoded, NEW f, f = Head(values)
  PROVE  /\ values \in Seq(Frames) /\ values # <<>> /\ values' = Tail(values)
         /\ c.items \in Seq(Items)
         /\ f \in Sent /\ f \in Frames
         /\ \/ c' = c /\ f.typ = "UNKNOWN"
            \/ /\ c'.items = Append(c.items, ItemOf(f))
               /\ c'.expectedPackets = IF f.typ \in FirstTypes THEN f.packets
                                       ELSE c.expectedPackets
<1>1. values \in Seq(Frames) /\ values # <<>> /\ values' = Tail(values) /\ c.items \in Seq(Items)
  BY DEF TypeOK, FrameDecoded, PutFrame
<1>2. f \in ToSet(values) /\ f \in Frames
  BY <1>1, TailElements
<1>3. f \in Sent /\ f.typ # "RAW"
  BY <1>2 DEF FramesAreSent, NoRaw
<1>4. put1(f)
  BY <1>3 DEF FrameDecoded, PutFrame
<1> QED BY <1>1, <1>2, <1>3, <1>4 DEF put1, ItemOf

(* What AddItem does with the items, in terms of sets.                     *)
LEMMA FiledItem ==
  ASSUME TypeOK, ItemFiled, NEW item, item = Head(c.items)
  PROVE  /\ c.items \in Seq(Items) /\ c.items # <<>> /\ item \in ToSet(c.items)
         /\ c'.items = Tail(c.items)
         /\ \A k \in DOMAIN koses' :
              \/ k \in DOMAIN koses /\ koses'[k].items = koses[k].items
              \/ k \in DOMAIN koses /\ koses'[k].items = Append(koses[k].items, item)
              \/ koses'[k].items = <<item>>
<1>1. c.items \in Seq(Items) /\ c.items # <<>> /\ AddItem
  BY DEF TypeOK, ItemFiled, AddItem
<1>2. item \in ToSet(c.items) /\ Len(Tail(c.items)) = Len(c.items) - 1
      /\ Tail(c.items) \in Seq(Items)
  BY <1>1, TailElements
<1>3. c'.items = Tail(c.items)
  <2>1. CASE Len(c.items) = 1
    <3> DEFINE rest == Tail(c.items)
    <3> HIDE DEF rest
    <3>0. rest \in Seq(Items) /\ Len(rest) = 0
      BY <1>2, <2>1 DEF rest
    <3>1. Tail(c.items) = <<>>
      BY ONLY <3>0, EmptySeq DEF rest
    <3> QED BY <1>1, <2>1, <3>1 DEF AddItem, NewCollection
  <2>2. CASE Len(c.items) # 1
    BY <1>1, <2>2 DEF AddItem, TypeOK
  <2> QED BY <2>1, <2>2
<1>4. ASSUME NEW k \in DOMAIN koses'
      PROVE  \/ k \in DOMAIN koses /\ koses'[k].items = koses[k].items
             \/ k \in DOMAIN koses /\ koses'[k].items = Append(koses[k].items, item)
             \/ koses'[k].items = <<item>>
  <2> DEFINE m == Find(item.id)
             n == Len(koses)
  <2>1. /\ koses' \in Seq(LoggerKosaPackets) /\ koses \in Seq(LoggerKosaPackets)
        /\ Len(koses') = IF m = 0 THEN n + 1 ELSE n
        /\ \A j \in 1 .. n : j # m => koses'[j].items = koses[j].items
        /\ m # 0 => koses'[m].items = IF PlumeOf(item.id) = PlumeOf(koses[m].id)
                                      THEN Append(koses[m].items, item)
                                      ELSE koses[m].items
        /\ m = 0 => koses'[n + 1].items = <<item>>
    BY <1>1, AddItemProperties DEF TypeOK
  <2>2. m \in 0 .. n
    BY <2>1, FindProperties
  <2> HIDE DEF m, n
  <2>3. n \in Nat /\ DOMAIN koses = 1 .. n /\ (m = 0 => k \in 1 .. n + 1)
        /\ (m # 0 => k \in 1 .. n)
    BY <2>1 DEF n
  <2>4. CASE k \in 1 .. n /\ k # m
    BY <2>1, <2>3, <2>4
  <2>5. CASE k = m /\ m # 0
    BY <2>1, <2>2, <2>3, <2>5
  <2>6. CASE m = 0 /\ k = n + 1
    BY <2>1, <2>6
  <2> QED BY <2>2, <2>3, <2>4, <2>5, <2>6
<1> QED BY <1>1, <1>2, <1>3, <1>4

LEMMA ReceivedFrames ==
  ASSUME GatewayTypeOK, FramesReceived
  PROVE  \E a \in DOMAIN air : \E i \in DOMAIN air[a] : \E n \in Nat :
           /\ air[a] \in Seq(Frames) /\ n >= 1 /\ i + n - 1 <= Len(air[a])
           /\ i \in Nat /\ i >= 1 /\ i + n - 1 \in Nat
           /\ i = 1 \/ Reorders
           /\ values' = SubSeq(air[a], i, i + n - 1)
           /\ ToSet(values') \subseteq ToSet(air[a])
           /\ \/ air' = [air EXCEPT ![a] = RestOf(air[a], i, n)]
              \/ air' = air /\ repeats < MaxRepeats
<1>0. PICK a \in DOMAIN air : \E i \in DOMAIN air[a] : \E n \in 1 .. MaxBatch :
        /\ i + n - 1 <= Len(air[a])
        /\ i = 1 \/ Reorders
        /\ values' = SubSeq(air[a], i, i + n - 1)
        /\ \/ air' = [air EXCEPT ![a] = SubSeq(@, 1, i - 1) \o SubSeq(@, i + n, Len(@))]
           \/ air' = air /\ repeats < MaxRepeats
  BY DEF FramesReceived
<1>1. PICK i \in DOMAIN air[a], n \in 1 .. MaxBatch :
        /\ i + n - 1 <= Len(air[a])
        /\ i = 1 \/ Reorders
        /\ values' = SubSeq(air[a], i, i + n - 1)
        /\ \/ air' = [air EXCEPT ![a] = SubSeq(@, 1, i - 1) \o SubSeq(@, i + n, Len(@))]
           \/ air' = air /\ repeats < MaxRepeats
  BY <1>0
<1>2. air[a] \in Seq(Frames)
  BY DEF GatewayTypeOK
<1>3. n \in Nat /\ n >= 1 /\ i \in Nat /\ i >= 1 /\ i + n - 1 \in Nat
  BY <1>2, FlagsAssumption
<1>4. ToSet(SubSeq(air[a], i, i + n - 1)) \subseteq ToSet(air[a])
  BY <1>1, <1>2, <1>3, SubSeqElements
<1> QED BY <1>1, <1>2, <1>3, <1>4 DEF RestOf

LEMMA FramesAreSentInit == GatewayInit => FramesAreSent
<1> SUFFICES ASSUME GatewayInit
             PROVE  FramesAreSent
  OBVIOUS
<1>1. air = Sends /\ values = <<>> /\ c.items = <<>> /\ koses = <<>>
  BY DEF GatewayInit, initLoggerParser, Init, NewCollection
<1> QED BY <1>1 DEF FramesAreSent, Sent, ToSet

LEMMA FramesAreSentStep ==
  ASSUME GatewayInv, LoopIsQuiet, NoRaw, LoadIsOwn, FramesAreSent,
         [GatewayNext]_gatewayVars
  PROVE  FramesAreSent'
<1> USE DEF FramesAreSent
<1>0. TypeOK /\ GatewayTypeOK /\ DOMAIN air = DOMAIN Sends
  BY DEF GatewayInv, GatewayTypeOK
<1>1. CASE NoneMoves
  <2>1. \A k \in DOMAIN koses' : \E j \in DOMAIN koses : koses'[k].items = koses[j].items
    BY <1>1 DEF NoneMoves, SameEntry
  <2>2. UNCHANGED <<air, values, c>>
    BY <1>1 DEF NoneMoves
  <2>3. \A k \in DOMAIN koses' : \A item \in ToSet(koses'[k].items) : OwnItem(item)
    BY <2>1
  <2> QED BY <2>2, <2>3 DEF OwnItem
<1>2. CASE FramesLost
  <2>1. PICK a \in DOMAIN air : Lose(a)
    BY <1>2 DEF FramesLost
  <2>2. air[a] \in Seq(Frames) /\ air[a] # <<>> /\ air' = [air EXCEPT ![a] = Tail(@)]
    BY <1>0, <2>1 DEF GatewayTypeOK, Lose
  <2>3. ToSet(Tail(air[a])) \subseteq ToSet(air[a])
    BY <2>2, TailElements
  <2>4. \A b \in DOMAIN air' : ToSet(air'[b]) \subseteq Sent
    BY <2>2, <2>3
  <2> QED BY <1>2, <2>4 DEF FramesLost, OwnItem
<1>3. CASE FramesReceived
  <2>0. PICK a \in DOMAIN air : \E i \in DOMAIN air[a] : \E n \in Nat :
           /\ air[a] \in Seq(Frames) /\ n >= 1 /\ i + n - 1 <= Len(air[a])
           /\ ToSet(values') \subseteq ToSet(air[a])
           /\ \/ air' = [air EXCEPT ![a] = RestOf(air[a], i, n)]
              \/ air' = air
    BY <1>0, <1>3, ReceivedFrames
  <2>1. PICK i \in DOMAIN air[a], n \in Nat :
           /\ air[a] \in Seq(Frames) /\ n >= 1 /\ i + n - 1 <= Len(air[a])
           /\ ToSet(values') \subseteq ToSet(air[a])
           /\ \/ air' = [air EXCEPT ![a] = RestOf(air[a], i, n)]
              \/ air' = air
    BY <2>0
  <2>2. ToSet(RestOf(air[a], i, n)) \subseteq ToSet(air[a])
    BY <2>1, RestElements
  <2>3. \A b \in DOMAIN air' : ToSet(air'[b]) \subseteq Sent
    BY <2>1, <2>2
  <2>4. ToSet(values') \subseteq Sent
    BY <2>1
  <2> QED BY <1>3, <2>3, <2>4 DEF FramesReceived, OwnItem
<1>4. CASE FrameDecoded
  <2> DEFINE f == Head(values)
  <2>1. /\ values \in Seq(Frames) /\ values # <<>> /\ values' = Tail(values)
        /\ c.items \in Seq(Items) /\ f \in Sent
        /\ c' = c \/ c'.items = Append(c.items, ItemOf(f))
    BY <1>0, <1>4, DecodedFrame
  <2>2. ToSet(values') \subseteq Sent
    BY <2>1, TailElements
  <2>3. OwnItem(ItemOf(f))
    BY <2>1, ItemIsOwn
  <2>4. ToSet(c'.items) \subseteq ToSet(c.items) \cup {ItemOf(f)}
    <3>1. ToSet(Append(c.items, ItemOf(f))) = ToSet(c.items) \cup {ItemOf(f)}
      BY <2>1, AppendElements
    <3>2. CASE c' = c
      BY <3>2
    <3>3. CASE c'.items = Append(c.items, ItemOf(f))
      BY <3>1, <3>3
    <3> QED BY <2>1, <3>2, <3>3
  <2>5. \A item \in ToSet(c'.items) : OwnItem(item)
    BY <2>3, <2>4
  <2>6. UNCHANGED <<air, koses>>
    BY <1>4 DEF FrameDecoded
  <2> QED BY <2>2, <2>5, <2>6 DEF OwnItem
<1>5. CASE ItemFiled
  <2> DEFINE item == Head(c.items)
  <2>1. /\ c.items \in Seq(Items) /\ c.items # <<>> /\ item \in ToSet(c.items)
        /\ c'.items = Tail(c.items)
        /\ \A k \in DOMAIN koses' :
              \/ k \in DOMAIN koses /\ koses'[k].items = koses[k].items
              \/ k \in DOMAIN koses /\ koses'[k].items = Append(koses[k].items, item)
              \/ koses'[k].items = <<item>>
    BY <1>0, <1>5, FiledItem
  <2>2. ToSet(c'.items) \subseteq ToSet(c.items)
    BY <2>1, TailElements
  <2>3. ASSUME NEW k \in DOMAIN koses
        PROVE  koses[k].items \in Seq(Items)
    <3>1. koses[k] \in LoggerKosaPackets
      BY <1>0 DEF TypeOK
    <3> QED BY <3>1 DEF LoggerKosaPackets
  <2> HIDE DEF item
  <2>4. ASSUME NEW k \in DOMAIN koses', NEW one \in ToSet(koses'[k].items)
        PROVE  OwnItem(one)
    <3>1. ToSet(<<item>>) = {item}
      BY DEF ToSet
    <3>2. k \in DOMAIN koses => ToSet(Append(koses[k].items, item)) = ToSet(koses[k].items) \cup {item}
      BY <2>3, AppendElements
    <3>3. \/ k \in DOMAIN koses /\ one \in ToSet(koses[k].items)
          \/ one = item
      <4>1. CASE k \in DOMAIN koses /\ koses'[k].items = koses[k].items
        BY <4>1
      <4>2. CASE k \in DOMAIN koses /\ koses'[k].items = Append(koses[k].items, item)
        BY <3>2, <4>2
      <4>3. CASE koses'[k].items = <<item>>
        BY <3>1, <4>3
      <4> QED BY <2>1, <4>1, <4>2, <4>3
    <3> QED BY <2>1, <3>3
  <2>5. UNCHANGED <<air, values>>
    BY <1>5 DEF ItemFiled
  <2> QED BY <2>2, <2>4, <2>5, <2>1 DEF OwnItem
<1> QED BY <1>1, <1>2, <1>3, <1>4, <1>5, StepMoves

(* What of the flow of frames holds for every radio.                       *)
FlowInv == GatewayInv /\ LoopIsQuiet /\ FramesAreSent

LEMMA FlowInvariant ==
  ASSUME NoRaw, LoadIsOwn
  PROVE  GatewaySpec => []FlowInv
<1>1. GatewayInit => FlowInv
  BY GatewayInvInit, LoopIsQuietInit, FramesAreSentInit DEF FlowInv
<1>2. FlowInv /\ [GatewayNext]_gatewayVars => FlowInv'
  BY GatewayInvStep, LoopIsQuietStep, FramesAreSentStep DEF FlowInv
<1> QED BY <1>1, <1>2, PTL DEF GatewaySpec

(* No entry mixes frames of two plumes, over a radio that loses, repeats   *)
(* and reorders them, for every number of loggers.  Two plumes of one      *)
(* serial number would be mixed: a next frame does not carry the year.     *)
THEOREM PlumesAreNotMixed ==
  ASSUME NoRaw, LoadIsOwn, OneYear
  PROVE  GatewaySpec => []OnePlume
<1>1. FlowInv => OnePlume
  <2> SUFFICES ASSUME FlowInv, NEW k \in DOMAIN koses,
                      NEW f \in FramesOf(koses[k]), NEW g \in FramesOf(koses[k])
               PROVE  PlumeOf(f) = PlumeOf(g)
    BY DEF OnePlume
  <2>1. PICK item \in ToSet(koses[k].items) : f = FrameOf(item)
    BY DEF FramesOf, FrameOf
  <2>2. PICK other \in ToSet(koses[k].items) : g = FrameOf(other)
    BY DEF FramesOf, FrameOf
  <2>3. OwnItem(item) /\ OwnItem(other)
    BY DEF FlowInv, FramesAreSent
  <2>4. item.id.kosa = koses[k].id.kosa /\ other.id.kosa = koses[k].id.kosa
    BY DEF FlowInv, GatewayInv, ItemsAgree, ToSet, PlumeOf
  <2> QED BY <2>1, <2>2, <2>3, <2>4 DEF OwnItem, OneYear
<1> QED BY <1>1, FlowInvariant, PTL

-----------------------------------------------------------------------------
(* No frame is in two places.                                              *)

(* Every frame is sent once, and a measurement has n frames, which is what *)
(* its first frame says.                                                   *)
SentOnce ==
  \A a, b \in DOMAIN Sends : \A i \in DOMAIN Sends[a], j \in DOMAIN Sends[b] :
    Sends[a][i] = Sends[b][j] => a = b /\ i = j

Sized(n) ==
  \A f \in Sent :
    /\ IsFiniteSet(Measurement(f)) /\ Cardinality(Measurement(f)) = n
    /\ f.typ \in FirstTypes => f.packets = n

(* Each plume measures once.                                               *)
OneMeasurement ==
  \A f, g \in Sent : PlumeOf(f) = PlumeOf(g) => f.measure = g.measure

Distinct(s) == \A i, j \in DOMAIN s : s[i] = s[j] => i = j
DistinctItems(s) == \A i, j \in DOMAIN s : FrameOf(s[i]) = FrameOf(s[j]) => i = j

FramesIn(items) == {FrameOf(item) : item \in ToSet(items)}

InAir == UNION {ToSet(air[a]) : a \in DOMAIN air}
InMemory == UNION {FramesIn(koses[k].items) : k \in DOMAIN koses}

OnceInAir ==
  /\ \A a \in DOMAIN air : Distinct(air[a])
  /\ \A a, b \in DOMAIN air : a # b => ToSet(air[a]) \cap ToSet(air[b]) = {}

OnceElsewhere ==
  /\ Distinct(values)
  /\ DistinctItems(c.items)
  /\ \A k \in DOMAIN koses : DistinctItems(koses[k].items)

OncePlace ==
  /\ ToSet(values) \cap InAir = {}
  /\ FramesIn(c.items) \cap (InAir \cup ToSet(values)) = {}
  /\ InMemory \cap (InAir \cup ToSet(values) \cup FramesIn(c.items)) = {}

FrameOnce == OnceInAir /\ OnceElsewhere /\ OncePlace

(* The only counts told are n.                                             *)
Counted(n) ==
  /\ c.expectedPackets \in {0, n}
  /\ \A k \in DOMAIN koses : koses[k].expectedPackets \in {0, n}

LEMMA DistinctTail ==
  ASSUME NEW S, NEW s \in Seq(S), s # <<>>
  PROVE  /\ Distinct(s) => Distinct(Tail(s)) /\ ToSet(Tail(s)) = ToSet(s) \ {Head(s)}
         /\ DistinctItems(s) =>
              /\ DistinctItems(Tail(s))
              /\ FramesIn(Tail(s)) = FramesIn(s) \ {FrameOf(Head(s))}
<1>1. /\ Tail(s) \in Seq(S) /\ Len(Tail(s)) = Len(s) - 1
      /\ \A i \in DOMAIN Tail(s) : i + 1 \in DOMAIN s /\ Tail(s)[i] = s[i + 1]
      /\ Head(s) = s[1] /\ 1 \in DOMAIN s
  BY TailElements
<1>2. Len(s) \in Nat /\ DOMAIN s = 1 .. Len(s) /\ DOMAIN Tail(s) = 1 .. Len(s) - 1
  BY <1>1
<1>3. \A i \in DOMAIN s : i # 1 => i - 1 \in DOMAIN Tail(s) /\ Tail(s)[i - 1] = s[i]
  BY <1>1, <1>2
<1>4. \A i, j \in DOMAIN Tail(s) : i + 1 = j + 1 => i = j
  BY <1>2
<1>5. \A i \in DOMAIN Tail(s) : i + 1 # 1
  BY <1>2
<1>6. ASSUME Distinct(s)
      PROVE  Distinct(Tail(s)) /\ ToSet(Tail(s)) = ToSet(s) \ {Head(s)}
  <2>1. Distinct(Tail(s))
    BY <1>1, <1>4, <1>6 DEF Distinct
  <2>2. \A i \in DOMAIN Tail(s) : s[i + 1] # s[1]
    BY <1>1, <1>5, <1>6 DEF Distinct
  <2>3. ASSUME NEW x \in ToSet(Tail(s))
        PROVE  x \in ToSet(s) /\ x # Head(s)
    <3>1. PICK i \in DOMAIN Tail(s) : x = Tail(s)[i]
      BY DEF ToSet
    <3> QED BY <1>1, <2>2, <3>1 DEF ToSet
  <2>4. ASSUME NEW x \in ToSet(s), x # Head(s)
        PROVE  x \in ToSet(Tail(s))
    <3>1. PICK i \in DOMAIN s : x = s[i]
      BY DEF ToSet
    <3>2. i # 1
      BY <1>1, <2>4, <3>1
    <3> QED BY <1>3, <3>1, <3>2 DEF ToSet
  <2> QED BY <2>1, <2>3, <2>4
<1>7. ASSUME DistinctItems(s)
      PROVE  DistinctItems(Tail(s)) /\ FramesIn(Tail(s)) = FramesIn(s) \ {FrameOf(Head(s))}
  <2>1. DistinctItems(Tail(s))
    BY <1>1, <1>4, <1>7 DEF DistinctItems
  <2>2. \A i \in DOMAIN Tail(s) : FrameOf(s[i + 1]) # FrameOf(s[1])
    BY <1>1, <1>5, <1>7 DEF DistinctItems
  <2>3. ASSUME NEW x \in ToSet(Tail(s))
        PROVE  x \in ToSet(s) /\ FrameOf(x) # FrameOf(Head(s))
    <3>1. PICK i \in DOMAIN Tail(s) : x = Tail(s)[i]
      BY DEF ToSet
    <3> QED BY <1>1, <2>2, <3>1 DEF ToSet
  <2>4. ASSUME NEW x \in ToSet(s), FrameOf(x) # FrameOf(Head(s))
        PROVE  x \in ToSet(Tail(s))
    <3>1. PICK i \in DOMAIN s : x = s[i]
      BY DEF ToSet
    <3>2. i # 1
      BY <1>1, <2>4, <3>1
    <3> QED BY <1>3, <3>1, <3>2 DEF ToSet
  <2> QED BY <2>1, <2>3, <2>4 DEF FramesIn
<1> QED BY <1>6, <1>7

LEMMA DistinctAppend ==
  ASSUME NEW S, NEW s \in Seq(S), NEW item
  PROVE  /\ FramesIn(Append(s, item)) = FramesIn(s) \cup {FrameOf(item)}
         /\ DistinctItems(s) /\ FrameOf(item) \notin FramesIn(s) =>
              DistinctItems(Append(s, item))
<1>1. /\ DOMAIN Append(s, item) = 1 .. Len(s) + 1
      /\ \A i \in 1 .. Len(s) : i \in DOMAIN s /\ Append(s, item)[i] = s[i]
      /\ Append(s, item)[Len(s) + 1] = item
      /\ ToSet(Append(s, item)) = ToSet(s) \cup {item}
      /\ Len(s) \in Nat
  BY AppendElements
<1>2. FramesIn(Append(s, item)) = FramesIn(s) \cup {FrameOf(item)}
  BY <1>1 DEF FramesIn
<1>3. ASSUME DistinctItems(s), FrameOf(item) \notin FramesIn(s)
      PROVE  DistinctItems(Append(s, item))
  <2> DEFINE t == Append(s, item)
  <2>1. \A i \in DOMAIN t : i \in 1 .. Len(s) \/ i = Len(s) + 1
    BY <1>1
  <2>2. \A i \in 1 .. Len(s) : FrameOf(t[i]) # FrameOf(item)
    BY <1>1, <1>3 DEF FramesIn, ToSet
  <2>3. \A i, j \in 1 .. Len(s) : FrameOf(t[i]) = FrameOf(t[j]) => i = j
    BY <1>1, <1>3 DEF DistinctItems
  <2> QED BY <1>1, <2>1, <2>2, <2>3 DEF DistinctItems
<1> QED BY <1>2, <1>3

LEMMA DistinctSubSeq ==
  ASSUME NEW S, NEW s \in Seq(S), NEW i \in DOMAIN s, NEW n \in Nat, n >= 1,
         i + n - 1 <= Len(s), Distinct(s)
  PROVE  /\ Distinct(SubSeq(s, i, i + n - 1))
         /\ Distinct(RestOf(s, i, n))
         /\ ToSet(SubSeq(s, i, i + n - 1)) \cap ToSet(RestOf(s, i, n)) = {}
         /\ ToSet(RestOf(s, i, n)) \subseteq ToSet(s)
<1>0. i \in Nat /\ i >= 1 /\ i + n - 1 \in Nat
  OBVIOUS
<1>1. \A k \in DOMAIN SubSeq(s, i, i + n - 1) :
        /\ i + k - 1 \in i .. i + n - 1 /\ i + k - 1 \in DOMAIN s
        /\ SubSeq(s, i, i + n - 1)[k] = s[i + k - 1] /\ k \in Nat
  <2> DEFINE m == i + n - 1
  <2>1. m \in Nat /\ m <= Len(s)
    BY <1>0
  <2> HIDE DEF m
  <2>2. \A k \in DOMAIN SubSeq(s, i, m) :
        /\ i + k - 1 \in i .. m /\ i + k - 1 \in DOMAIN s
        /\ SubSeq(s, i, m)[k] = s[i + k - 1] /\ k \in Nat
    BY <1>0, <2>1, SubSeqElements
  <2> QED BY <2>2 DEF m
<1>2. /\ RestOf(s, i, n) \in Seq(S)
      /\ ToSet(RestOf(s, i, n)) \subseteq ToSet(s)
      /\ \A k \in DOMAIN RestOf(s, i, n) :
           LET j == IF k < i THEN k ELSE k + n
           IN  j \in DOMAIN s /\ j \notin i .. i + n - 1 /\ RestOf(s, i, n)[k] = s[j]
  BY RestElements
<1>3. Distinct(SubSeq(s, i, i + n - 1))
  <2> SUFFICES ASSUME NEW k \in DOMAIN SubSeq(s, i, i + n - 1),
                      NEW m \in DOMAIN SubSeq(s, i, i + n - 1),
                      SubSeq(s, i, i + n - 1)[k] = SubSeq(s, i, i + n - 1)[m]
               PROVE  k = m
    BY DEF Distinct
  <2>1. i + k - 1 = i + m - 1 /\ k \in Nat /\ m \in Nat
    BY <1>1 DEF Distinct
  <2> QED BY ONLY <1>0, <2>1
<1>4. Distinct(RestOf(s, i, n))
  <2> SUFFICES ASSUME NEW k \in DOMAIN RestOf(s, i, n), NEW m \in DOMAIN RestOf(s, i, n),
                      RestOf(s, i, n)[k] = RestOf(s, i, n)[m]
               PROVE  k = m
    BY DEF Distinct
  <2>1. k \in Nat /\ m \in Nat
    BY <1>2
  <2>2. (IF k < i THEN k ELSE k + n) = (IF m < i THEN m ELSE m + n)
    BY <1>2 DEF Distinct
  <2> QED BY ONLY <1>0, <2>1, <2>2, n \in Nat, n >= 1
<1>5. ASSUME NEW x \in ToSet(SubSeq(s, i, i + n - 1)), x \in ToSet(RestOf(s, i, n))
      PROVE  FALSE
  <2>1. PICK k \in DOMAIN SubSeq(s, i, i + n - 1) : x = SubSeq(s, i, i + n - 1)[k]
    BY DEF ToSet
  <2>2. PICK m \in DOMAIN RestOf(s, i, n) : x = RestOf(s, i, n)[m]
    BY <1>5 DEF ToSet
  <2> DEFINE j == IF m < i THEN m ELSE m + n
  <2>3. j \in DOMAIN s /\ j \notin i .. i + n - 1 /\ x = s[j]
    BY <1>2, <2>2
  <2>4. i + k - 1 \in i .. i + n - 1 /\ i + k - 1 \in DOMAIN s /\ x = s[i + k - 1]
    BY <1>1, <2>1
  <2> HIDE DEF j
  <2> QED BY <2>3, <2>4 DEF Distinct
<1> QED BY <1>2, <1>3, <1>4, <1>5

(* Frames of a leave the air.                                              *)
LEMMA LessInAir ==
  ASSUME OnceInAir, NEW a \in DOMAIN air, NEW s, air' = [air EXCEPT ![a] = s],
         Distinct(s), ToSet(s) \subseteq ToSet(air[a])
  PROVE  /\ OnceInAir' /\ InAir' \subseteq InAir
         /\ \A x \in ToSet(air[a]) : x \notin ToSet(s) => x \notin InAir'
<1>1. /\ DOMAIN air' = DOMAIN air /\ air'[a] = s
      /\ \A b \in DOMAIN air : b # a => air'[b] = air[b]
  OBVIOUS
<1>2. \A b \in DOMAIN air : ToSet(air'[b]) \subseteq ToSet(air[b]) /\ Distinct(air'[b])
  BY <1>1 DEF OnceInAir
<1>3. \A b, d \in DOMAIN air : b # d => ToSet(air'[b]) \cap ToSet(air'[d]) = {}
  BY <1>2 DEF OnceInAir
<1>4. OnceInAir'
  BY <1>1, <1>2, <1>3 DEF OnceInAir
<1>5. InAir' \subseteq InAir
  BY <1>1, <1>2 DEF InAir
<1>6. ASSUME NEW x \in ToSet(air[a]), x \notin ToSet(s)
      PROVE  x \notin InAir'
  <2>1. \A b \in DOMAIN air : b # a => x \notin ToSet(air[b])
    BY DEF OnceInAir
  <2>2. \A b \in DOMAIN air : x \notin ToSet(air'[b])
    BY <1>1, <1>6, <2>1
  <2> QED BY <1>1, <2>2 DEF InAir
<1> QED BY <1>4, <1>5, <1>6

LEMMA FrameOnceInit == SentOnce /\ GatewayInit => FrameOnce
<1> SUFFICES ASSUME SentOnce, GatewayInit
             PROVE  FrameOnce
  OBVIOUS
<1>1. air = Sends /\ values = <<>> /\ c.items = <<>> /\ koses = <<>>
  BY DEF GatewayInit, initLoggerParser, Init, NewCollection
<1>2. OnceInAir
  <2>1. \A a \in DOMAIN Sends : Distinct(Sends[a])
    BY DEF SentOnce, Distinct
  <2>2. \A a, b \in DOMAIN Sends : a # b => ToSet(Sends[a]) \cap ToSet(Sends[b]) = {}
    BY DEF SentOnce, ToSet
  <2> QED BY <1>1, <2>1, <2>2 DEF OnceInAir
<1>3. OnceElsewhere
  BY <1>1 DEF OnceElsewhere, Distinct, DistinctItems
<1>4. ToSet(values) = {} /\ FramesIn(c.items) = {} /\ InMemory = {}
  BY <1>1 DEF ToSet, FramesIn, InMemory
<1>5. OncePlace
  BY <1>4 DEF OncePlace
<1> QED BY <1>2, <1>3, <1>5 DEF FrameOnce

LEMMA NoneMovesOnce == FrameOnce /\ NoneMoves => FrameOnce'
<1> SUFFICES ASSUME FrameOnce, NoneMoves
             PROVE  FrameOnce'
  OBVIOUS
<1>1. UNCHANGED <<air, values, c>>
      /\ \A k \in DOMAIN koses' : \E j \in DOMAIN koses : koses'[k].items = koses[j].items
  BY DEF NoneMoves, SameEntry
<1>2. InMemory' \subseteq InMemory
  BY <1>1 DEF InMemory, FramesIn
<1>3. \A k \in DOMAIN koses' : DistinctItems(koses'[k].items)
  BY <1>1 DEF FrameOnce, OnceElsewhere
<1>4. OnceInAir' /\ InAir' = InAir
  BY <1>1 DEF FrameOnce, OnceInAir, InAir
<1>5. OnceElsewhere'
  BY <1>1, <1>3 DEF FrameOnce, OnceElsewhere, DistinctItems
<1>6. FramesIn(c.items)' = FramesIn(c.items)
  BY <1>1 DEF FramesIn
<1>7. OncePlace'
  BY <1>1, <1>2, <1>4, <1>6 DEF FrameOnce, OncePlace
<1> QED BY <1>4, <1>5, <1>7 DEF FrameOnce

LEMMA LostOnce ==
  ASSUME GatewayTypeOK, FrameOnce, FramesLost
  PROVE  FrameOnce'
<1>1. PICK a \in DOMAIN air : Lose(a)
  BY DEF FramesLost
<1>2. air[a] \in Seq(Frames) /\ air[a] # <<>> /\ air' = [air EXCEPT ![a] = Tail(air[a])]
  BY <1>1 DEF GatewayTypeOK, Lose
<1>3. Distinct(Tail(air[a])) /\ ToSet(Tail(air[a])) \subseteq ToSet(air[a])
  BY <1>2, DistinctTail DEF FrameOnce, OnceInAir
<1>4. OnceInAir' /\ InAir' \subseteq InAir
  BY <1>2, <1>3, LessInAir DEF FrameOnce
<1>5. UNCHANGED <<values, c, koses>>
  BY DEF FramesLost
<1>6. OnceElsewhere' /\ InMemory' = InMemory /\ FramesIn(c.items)' = FramesIn(c.items)
  BY <1>5 DEF FrameOnce, OnceElsewhere, InMemory, FramesIn, DistinctItems
<1>7. OncePlace'
  BY <1>4, <1>5, <1>6 DEF FrameOnce, OncePlace
<1> QED BY <1>4, <1>6, <1>7 DEF FrameOnce

LEMMA ReceivedOnce ==
  ASSUME GatewayTypeOK, FrameOnce, FramesReceived, MaxRepeats = 0
  PROVE  FrameOnce'
<1>1. PICK a \in DOMAIN air : \E i \in DOMAIN air[a] : \E n \in Nat :
           /\ air[a] \in Seq(Frames) /\ n >= 1 /\ i + n - 1 <= Len(air[a])
           /\ values' = SubSeq(air[a], i, i + n - 1)
           /\ ToSet(values') \subseteq ToSet(air[a])
           /\ air' = [air EXCEPT ![a] = RestOf(air[a], i, n)]
  <2>1. ~(repeats < MaxRepeats)
    BY DEF GatewayTypeOK
  <2> QED BY <2>1, ReceivedFrames
<1>2. PICK i \in DOMAIN air[a], n \in Nat :
           /\ air[a] \in Seq(Frames) /\ n >= 1 /\ i + n - 1 <= Len(air[a])
           /\ values' = SubSeq(air[a], i, i + n - 1)
           /\ ToSet(values') \subseteq ToSet(air[a])
           /\ air' = [air EXCEPT ![a] = RestOf(air[a], i, n)]
  BY <1>1
<1>3. Distinct(air[a])
  BY DEF FrameOnce, OnceInAir
<1>4. /\ Distinct(values')
      /\ Distinct(RestOf(air[a], i, n))
      /\ ToSet(values') \cap ToSet(RestOf(air[a], i, n)) = {}
      /\ ToSet(RestOf(air[a], i, n)) \subseteq ToSet(air[a])
  BY <1>2, <1>3, DistinctSubSeq
<1>5. /\ OnceInAir' /\ InAir' \subseteq InAir
      /\ \A x \in ToSet(air[a]) : x \notin ToSet(RestOf(air[a], i, n)) => x \notin InAir'
  <2> DEFINE s == RestOf(air[a], i, n)
  <2>1. air' = [air EXCEPT ![a] = s] /\ Distinct(s) /\ ToSet(s) \subseteq ToSet(air[a])
    BY <1>2, <1>4
  <2> HIDE DEF s
  <2>2. /\ OnceInAir' /\ InAir' \subseteq InAir
        /\ \A x \in ToSet(air[a]) : x \notin ToSet(s) => x \notin InAir'
    BY <2>1, LessInAir DEF FrameOnce
  <2> QED BY <2>2 DEF s
<1>6. ToSet(values') \cap InAir' = {} /\ ToSet(values') \subseteq InAir
  BY <1>2, <1>4, <1>5 DEF InAir
<1>7. c.items = <<>> /\ UNCHANGED <<c, koses>>
  BY DEF FramesReceived, Quiet
<1>8. OnceElsewhere' /\ InMemory' = InMemory
  BY <1>4, <1>7 DEF FrameOnce, OnceElsewhere, InMemory, FramesIn, DistinctItems
<1>9. FramesIn(c.items)' = {} /\ FramesIn(c.items) = {}
  BY <1>7 DEF FramesIn, ToSet
<1>10. OncePlace'
  <2>1. ToSet(values)' = ToSet(values')
    BY DEF ToSet
  <2> QED BY <1>5, <1>6, <1>8, <1>9, <2>1 DEF FrameOnce, OncePlace
<1> QED BY <1>5, <1>8, <1>10 DEF FrameOnce

LEMMA DecodedOnce ==
  ASSUME GatewayTypeOK, NoRaw, FramesAreSent, FrameOnce, FrameDecoded
  PROVE  FrameOnce'
<1> DEFINE f == Head(values)
<1>1. /\ values \in Seq(Frames) /\ values # <<>> /\ values' = Tail(values)
      /\ c.items \in Seq(Items)
      /\ c'.items = c.items \/ c'.items = Append(c.items, ItemOf(f))
  BY DecodedFrame DEF GatewayTypeOK
<1>2. UNCHANGED <<air, koses>>
  BY DEF FrameDecoded
<1>3. FrameOf(ItemOf(f)) = f
  BY DEF FrameOf, ItemOf
<1>4. Distinct(values') /\ ToSet(values') = ToSet(values) \ {f} /\ f \in ToSet(values)
  BY <1>1, DistinctTail, TailElements DEF FrameOnce, OnceElsewhere
<1>5. f \notin FramesIn(c.items)
  BY <1>4 DEF FrameOnce, OncePlace
<1> HIDE DEF f
<1>6. /\ FramesIn(Append(c.items, ItemOf(f))) = FramesIn(c.items) \cup {f}
      /\ DistinctItems(Append(c.items, ItemOf(f)))
  BY <1>1, <1>3, <1>5, DistinctAppend DEF FrameOnce, OnceElsewhere
<1>7. FramesIn(c'.items) \subseteq FramesIn(c.items) \cup {f} /\ DistinctItems(c'.items)
  BY <1>1, <1>6 DEF FrameOnce, OnceElsewhere
<1>8. OnceInAir' /\ InAir' = InAir /\ InMemory' = InMemory
  BY <1>2 DEF FrameOnce, OnceInAir, InAir, InMemory, FramesIn
<1>9. OnceElsewhere'
  BY <1>2, <1>4, <1>7 DEF FrameOnce, OnceElsewhere, Distinct, DistinctItems
<1>10. OncePlace'
  <2>1. ToSet(values)' = ToSet(values') /\ FramesIn(c.items)' = FramesIn(c'.items)
    BY DEF ToSet, FramesIn
  <2> QED BY <1>4, <1>7, <1>8, <2>1 DEF FrameOnce, OncePlace
<1> QED BY <1>8, <1>9, <1>10 DEF FrameOnce

LEMMA FiledOnce ==
  ASSUME GatewayTypeOK, FrameOnce, ItemFiled
  PROVE  FrameOnce'
<1> DEFINE item == Head(c.items)
<1>1. /\ c.items \in Seq(Items) /\ c.items # <<>> /\ item \in ToSet(c.items)
      /\ c'.items = Tail(c.items)
      /\ \A k \in DOMAIN koses' :
           \/ k \in DOMAIN koses /\ koses'[k].items = koses[k].items
           \/ k \in DOMAIN koses /\ koses'[k].items = Append(koses[k].items, item)
           \/ koses'[k].items = <<item>>
  BY FiledItem DEF GatewayTypeOK
<1>2. UNCHANGED <<air, values>>
  BY DEF ItemFiled
<1>3. DistinctItems(c'.items) /\ FramesIn(c'.items) = FramesIn(c.items) \ {FrameOf(item)}
  BY <1>1, DistinctTail DEF FrameOnce, OnceElsewhere
<1>4. FrameOf(item) \in FramesIn(c.items)
  BY <1>1 DEF FramesIn
<1>5. FrameOf(item) \notin InMemory
  BY <1>4 DEF FrameOnce, OncePlace
<1> HIDE DEF item
<1>6. ASSUME NEW k \in DOMAIN koses
      PROVE  /\ FramesIn(Append(koses[k].items, item))
                  = FramesIn(koses[k].items) \cup {FrameOf(item)}
             /\ DistinctItems(Append(koses[k].items, item))
  <2>1. koses[k] \in LoggerKosaPackets
    BY DEF GatewayTypeOK, TypeOK
  <2>2. koses[k].items \in Seq(Items)
    BY <2>1 DEF LoggerKosaPackets
  <2>3. FrameOf(item) \notin FramesIn(koses[k].items) /\ DistinctItems(koses[k].items)
    BY <1>5 DEF InMemory, FrameOnce, OnceElsewhere
  <2> QED BY <2>2, <2>3, DistinctAppend
<1>7. FramesIn(<<item>>) = {FrameOf(item)} /\ DistinctItems(<<item>>)
  BY DEF FramesIn, ToSet, DistinctItems
<1>8. ASSUME NEW k \in DOMAIN koses'
      PROVE  /\ FramesIn(koses'[k].items) \subseteq InMemory \cup {FrameOf(item)}
             /\ DistinctItems(koses'[k].items)
  <2>1. CASE k \in DOMAIN koses /\ koses'[k].items = koses[k].items
    BY <2>1 DEF InMemory, FrameOnce, OnceElsewhere
  <2>2. CASE k \in DOMAIN koses /\ koses'[k].items = Append(koses[k].items, item)
    BY <1>6, <2>2 DEF InMemory
  <2>3. CASE koses'[k].items = <<item>>
    BY <1>7, <2>3
  <2> QED BY <1>1, <2>1, <2>2, <2>3
<1>9. InMemory' \subseteq InMemory \cup {FrameOf(item)}
  <2>1. InMemory' = UNION {FramesIn(koses'[k].items) : k \in DOMAIN koses'}
    BY DEF InMemory, FramesIn
  <2> QED BY <1>8, <2>1
<1>10. OnceInAir' /\ InAir' = InAir
  BY <1>2 DEF FrameOnce, OnceInAir, InAir
<1>11. OnceElsewhere'
  BY <1>2, <1>3, <1>8 DEF FrameOnce, OnceElsewhere, Distinct, DistinctItems
<1>12. OncePlace'
  <2>1. FramesIn(c.items)' = FramesIn(c'.items)
    BY DEF FramesIn
  <2> QED BY <1>2, <1>3, <1>4, <1>9, <1>10, <2>1 DEF FrameOnce, OncePlace
<1> QED BY <1>10, <1>11, <1>12 DEF FrameOnce

LEMMA FrameOnceStep ==
  ASSUME FlowInv, NoRaw, LoadIsOwn, MaxRepeats = 0, FrameOnce,
         [GatewayNext]_gatewayVars
  PROVE  FrameOnce'
BY StepMoves, NoneMovesOnce, LostOnce, ReceivedOnce, DecodedOnce, FiledOnce
DEF FlowInv, GatewayInv

LEMMA CountedStep ==
  ASSUME FlowInv, NoRaw, LoadIsOwn, NEW n \in Nat, Sized(n), Counted(n),
         [GatewayNext]_gatewayVars
  PROVE  Counted(n)'
<1>0. TypeOK /\ GatewayTypeOK /\ FramesAreSent /\ koses \in Seq(LoggerKosaPackets)
  BY DEF FlowInv, GatewayInv, GatewayTypeOK, TypeOK
<1>1. CASE NoneMoves
  BY <1>1 DEF NoneMoves, SameEntry, Counted
<1>2. CASE FramesLost \/ FramesReceived
  BY <1>2 DEF FramesLost, FramesReceived, Counted
<1>3. CASE FrameDecoded
  <2>1. /\ Head(values) \in Sent
        /\ \/ c' = c
           \/ c'.expectedPackets = IF Head(values).typ \in FirstTypes
                                   THEN Head(values).packets ELSE c.expectedPackets
    BY <1>0, <1>3, DecodedFrame
  <2>2. koses' = koses
    BY <1>3 DEF FrameDecoded
  <2> QED BY <2>1, <2>2 DEF Counted, Sized
<1>4. CASE ItemFiled
  <2> DEFINE k == Find(Head(c.items).id)
             m == Len(koses)
  <2>1. /\ koses' \in Seq(LoggerKosaPackets) /\ m \in Nat /\ DOMAIN koses = 1 .. m
        /\ Len(koses') = IF k = 0 THEN m + 1 ELSE m
        /\ k # 0 => \A j \in 1 .. m :
             koses'[j].expectedPackets = IF j = k THEN Told(koses[j].expectedPackets)
                                         ELSE koses[j].expectedPackets
        /\ k = 0 =>
             /\ \A j \in 1 .. m : koses'[j].expectedPackets
                                    \in {0, c.expectedPackets, koses[j].expectedPackets}
             /\ koses'[m + 1].expectedPackets \in {0, c.expectedPackets}
    BY <1>0, <1>4, AddItemProperties DEF ItemFiled
  <2>2. c'.expectedPackets \in {0, c.expectedPackets}
    BY <1>4 DEF ItemFiled, AddItem, NewCollection
  <2> HIDE DEF k, m
  <2>3. DOMAIN koses' = 1 .. Len(koses')
    BY <2>1
  <2>4. \A j \in 1 .. m : koses[j].expectedPackets \in {0, n}
    BY <2>1 DEF Counted
  <2>5. CASE k # 0
    <3>1. \A j \in 1 .. m : koses'[j].expectedPackets
                              \in {c.expectedPackets, koses[j].expectedPackets}
      BY <2>1, <2>5 DEF Told
    <3> QED BY <2>1, <2>2, <2>3, <2>4, <2>5, <3>1 DEF Counted
  <2>6. CASE k = 0
    <3>1. \A j \in DOMAIN koses' : j \in 1 .. m \/ j = m + 1
      BY <2>1, <2>3, <2>6
    <3> QED BY <2>1, <2>2, <2>4, <2>6, <3>1 DEF Counted
  <2> QED BY <2>5, <2>6
<1> QED BY <1>0, <1>1, <1>2, <1>3, <1>4, StepMoves DEF FlowInv

(* As many frames as items.                                                *)
LEMMA FramesCounted ==
  ASSUME NEW S, NEW items \in Seq(S), DistinctItems(items)
  PROVE  IsFiniteSet(FramesIn(items)) /\ Cardinality(FramesIn(items)) = Len(items)
<1> DEFINE h == [i \in 1 .. Len(items) |-> FrameOf(items[i])]
<1>1. Len(items) \in Nat /\ DOMAIN items = 1 .. Len(items)
  OBVIOUS
<1>2. IsFiniteSet(1 .. Len(items)) /\ Cardinality(1 .. Len(items)) = Len(items)
  BY <1>1, FS_Interval
<1>3. h \in Bijection(1 .. Len(items), FramesIn(items))
  <2>1. h \in [1 .. Len(items) -> FramesIn(items)]
    BY <1>1 DEF FramesIn, ToSet
  <2>2. \A i, j \in 1 .. Len(items) : h[i] = h[j] => i = j
    BY <1>1 DEF DistinctItems
  <2>3. ASSUME NEW f \in FramesIn(items)
        PROVE  \E i \in 1 .. Len(items) : h[i] = f
    <3>1. PICK item \in ToSet(items) : f = FrameOf(item)
      BY DEF FramesIn
    <3>2. PICK i \in DOMAIN items : item = items[i]
      BY DEF ToSet
    <3> QED BY <1>1, <3>1, <3>2
  <2> HIDE DEF h
  <2> QED BY <2>1, <2>2, <2>3 DEF Bijection, Injection, Surjection, IsInjective
<1>4. ExistsBijection(1 .. Len(items), FramesIn(items))
  BY <1>3 DEF ExistsBijection
<1> QED BY <1>2, <1>4, FS_Bijection

(* completed() answers for all the frames of the measurement, although it  *)
(* only compares two numbers: with distinct frames, sent once and never    *)
(* repeated, of measurements that all have the same number of frames.  The *)
(* number an entry expects may be that another plume was told of.          *)
THEOREM CompletedHasAll ==
  ASSUME NoRaw, LoadIsOwn, OneYear, OneMeasurement, SentOnce, MaxRepeats = 0,
         NEW n \in Nat, Sized(n)
  PROVE  GatewaySpec => []CompletedIsWhole
<1>1. GatewayInit => FrameOnce /\ Counted(n)
  BY FrameOnceInit
  DEF GatewayInit, initLoggerParser, Init, NewCollection, Counted
<1>2. FlowInv /\ FrameOnce /\ Counted(n) /\ [GatewayNext]_gatewayVars
        => FrameOnce' /\ Counted(n)'
  BY FrameOnceStep, CountedStep
<1>3. FlowInv /\ FrameOnce /\ Counted(n) /\ OnePlume => CompletedIsWhole
  <2> SUFFICES ASSUME FlowInv, FrameOnce, Counted(n), OnePlume,
                      NEW k \in DOMAIN koses, Completed(koses[k])
               PROVE  \E f \in FramesOf(koses[k]) :
                        Measurement(f) \subseteq FramesOf(koses[k])
    BY DEF CompletedIsWhole
  <2> DEFINE items == koses[k].items
  <2>1. items \in Seq(Items)
    <3>1. koses[k] \in LoggerKosaPackets
      BY DEF FlowInv, GatewayInv, GatewayTypeOK, TypeOK
    <3> QED BY <3>1 DEF LoggerKosaPackets
  <2>2. items # <<>>
    BY DEF FlowInv, GatewayInv, ItemsAgree
  <2>3. Len(items) \in Nat /\ Len(items) >= n
    BY <2>1 DEF Completed, Counted
  <2>4. FramesOf(koses[k]) = FramesIn(items)
    BY DEF FramesOf, FramesIn, FrameOf
  <2>5. DistinctItems(items)
    BY DEF FrameOnce, OnceElsewhere
  <2> HIDE DEF items
  <2>6. IsFiniteSet(FramesIn(items)) /\ Cardinality(FramesIn(items)) = Len(items)
    BY <2>1, <2>5, FramesCounted
  <2>7. FrameOf(items[1]) \in FramesIn(items)
    BY <2>1, <2>2 DEF FramesIn, ToSet
  <2> DEFINE f == FrameOf(items[1])
  <2>8. FramesIn(items) \subseteq Sent
    BY DEF FlowInv, FramesAreSent, OwnItem, FramesIn, items
  <2>9. FramesIn(items) \subseteq Measurement(f)
    BY <2>4, <2>7, <2>8 DEF Measurement, OnePlume, OneMeasurement
  <2>10. IsFiniteSet(Measurement(f)) /\ Cardinality(Measurement(f)) = n
    BY <2>7, <2>8 DEF Sized
  <2>11. Cardinality(FramesIn(items)) <= n
    BY <2>9, <2>10, FS_Subset
  <2>12. Cardinality(FramesIn(items)) = Cardinality(Measurement(f))
    BY <2>3, <2>6, <2>10, <2>11
  <2>13. FramesIn(items) = Measurement(f)
    BY <2>9, <2>10, <2>12, FS_Subset
  <2> QED BY <2>4, <2>7, <2>13
<1> QED BY <1>1, <1>2, <1>3, FlowInvariant, PlumesAreNotMixed, PTL DEF GatewaySpec

-----------------------------------------------------------------------------
(* One logger, one measurement, frames received in the order they were     *)
(* sent: its first frame comes first.                                      *)

First(a) == Sends[a][1]

(* All that is sent is one measurement of the logger at address a, and its *)
(* first frame says of how many frames.                                    *)
OneLogger(a) ==
  /\ DOMAIN Sends = {a} /\ Sends[a] # <<>>
  /\ First(a).typ \in FirstTypes /\ First(a).packets = Cardinality(Sent)
  /\ \A i \in DOMAIN Sends[a] :
       /\ i # 1 => Sends[a][i].typ \in SecondTypes
       /\ PlumeOf(Sends[a][i]) = PlumeOf(First(a))
       /\ Sends[a][i].measure = First(a).measure

Everywhere == InAir \cup ToSet(values) \cup FramesIn(c.items) \cup InMemory

(* Nothing of the logger is filed under another plume.                     *)
DecodedAreOwn(a) == \A item \in ToSet(c.items) : PlumeOf(item.id) = PlumeOf(First(a))

(* Where the first frame is: in the air, in front of all the others; in    *)
(* front of what put() decodes; in front of what it files; in front of the *)
(* only entry; or lost for ever.                                           *)
Waiting(a) == air[a] = Sends[a] /\ values = <<>> /\ c.items = <<>> /\ koses = <<>>

Decoding(a) == values # <<>> /\ Head(values) = First(a) /\ c.items = <<>> /\ koses = <<>>

Filing(a) ==
  /\ c.items # <<>> /\ FrameOf(c.items[1]) = First(a)
  /\ c.expectedPackets = Cardinality(Sent) /\ DecodedAreOwn(a)
  /\ koses = <<>>

FirstIsFiled(a) ==
  /\ Len(koses) = 1 /\ FrameOf(koses[1].items[1]) = First(a)
  /\ PlumeOf(koses[1].id) = PlumeOf(First(a))
  /\ koses[1].expectedPackets = Cardinality(Sent)
  /\ c.expectedPackets \in {0, Cardinality(Sent)} /\ DecodedAreOwn(a)

Gone(a) == First(a) \notin Everywhere

FirstIsFirst(a) ==
  /\ air[a] = Sends[a] \/ First(a) \notin ToSet(air[a])
  /\ Waiting(a) \/ Decoding(a) \/ Filing(a) \/ FirstIsFiled(a) \/ Gone(a)

(* No step makes a frame of nothing, whatever the radio does.              *)
LEMMA FramesConserved ==
  ASSUME FlowInv, NoRaw, [GatewayNext]_gatewayVars
  PROVE  Everywhere' \subseteq Everywhere
<1>0. TypeOK /\ GatewayTypeOK /\ FramesAreSent
  BY DEF FlowInv, GatewayInv, GatewayTypeOK
<1>1. /\ InAir' = UNION {ToSet(air'[a]) : a \in DOMAIN air'}
      /\ ToSet(values)' = ToSet(values')
      /\ FramesIn(c.items)' = FramesIn(c'.items)
      /\ InMemory' = UNION {FramesIn(koses'[k].items) : k \in DOMAIN koses'}
  BY DEF InAir, InMemory, ToSet, FramesIn
<1>2. CASE NoneMoves
  <2>1. UNCHANGED <<air, values, c>>
        /\ \A k \in DOMAIN koses' : \E j \in DOMAIN koses : koses'[k].items = koses[j].items
    BY <1>2 DEF NoneMoves, SameEntry
  <2>2. InMemory' \subseteq InMemory
    BY <2>1 DEF InMemory, FramesIn
  <2>3. InAir' = InAir /\ ToSet(values)' = ToSet(values)
        /\ FramesIn(c.items)' = FramesIn(c.items)
    BY <2>1 DEF InAir, ToSet, FramesIn
  <2> QED BY <2>2, <2>3 DEF Everywhere
<1>3. CASE FramesLost
  <2>1. PICK a \in DOMAIN air : Lose(a)
    BY <1>3 DEF FramesLost
  <2>2. air[a] \in Seq(Frames) /\ air[a] # <<>> /\ air' = [air EXCEPT ![a] = Tail(air[a])]
    BY <1>0, <2>1 DEF GatewayTypeOK, Lose
  <2>3. ToSet(Tail(air[a])) \subseteq ToSet(air[a])
    BY <2>2, TailElements
  <2>4. InAir' \subseteq InAir
    BY <1>1, <2>2, <2>3 DEF InAir
  <2>5. UNCHANGED <<values, c, koses>>
    BY <1>3 DEF FramesLost
  <2>6. InMemory' = InMemory /\ ToSet(values)' = ToSet(values)
        /\ FramesIn(c.items)' = FramesIn(c.items)
    BY <2>5 DEF InMemory, ToSet, FramesIn
  <2> QED BY <2>4, <2>6 DEF Everywhere
<1>4. CASE FramesReceived
  <2>1. PICK a \in DOMAIN air : \E i \in DOMAIN air[a] : \E n \in Nat :
           /\ air[a] \in Seq(Frames) /\ n >= 1 /\ i + n - 1 <= Len(air[a])
           /\ ToSet(values') \subseteq ToSet(air[a])
           /\ air' = [air EXCEPT ![a] = RestOf(air[a], i, n)] \/ air' = air
    BY <1>0, <1>4, ReceivedFrames
  <2>2. PICK i \in DOMAIN air[a], n \in Nat :
           /\ air[a] \in Seq(Frames) /\ n >= 1 /\ i + n - 1 <= Len(air[a])
           /\ ToSet(values') \subseteq ToSet(air[a])
           /\ air' = [air EXCEPT ![a] = RestOf(air[a], i, n)] \/ air' = air
    BY <2>1
  <2>3. ToSet(RestOf(air[a], i, n)) \subseteq ToSet(air[a])
    BY <2>2, RestElements
  <2>4. \A b \in DOMAIN air' : b \in DOMAIN air /\ ToSet(air'[b]) \subseteq ToSet(air[b])
    BY <2>2, <2>3
  <2>5. InAir' \subseteq InAir /\ ToSet(values') \subseteq InAir
    BY <1>1, <2>2, <2>4 DEF InAir
  <2>6. UNCHANGED <<c, koses>>
    BY <1>4 DEF FramesReceived
  <2>7. InMemory' = InMemory /\ FramesIn(c.items)' = FramesIn(c.items)
    BY <2>6 DEF InMemory, FramesIn
  <2> QED BY <1>1, <2>5, <2>7 DEF Everywhere
<1>5. CASE FrameDecoded
  <2> DEFINE f == Head(values)
  <2>1. /\ values \in Seq(Frames) /\ values # <<>> /\ values' = Tail(values)
        /\ c.items \in Seq(Items)
        /\ c'.items = c.items \/ c'.items = Append(c.items, ItemOf(f))
    BY <1>0, <1>5, DecodedFrame
  <2>2. UNCHANGED <<air, koses>>
    BY <1>5 DEF FrameDecoded
  <2>3. ToSet(values') \subseteq ToSet(values) /\ f \in ToSet(values)
    BY <2>1, TailElements
  <2>4. FrameOf(ItemOf(f)) = f
    BY DEF FrameOf, ItemOf
  <2> HIDE DEF f
  <2>5. FramesIn(Append(c.items, ItemOf(f))) = FramesIn(c.items) \cup {f}
    BY <2>1, <2>4, DistinctAppend
  <2>6. FramesIn(c'.items) \subseteq FramesIn(c.items) \cup {f}
    BY <2>1, <2>5
  <2>7. InAir' = InAir /\ InMemory' = InMemory
    BY <2>2 DEF InAir, InMemory, FramesIn
  <2> QED BY <1>1, <2>3, <2>6, <2>7 DEF Everywhere
<1>6. CASE ItemFiled
  <2> DEFINE item == Head(c.items)
  <2>1. /\ c.items \in Seq(Items) /\ c.items # <<>> /\ item \in ToSet(c.items)
        /\ c'.items = Tail(c.items)
        /\ \A k \in DOMAIN koses' :
             \/ k \in DOMAIN koses /\ koses'[k].items = koses[k].items
             \/ k \in DOMAIN koses /\ koses'[k].items = Append(koses[k].items, item)
             \/ koses'[k].items = <<item>>
    BY <1>0, <1>6, FiledItem
  <2>2. UNCHANGED <<air, values>>
    BY <1>6 DEF ItemFiled
  <2>3. ToSet(c'.items) \subseteq ToSet(c.items)
    BY <2>1, TailElements
  <2>4. FramesIn(c'.items) \subseteq FramesIn(c.items) /\ FrameOf(item) \in FramesIn(c.items)
    BY <2>1, <2>3 DEF FramesIn
  <2> HIDE DEF item
  <2>5. ASSUME NEW k \in DOMAIN koses
        PROVE  FramesIn(Append(koses[k].items, item))
                 = FramesIn(koses[k].items) \cup {FrameOf(item)}
    <3>1. koses[k] \in LoggerKosaPackets
      BY <1>0 DEF TypeOK
    <3>2. koses[k].items \in Seq(Items)
      BY <3>1 DEF LoggerKosaPackets
    <3> QED BY <3>2, DistinctAppend
  <2>6. FramesIn(<<item>>) = {FrameOf(item)}
    BY DEF FramesIn, ToSet
  <2>7. ASSUME NEW k \in DOMAIN koses'
        PROVE  FramesIn(koses'[k].items) \subseteq InMemory \cup {FrameOf(item)}
    <3>1. CASE k \in DOMAIN koses /\ koses'[k].items = koses[k].items
      BY <3>1 DEF InMemory
    <3>2. CASE k \in DOMAIN koses /\ koses'[k].items = Append(koses[k].items, item)
      BY <2>5, <3>2 DEF InMemory
    <3>3. CASE koses'[k].items = <<item>>
      BY <2>6, <3>3
    <3> QED BY <2>1, <3>1, <3>2, <3>3
  <2>8. InMemory' \subseteq InMemory \cup {FrameOf(item)}
    BY <1>1, <2>7
  <2>9. InAir' = InAir
    BY <2>2 DEF InAir
  <2> QED BY <1>1, <2>2, <2>4, <2>8, <2>9 DEF Everywhere
<1> QED BY <1>2, <1>3, <1>4, <1>5, <1>6, StepMoves DEF FlowInv

LEMMA OneLoggerFacts ==
  ASSUME NEW a, OneLogger(a)
  PROVE  /\ Sends[a] \in Seq(Frames) /\ DOMAIN Sends = {a}
         /\ NoRaw /\ First(a) \in Sent
         /\ \A f \in Sent : /\ PlumeOf(f) = PlumeOf(First(a))
                            /\ f = First(a) \/ f.typ \in SecondTypes
                            /\ Measurement(f) = Sent
         /\ \A i \in DOMAIN Sends[a] : i # 1 => Sends[a][i] # First(a)
         /\ IsFiniteSet(Sent) /\ Cardinality(Sent) \in Nat \ {0}
<1>1. Sends[a] \in Seq(Frames) /\ DOMAIN Sends = {a} /\ Sends[a] # <<>>
  BY SendsAssumption DEF OneLogger
<1>2. Sent = ToSet(Sends[a])
  BY <1>1 DEF Sent
<1>3. Len(Sends[a]) \in Nat /\ DOMAIN Sends[a] = 1 .. Len(Sends[a]) /\ 1 \in DOMAIN Sends[a]
  BY <1>1
<1>4. First(a) \in Sent
  BY <1>2, <1>3 DEF First, ToSet
<1>5. \A f \in Sent : \E i \in DOMAIN Sends[a] : f = Sends[a][i]
  BY <1>2 DEF ToSet
<1>6. \A f \in Sent : /\ PlumeOf(f) = PlumeOf(First(a))
                      /\ f.measure = First(a).measure
                      /\ f = First(a) \/ f.typ \in SecondTypes
  BY <1>5 DEF OneLogger, First
<1>7. NoRaw
  BY <1>6 DEF NoRaw, OneLogger, FirstTypes, SecondTypes
<1>8. \A f \in Sent : Measurement(f) = Sent
  BY <1>6 DEF Measurement
<1>9. \A i \in DOMAIN Sends[a] : i # 1 => Sends[a][i] # First(a)
  BY DEF OneLogger, FirstTypes, SecondTypes
<1>10. IsFiniteSet(Sent)
  <2> DEFINE s == Sends[a]
  <2>1. s \in [1 .. Len(s) -> Sent]
    BY <1>1, <1>2, <1>3 DEF ToSet
  <2>2. s \in Surjection(1 .. Len(s), Sent)
    BY <1>2, <1>3, <2>1 DEF Surjection, ToSet
  <2>3. IsFiniteSet(1 .. Len(s))
    BY <1>3, FS_Interval
  <2> HIDE DEF s
  <2> QED BY <2>2, <2>3, FS_Surjection
<1>11. Cardinality(Sent) \in Nat \ {0}
  BY <1>4, <1>10, FS_CardinalityType, FS_EmptySet
<1> QED BY <1>1, <1>4, <1>6, <1>7, <1>8, <1>9, <1>10, <1>11

(* Behind the first frame a next one is taken for one of the same plume.   *)
LEMMA NextIsOwn ==
  ASSUME NEW a, OneLogger(a), LoadIsOwn, FlowInv, NEW f \in Sent,
         f = First(a) \/ Filing(a) \/ FirstIsFiled(a)
  PROVE  PlumeOf(ItemId(f)) = PlumeOf(First(a))
<1>0. TypeOK /\ FramesAreSent
  BY DEF FlowInv, GatewayInv, GatewayTypeOK
<1>1. /\ PlumeOf(f) = PlumeOf(First(a)) /\ (f = First(a) \/ f.typ \in SecondTypes)
      /\ First(a).typ \in FirstTypes
      /\ \A g \in Sent : PlumeOf(g) = PlumeOf(First(a))
  BY OneLoggerFacts DEF OneLogger
<1>2. f.kosa = First(a).kosa /\ f.kosa_year = First(a).kosa_year
      /\ \A g \in Sent : g.kosa_year = First(a).kosa_year
  BY <1>1 DEF PlumeOf
<1>3. CASE f.typ \in FirstTypes
  BY <1>2, <1>3 DEF ItemId, PlumeOf
<1>4. CASE f.typ \notin FirstTypes /\ f.typ \in {"DELTA_2", "HUFF_2"} /\ f.addr \in DOMAIN Load
  BY <1>1, <1>4 DEF ItemId, LoadIsOwn
<1>5. CASE f.typ \notin FirstTypes /\ ~(f.typ \in {"DELTA_2", "HUFF_2"} /\ f.addr \in DOMAIN Load)
  <2> DEFINE own == getFirstHeader(c.items)
             h == IF own # {} THEN own ELSE getCollectedFirstHeader(f.kosa)
  <2>1. own = {} \/ \E g \in Sent : own = {g}
    <3>1. CASE c.items = <<>>
      BY <3>1 DEF getFirstHeader
    <3>2. CASE c.items # <<>>
      <4>1. c.items \in Seq(Items)
        BY <1>0 DEF TypeOK
      <4>2. c.items[1] \in ToSet(c.items)
        BY <3>2, <4>1, TailElements
      <4>3. FrameOf(c.items[1]) \in Sent
        BY <1>0, <4>2 DEF FramesAreSent, OwnItem
      <4> QED BY <3>2, <4>3 DEF getFirstHeader, extractFirstHdr, FrameOf
    <3> QED BY <3>1, <3>2
  <2>2. CASE Filing(a)
    <3>1. own = {First(a)}
      BY <1>1, <2>2 DEF Filing, FrameOf, getFirstHeader, extractFirstHdr
    <3> QED BY <1>2, <1>5, <3>1, OneLoggerFacts DEF ItemId, PlumeOf, getKosaYear
  <2>3. CASE FirstIsFiled(a)
    <3> DEFINE id == [kosa |-> f.kosa, kosa_year |-> NO_MATCH_YEAR, measure |-> 0]
    <3>1. koses \in Seq(LoggerKosaPackets) /\ Len(koses) = 1 /\ DOMAIN koses = {1}
      BY <1>0, <2>3 DEF FirstIsFiled, TypeOK
    <3>2. Matches(koses[1], id)
      BY <1>2, <2>3 DEF FirstIsFiled, Matches, PlumeOf
    <3>3. Find(id) \in 0 .. 1 /\ (Find(id) = 0 => ~Matches(koses[1], id))
      BY <3>1, FindProperties
    <3>4. Find(id) = 1
      BY <3>2, <3>3
    <3>5. koses[1].items # <<>>
      BY <3>1 DEF FlowInv, GatewayInv, ItemsAgree
    <3>6. getCollectedFirstHeader(f.kosa) = {First(a)}
      BY <1>1, <2>3, <3>4, <3>5
      DEF FirstIsFiled, getCollectedFirstHeader, getFirstHeader, extractFirstHdr, FrameOf
    <3>7. \E g \in Sent : h = {g}
      BY <2>1, <3>6, OneLoggerFacts
    <3>8. getKosaYear(f) = First(a).kosa_year
      <4>1. PICK g \in Sent : h = {g}
        BY <3>7
      <4>2. getKosaYear(f) = (CHOOSE first \in {g} : TRUE).kosa_year
        BY <4>1 DEF getKosaYear
      <4> QED BY <1>2, <4>2
    <3> QED BY <1>2, <1>5, <3>8 DEF ItemId, PlumeOf
  <2>4. CASE f = First(a)
    BY <1>1, <1>5, <2>4
  <2> QED BY <2>2, <2>3, <2>4
<1> QED BY <1>3, <1>4, <1>5

LEMMA FirstIsFirstInit ==
  ASSUME NEW a, OneLogger(a), GatewayInit
  PROVE  FirstIsFirst(a)
BY DEF GatewayInit, initLoggerParser, Init, NewCollection, FirstIsFirst, Waiting

(* The first frame leaves the air before any other.                        *)
LEMMA FirstLeavesFirst ==
  ASSUME NEW a, OneLogger(a), GatewayTypeOK, NEW n \in Nat, n >= 1, n <= Len(air[a]),
         air[a] = Sends[a] \/ First(a) \notin ToSet(air[a]),
         a \in DOMAIN air, air[a] # <<>>
  PROVE  /\ First(a) \notin ToSet(RestOf(air[a], 1, n))
         /\ First(a) \notin ToSet(Tail(air[a]))
<1>1. air[a] \in Seq(Frames) /\ 1 \in DOMAIN air[a]
  BY DEF GatewayTypeOK
<1>2. /\ \A k \in DOMAIN RestOf(air[a], 1, n) :
           LET j == IF k < 1 THEN k ELSE k + n
           IN  j \in DOMAIN air[a] /\ j \notin 1 .. 1 + n - 1
               /\ RestOf(air[a], 1, n)[k] = air[a][j]
      /\ ToSet(RestOf(air[a], 1, n)) \subseteq ToSet(air[a])
  <2>1. 1 + n - 1 <= Len(air[a])
    BY <1>1
  <2> QED BY <1>1, <2>1, RestElements
<1>3. /\ Tail(air[a]) \in Seq(Frames)
      /\ \A i \in DOMAIN Tail(air[a]) : i + 1 \in DOMAIN air[a] /\ Tail(air[a])[i] = air[a][i + 1]
      /\ ToSet(Tail(air[a])) \subseteq ToSet(air[a])
  BY <1>1, TailElements
<1>4. CASE air[a] = Sends[a]
  <2>1. \A i \in DOMAIN air[a] : i # 1 => air[a][i] # First(a)
    BY <1>4, OneLoggerFacts
  <2>2. ASSUME NEW k \in DOMAIN RestOf(air[a], 1, n)
        PROVE  RestOf(air[a], 1, n)[k] # First(a)
    <3> DEFINE j == IF k < 1 THEN k ELSE k + n
    <3>1. j \in DOMAIN air[a] /\ j \notin 1 .. 1 + n - 1 /\ RestOf(air[a], 1, n)[k] = air[a][j]
      BY <1>2
    <3>2. 1 \in 1 .. 1 + n - 1
      OBVIOUS
    <3> HIDE DEF j
    <3> QED BY <2>1, <3>1, <3>2
  <2>3. ASSUME NEW k \in DOMAIN Tail(air[a])
        PROVE  Tail(air[a])[k] # First(a)
    <3>1. k + 1 # 1 /\ k + 1 \in DOMAIN air[a]
      BY <1>3
    <3> QED BY <1>3, <2>1, <3>1
  <2> QED BY <2>2, <2>3 DEF ToSet
<1>5. CASE First(a) \notin ToSet(air[a])
  BY <1>2, <1>3, <1>5
<1> QED BY <1>4, <1>5

LEMMA FirstIsFirstStep ==
  ASSUME NEW a, OneLogger(a), LoadIsOwn, ~Reorders, FlowInv, FirstIsFirst(a),
         [GatewayNext]_gatewayVars
  PROVE  FirstIsFirst(a)'
<1> DEFINE N == Cardinality(Sent)
<1>0. /\ TypeOK /\ GatewayTypeOK /\ FramesAreSent /\ koses \in Seq(LoggerKosaPackets)
      /\ DOMAIN air = {a} /\ c.items \in Seq(Items)
  BY OneLoggerFacts DEF FlowInv, GatewayInv, GatewayTypeOK, TypeOK
<1>1. NoRaw /\ N \in Nat \ {0}
  BY OneLoggerFacts
<1>2. Gone(a) => Gone(a)'
  BY <1>1, FramesConserved DEF Gone, First
<1>3. CASE NoneMoves
  <2>1. /\ UNCHANGED <<air, values, c>>
        /\ Len(koses') <= Len(koses) /\ (Len(koses') < Len(koses) => Quiet)
        /\ \A k \in DOMAIN koses' : \E j \in DOMAIN koses : SameEntry(koses'[k], koses[j])
    BY <1>3 DEF NoneMoves
  <2>2. koses' \in Seq(LoggerKosaPackets)
    BY <1>0, GatewayInvStep DEF FlowInv, GatewayInv, GatewayTypeOK, TypeOK
  <2>3. CASE koses = <<>>
    <3>1. Len(koses') = 0
      BY <2>1, <2>2, <2>3
    <3>2. koses' = <<>>
      BY <2>2, <3>1, EmptySeq
    <3>3. (Waiting(a) => Waiting(a)') /\ (Decoding(a) => Decoding(a)')
          /\ (Filing(a) => Filing(a)') /\ ~FirstIsFiled(a)
      BY <2>1, <2>3, <3>2 DEF Waiting, Decoding, Filing, FirstIsFiled, DecodedAreOwn, First
    <3> QED BY <1>2, <2>1, <3>3 DEF FirstIsFirst, First
  <2>4. CASE FirstIsFiled(a) /\ Len(koses') = 1
    <3>1. DOMAIN koses = {1} /\ DOMAIN koses' = {1}
      BY <1>0, <2>2, <2>4 DEF FirstIsFiled
    <3>2. SameEntry(koses'[1], koses[1])
      BY <2>1, <3>1
    <3>3. FirstIsFiled(a)'
      BY <2>1, <2>4, <3>2 DEF FirstIsFiled, SameEntry, DecodedAreOwn, First
    <3> QED BY <2>1, <3>3 DEF FirstIsFirst, First
  <2>5. CASE FirstIsFiled(a) /\ Len(koses') # 1
    <3>1. Len(koses') = 0 /\ Quiet
      BY <1>0, <2>1, <2>2, <2>5 DEF FirstIsFiled
    <3>2. koses' = <<>> /\ values' = <<>> /\ c'.items = <<>>
      BY <2>1, <2>2, <3>1, EmptySeq DEF Quiet
    <3>3. CASE air[a] = Sends[a]
      <4>1. Waiting(a)'
        BY <2>1, <3>2, <3>3 DEF Waiting
      <4> QED BY <2>1, <3>3, <4>1 DEF FirstIsFirst
    <3>4. CASE First(a) \notin ToSet(air[a])
      <4>1. First(a) \notin InAir /\ InAir' = InAir
        BY <1>0, <2>1, <3>4 DEF InAir
      <4>2. ToSet(values)' = {} /\ FramesIn(c.items)' = {} /\ InMemory' = {}
        BY <3>2 DEF ToSet, FramesIn, InMemory
      <4>3. Gone(a)'
        BY <4>1, <4>2 DEF Gone, Everywhere, First
      <4> QED BY <2>1, <3>4, <4>3 DEF FirstIsFirst, First
    <3> QED BY <3>3, <3>4 DEF FirstIsFirst
  <2>6. CASE Gone(a)
    BY <1>2, <2>1, <2>6 DEF FirstIsFirst, First
  <2> QED BY <2>3, <2>4, <2>5, <2>6 DEF FirstIsFirst, Waiting, Decoding, Filing
<1>4. CASE FramesLost
  <2>1. Lose(a) /\ UNCHANGED <<values, c, koses>>
    BY <1>0, <1>4 DEF FramesLost
  <2>2. air[a] \in Seq(Frames) /\ air[a] # <<>> /\ air' = [air EXCEPT ![a] = Tail(air[a])]
    BY <1>0, <2>1 DEF GatewayTypeOK, Lose
  <2>3. First(a) \notin ToSet(air'[a])
    <3>1. Len(air[a]) \in Nat /\ 1 <= Len(air[a]) /\ a \in DOMAIN air
      BY <1>0, <2>2
    <3> QED BY <1>0, <2>2, <3>1, FirstLeavesFirst DEF FirstIsFirst
  <2>4. CASE Waiting(a)
    <3>1. First(a) \notin InAir'
      BY <1>0, <2>2, <2>3 DEF InAir
    <3>2. ToSet(values)' = {} /\ FramesIn(c.items)' = {} /\ InMemory' = {}
      BY <2>1, <2>4 DEF ToSet, FramesIn, InMemory, Waiting
    <3>3. Gone(a)'
      BY <3>1, <3>2 DEF Gone, Everywhere, First
    <3> QED BY <2>3, <3>3 DEF FirstIsFirst, First
  <2>5. CASE Decoding(a) \/ Filing(a) \/ FirstIsFiled(a)
    BY <2>1, <2>3, <2>5
    DEF FirstIsFirst, Decoding, Filing, FirstIsFiled, DecodedAreOwn, First
  <2> QED BY <1>2, <2>3, <2>4, <2>5 DEF FirstIsFirst, First
<1>5. CASE FramesReceived
  <2>1. /\ Quiet /\ UNCHANGED <<c, koses>>
        /\ \E b \in DOMAIN air : \E i \in DOMAIN air[b] : \E n \in Nat :
             /\ air[b] \in Seq(Frames) /\ n >= 1 /\ i + n - 1 <= Len(air[b])
             /\ i \in Nat /\ i >= 1 /\ i + n - 1 \in Nat
             /\ i = 1 \/ Reorders
             /\ values' = SubSeq(air[b], i, i + n - 1)
             /\ ToSet(values') \subseteq ToSet(air[b])
             /\ \/ air' = [air EXCEPT ![b] = RestOf(air[b], i, n)]
                \/ air' = air /\ repeats < MaxRepeats
    BY <1>0, <1>5, ReceivedFrames DEF FramesReceived
  <2>2. PICK i \in DOMAIN air[a], n \in Nat :
             /\ air[a] \in Seq(Frames) /\ n >= 1 /\ i + n - 1 <= Len(air[a])
             /\ i + n - 1 \in Nat /\ i = 1
             /\ values' = SubSeq(air[a], i, i + n - 1)
             /\ air' = [air EXCEPT ![a] = RestOf(air[a], i, n)] \/ air' = air
    BY <1>0, <2>1
  <2>3. n <= Len(air[a]) /\ 1 + n - 1 = n /\ air[a] # <<>> /\ values' = SubSeq(air[a], 1, n)
    BY <2>2
  <2>4. air'[a] = air[a] \/ First(a) \notin ToSet(air'[a])
    <3>1. air'[a] = air[a] \/ air'[a] = RestOf(air[a], 1, n)
      BY <1>0, <2>2
    <3> QED BY <1>0, <2>2, <2>3, <3>1, FirstLeavesFirst DEF FirstIsFirst
  <2>5. (air[a] = Sends[a] \/ First(a) \notin ToSet(air[a]))'
    BY <2>4 DEF FirstIsFirst, First
  <2>6. CASE Waiting(a)
    <3>1. values' \in Seq(Frames) /\ Len(values') = n
      BY <2>2, <2>3, SubSeqElements
    <3>2. values' # <<>> /\ Head(values') = air[a][1]
      <4>1. 1 \in DOMAIN values'
        BY <2>2, <3>1
      <4>2. values'[1] = air[a][1 + 1 - 1]
        BY <2>2, <2>3, <4>1, SubSeqElements
      <4> QED BY <3>1, <4>1, <4>2, TailElements
    <3>3. Decoding(a)'
      BY <2>1, <2>6, <3>2 DEF Waiting, Decoding, First
    <3> QED BY <2>5, <3>3 DEF FirstIsFirst
  <2>7. CASE FirstIsFiled(a)
    <3>1. FirstIsFiled(a)'
      BY <2>1, <2>7 DEF FirstIsFiled, DecodedAreOwn, First
    <3> QED BY <2>5, <3>1 DEF FirstIsFirst
  <2>8. ~Decoding(a) /\ ~Filing(a)
    BY <2>1 DEF Quiet, Decoding, Filing
  <2> QED BY <1>2, <2>5, <2>6, <2>7, <2>8 DEF FirstIsFirst
<1>6. CASE FrameDecoded
  <2> DEFINE f == Head(values)
  <2>1. /\ values \in Seq(Frames) /\ values # <<>> /\ values' = Tail(values)
        /\ f \in Sent
        /\ \/ c' = c /\ f.typ = "UNKNOWN"
           \/ /\ c'.items = Append(c.items, ItemOf(f))
              /\ c'.expectedPackets = IF f.typ \in FirstTypes THEN f.packets
                                      ELSE c.expectedPackets
    BY <1>0, <1>1, <1>6, DecodedFrame
  <2>2. UNCHANGED <<air, koses>>
    BY <1>6 DEF FrameDecoded
  <2>3. /\ f = First(a) \/ f.typ \in SecondTypes
        /\ First(a).typ \in FirstTypes /\ First(a).packets = N
    BY <2>1, OneLoggerFacts DEF OneLogger
  <2>4. /\ c'.items = Append(c.items, ItemOf(f))
        /\ f = First(a) => c'.expectedPackets = N
        /\ f # First(a) => c'.expectedPackets = c.expectedPackets
    BY <2>1, <2>3 DEF FirstTypes, SecondTypes
  <2>5. /\ c'.items # <<>>
        /\ ToSet(c'.items) = ToSet(c.items) \cup {ItemOf(f)}
        /\ c.items # <<>> => c'.items[1] = c.items[1]
        /\ c.items = <<>> => c'.items[1] = ItemOf(f)
    <3>1. /\ c'.items # <<>> /\ ToSet(c'.items) = ToSet(c.items) \cup {ItemOf(f)}
          /\ \A i \in 1 .. Len(c.items) : c'.items[i] = c.items[i]
          /\ c'.items[Len(c.items) + 1] = ItemOf(f)
      BY <1>0, <2>4, AppendElements
    <3>2. c.items # <<>> => 1 \in 1 .. Len(c.items)
      BY <1>0
    <3>3. c.items = <<>> => Len(c.items) + 1 = 1
      OBVIOUS
    <3> QED BY <3>1, <3>2, <3>3
  <2>6. FrameOf(ItemOf(f)) = f /\ ItemOf(f).id = ItemId(f)
    BY DEF FrameOf, ItemOf
  <2> HIDE DEF f
  <2>7. f = First(a) \/ Filing(a) \/ FirstIsFiled(a)
          => PlumeOf(ItemOf(f).id) = PlumeOf(First(a))
    BY <2>1, <2>6, NextIsOwn
  <2>8. CASE Decoding(a)
    <3>1. f = First(a) /\ ToSet(c.items) = {}
      BY <2>8 DEF Decoding, f, ToSet
    <3>2. DecodedAreOwn(a)'
      BY <2>5, <2>7, <3>1 DEF DecodedAreOwn, First, ToSet
    <3>3. Filing(a)'
      BY <2>2, <2>4, <2>5, <2>6, <2>8, <3>1, <3>2 DEF Decoding, Filing, First, FrameOf
    <3> QED BY <2>2, <3>3 DEF FirstIsFirst, First
  <2>9. CASE Filing(a) \/ FirstIsFiled(a)
    <3>1. DecodedAreOwn(a)'
      BY <2>5, <2>7, <2>9 DEF DecodedAreOwn, Filing, FirstIsFiled, First, ToSet
    <3>2. Filing(a) => Filing(a)'
      BY <2>2, <2>4, <2>5, <3>1 DEF Filing, First, FrameOf
    <3>3. FirstIsFiled(a) => FirstIsFiled(a)'
      BY <2>2, <2>4, <3>1 DEF FirstIsFiled, First, FrameOf
    <3> QED BY <2>2, <2>9, <3>2, <3>3 DEF FirstIsFirst, First
  <2>10. ~Waiting(a)
    BY <2>1 DEF Waiting
  <2> QED BY <1>2, <2>2, <2>8, <2>9, <2>10 DEF FirstIsFirst, First
<1>7. CASE ItemFiled
  <2> DEFINE item == Head(c.items)
             k == Find(item.id)
             m == Len(koses)
  <2>1. /\ c.items # <<>> /\ item \in ToSet(c.items) /\ c'.items = Tail(c.items)
    BY <1>0, <1>7, FiledItem
  <2>2. /\ values = <<>> /\ UNCHANGED <<air, values>>
        /\ c'.expectedPackets \in {0, c.expectedPackets}
    BY <1>7 DEF ItemFiled, AddItem, NewCollection
  <2>3. /\ item \in Items
        /\ koses' \in Seq(LoggerKosaPackets)
        /\ Len(koses') = IF k = 0 THEN m + 1 ELSE m
        /\ \A j \in 1 .. m : koses'[j].id = koses[j].id
        /\ k # 0 => koses'[k].items = IF PlumeOf(item.id) = PlumeOf(koses[k].id)
                                      THEN Append(koses[k].items, item)
                                      ELSE koses[k].items
        /\ k = 0 => koses'[m + 1].id = item.id /\ koses'[m + 1].items = <<item>>
        /\ k # 0 => \A j \in 1 .. m :
             koses'[j].expectedPackets = IF j = k THEN Told(koses[j].expectedPackets)
                                         ELSE koses[j].expectedPackets
        /\ k = 0 /\ m = 0 => koses'[1].expectedPackets = c.expectedPackets
    BY <1>0, <1>7, AddItemProperties DEF ItemFiled
  <2>4. k \in 0 .. m /\ (k = 0 => \A j \in DOMAIN koses : ~Matches(koses[j], item.id))
    BY <1>0, FindProperties
  <2>5. ToSet(c'.items) \subseteq ToSet(c.items) /\ item = c.items[1]
    BY <1>0, <2>1, TailElements
  <2> HIDE DEF item, k, m
  <2>6. CASE Filing(a)
    <3>1. m = 0 /\ k = 0
      BY <2>4, <2>6 DEF Filing, m
    <3>2. Len(koses') = 1 /\ koses'[1].id = item.id /\ koses'[1].items = <<item>>
          /\ koses'[1].expectedPackets = c.expectedPackets
      BY <2>3, <3>1
    <3>3. DecodedAreOwn(a)'
      BY <2>5, <2>6 DEF Filing, DecodedAreOwn, First, ToSet
    <3>4. FrameOf(koses'[1].items[1]) = First(a)
      BY <2>5, <2>6, <3>2 DEF Filing
    <3>5. PlumeOf(koses'[1].id) = PlumeOf(First(a))
      BY <2>1, <2>6, <3>2 DEF Filing, DecodedAreOwn
    <3>6. FirstIsFiled(a)'
      BY <2>2, <2>6, <3>2, <3>3, <3>4, <3>5 DEF Filing, FirstIsFiled, First, FrameOf
    <3> QED BY <2>2, <3>6 DEF FirstIsFirst, First
  <2>7. CASE FirstIsFiled(a)
    <3>1. m = 1 /\ DOMAIN koses = {1}
      BY <1>0, <2>7 DEF FirstIsFiled, m
    <3>2. PlumeOf(item.id) = PlumeOf(koses[1].id)
      BY <2>1, <2>7 DEF FirstIsFiled, DecodedAreOwn
    <3>3. Matches(koses[1], item.id)
      BY <3>2 DEF Matches, PlumeOf
    <3>4. k = 1
      BY <2>4, <3>1, <3>3
    <3>5. Len(koses') = 1 /\ koses'[1].id = koses[1].id
          /\ koses'[1].items = Append(koses[1].items, item)
          /\ koses'[1].expectedPackets = Told(koses[1].expectedPackets)
      BY <2>3, <3>1, <3>2, <3>4
    <3>6. koses'[1].items[1] = koses[1].items[1]
      <4>0. koses[1].items # <<>>
        BY <3>1 DEF FlowInv, GatewayInv, ItemsAgree
      <4>1. koses[1] \in LoggerKosaPackets
        <5>1. koses \in Seq(LoggerKosaPackets) /\ Len(koses) = 1
          BY <1>0, <2>7 DEF FirstIsFiled
        <5> QED BY ONLY <5>1, ElementOfSeq
      <4> DEFINE old == koses[1].items
      <4>2. old \in Seq(Items) /\ old # <<>>
        BY <4>0, <4>1 DEF LoggerKosaPackets
      <4> HIDE DEF old
      <4>3. 1 \in 1 .. Len(old)
        BY <4>2
      <4>4. Append(old, item)[1] = old[1]
        BY <4>2, <4>3, AppendElements
      <4> QED BY <3>5, <4>4 DEF old
    <3>7. koses'[1].expectedPackets = N
      BY <2>7, <3>5 DEF FirstIsFiled, Told
    <3>8. FirstIsFiled(a)'
      BY <2>1, <2>2, <2>5, <2>7, <3>5, <3>6, <3>7
      DEF FirstIsFiled, DecodedAreOwn, First, FrameOf, ToSet
    <3> QED BY <2>2, <3>8 DEF FirstIsFirst, First
  <2>8. ~Waiting(a) /\ ~Decoding(a)
    BY <2>1 DEF Waiting, Decoding
  <2> QED BY <1>2, <2>2, <2>6, <2>7, <2>8 DEF FirstIsFirst, First
<1> QED BY <1>1, <1>3, <1>4, <1>5, <1>6, <1>7, StepMoves DEF FlowInv

(* "When last packet has been received, it can be stored in the database": *)
(* once put() has returned with the last frame of a measurement in memory, *)
(* its entry is completed.  For one logger whose frames the radio may lose *)
(* and repeat but not reorder: the first frame is the first in memory, so  *)
(* the number of packets it tells is stored in its own entry.  With a      *)
(* second logger it is not so (run GatewayTwoLoggersCompleted).            *)
THEOREM LastFrameCompletes ==
  ASSUME NEW a, OneLogger(a), LoadIsOwn, ~Reorders
  PROVE  GatewaySpec => []ReceivedIsCompleted
<1>1. GatewayInit => FirstIsFirst(a)
  BY FirstIsFirstInit
<1>2. FlowInv /\ FirstIsFirst(a) /\ [GatewayNext]_gatewayVars => FirstIsFirst(a)'
  BY FirstIsFirstStep
<1>3. FlowInv /\ FirstIsFirst(a) => ReceivedIsCompleted
  <2> DEFINE held == UNION {FramesOf(koses[k]) : k \in DOMAIN koses}
  <2> SUFFICES ASSUME FlowInv, FirstIsFirst(a), Idle, NEW f \in held,
                      Measurement(f) \subseteq held
               PROVE  \E k \in DOMAIN koses :
                        f \in FramesOf(koses[k]) /\ Completed(koses[k])
    BY DEF ReceivedIsCompleted
  <2>1. koses \in Seq(LoggerKosaPackets) /\ FramesAreSent
    BY DEF FlowInv, GatewayInv, GatewayTypeOK, TypeOK
  <2>2. \A k \in DOMAIN koses : FramesOf(koses[k]) = FramesIn(koses[k].items)
    BY DEF FramesOf, FramesIn, FrameOf
  <2>3. held = InMemory
    BY <2>2 DEF InMemory
  <2>4. f \in Sent
    BY <2>1, <2>3 DEF InMemory, FramesIn, FramesAreSent, OwnItem
  <2>5. /\ Sent \subseteq held /\ First(a) \in held
        /\ IsFiniteSet(Sent) /\ Cardinality(Sent) \in Nat \ {0}
    <3> HIDE DEF held
    <3>1. Measurement(f) = Sent /\ First(a) \in Sent
          /\ IsFiniteSet(Sent) /\ Cardinality(Sent) \in Nat \ {0}
      BY <2>4, OneLoggerFacts
    <3> QED BY <3>1
  <2>6. FirstIsFiled(a)
    <3>1. ~Gone(a)
      BY <2>3, <2>5 DEF Gone, Everywhere
    <3>2. koses # <<>>
      OBVIOUS
    <3> QED BY <3>1, <3>2 DEF FirstIsFirst, Waiting, Decoding, Filing
  <2>7. DOMAIN koses = {1} /\ koses[1] \in LoggerKosaPackets
    BY <2>1, <2>6 DEF FirstIsFiled
  <2> DEFINE items == koses[1].items
  <2>8. items \in Seq(Items)
    BY <2>7 DEF LoggerKosaPackets
  <2>9. held = FramesIn(items)
    BY <2>2, <2>7
  <2> HIDE DEF items, held
  <2>10. Len(items) \in Nat /\ DOMAIN items = 1 .. Len(items)
    BY <2>8
  <2>11. IsFiniteSet(held) /\ Cardinality(held) <= Len(items)
    <3> DEFINE h == [i \in 1 .. Len(items) |-> FrameOf(items[i])]
    <3>1. h \in [1 .. Len(items) -> held]
      BY <2>9, <2>10 DEF FramesIn, ToSet
    <3>2. ASSUME NEW g \in held
          PROVE  \E i \in 1 .. Len(items) : h[i] = g
      <4>1. PICK item \in ToSet(items) : g = FrameOf(item)
        BY <2>9 DEF FramesIn
      <4>2. PICK i \in DOMAIN items : item = items[i]
        BY DEF ToSet
      <4> QED BY <2>10, <4>1, <4>2
    <3> HIDE DEF h
    <3>3. h \in Surjection(1 .. Len(items), held)
      BY <3>1, <3>2 DEF Surjection
    <3> DEFINE l == Len(items)
    <3> HIDE DEF l
    <3>4. IsFiniteSet(1 .. l) /\ Cardinality(1 .. l) = l
      <4>1. l \in Nat
        BY <2>10 DEF l
      <4>2. IsFiniteSet(1 .. l) /\ Cardinality(1 .. l) = IF 1 > l THEN 0 ELSE l - 1 + 1
        BY <4>1, FS_Interval
      <4> QED BY ONLY <4>1, <4>2
    <3> USE DEF l
    <3> QED BY <3>3, <3>4, FS_Surjection
  <2>12. Cardinality(Sent) <= Cardinality(held) /\ Cardinality(held) \in Nat
    BY <2>5, <2>11, FS_Subset, FS_CardinalityType
  <2>13. Len(items) >= Cardinality(Sent)
    BY <2>5, <2>10, <2>11, <2>12
  <2>14. Completed(koses[1])
    BY <2>5, <2>6, <2>13 DEF Completed, FirstIsFiled, items
  <2>15. f \in FramesOf(koses[1])
    BY <2>2, <2>7, <2>9 DEF items
  <2> QED BY <2>7, <2>14, <2>15
<1>4. NoRaw
  BY OneLoggerFacts
<1> QED BY <1>1, <1>2, <1>3, <1>4, FlowInvariant, PTL DEF GatewaySpec
=============================================================================
