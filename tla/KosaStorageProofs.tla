------------------------- MODULE KosaStorageProofs -------------------------
(***************************************************************************)
(* For any number of plumes, items, base measurements and reallocations:   *)
(* as long as no entry was erased in front of another, the first entry is  *)
(* read from itself, none through another, and every base measurement has  *)
(* one owner, which deletes it.                                            *)
(***************************************************************************)
EXTENDS KosaStorage, SequenceTheorems, TLAPS

-----------------------------------------------------------------------------
(* The inductive invariant.                                                *)

(* What each pointer of an entry e at place k of block b may hold: those   *)
(* of its items may be left over from a block before, or from the stack.   *)
InPlace(e, b, k) ==
  /\ e.plumePackets = At(b, k)
  /\ \A i \in DOMAIN e.items : e.items[i].block < b \/ e.items[i] = At(b, k)

Placed == ~shifted => \A k \in DOMAIN koses : InPlace(koses[k], block, k)

(* The invariants of the run, each for one kind of pointer, need Placed:   *)
(* a base measurement is loaded for the entry its item leads to.           *)
StorageInv == TypeOK /\ Placed /\ FirstIsInPlace /\ BasesAreOwned

-----------------------------------------------------------------------------
(* The operators on one entry.                                             *)

(* A place in a block is an address.                                       *)
LEMMA AtType ==
  ASSUME NEW b \in Nat, NEW k \in Nat
  PROVE  At(b, k) \in Addresses
BY DEF At, Addresses

(* add() appends one pointer and sets the other.                           *)
LEMMA AddProperties ==
  ASSUME NEW e \in LoggerKosaPackets, NEW a \in Addresses
  PROVE  /\ Add(e, a) \in LoggerKosaPackets
         /\ Add(e, a).plume = e.plume
         /\ Add(e, a).baseKosa = e.baseKosa
         /\ Add(e, a).plumePackets = a
         /\ Add(e, a).items = Append(e.items, a)
<1>1. e.items \in Seq(Addresses)
  BY DEF LoggerKosaPackets
<1>2. Append(e.items, a) \in Seq(Addresses)
  BY <1>1, AppendProperties
<1> QED
  BY <1>2 DEF Add, LoggerKosaPackets

(* A moved entry keeps its items and has no base measurement.              *)
LEMMA CopyProperties ==
  ASSUME NEW e \in LoggerKosaPackets, NEW a \in Addresses
  PROVE  /\ Copy(e, a) \in LoggerKosaPackets
         /\ Copy(e, a).plume = e.plume
         /\ Copy(e, a).baseKosa = Nothing
         /\ Copy(e, a).plumePackets = a
         /\ Copy(e, a).items = e.items
BY DEF Copy, LoggerKosaPackets

(* A new entry's only item points to the stack.                            *)
LEMMA NewKosaProperties ==
  ASSUME NEW p \in Plumes, NEW a \in Addresses
  PROVE  /\ NewKosa(p, a) \in LoggerKosaPackets
         /\ NewKosa(p, a).plume = p
         /\ NewKosa(p, a).baseKosa = Nothing
         /\ NewKosa(p, a).plumePackets = a
         /\ NewKosa(p, a).items = <<Temporary>>
<1>1. <<Temporary>> \in Seq(Addresses)
  BY DEF Temporary, Addresses
<1> QED
  BY <1>1 DEF NewKosa, LoggerKosaPackets

(* The update sets every pointer.                                          *)
LEMMA UpdateProperties ==
  ASSUME NEW e \in LoggerKosaPackets, NEW a \in Addresses
  PROVE  /\ updateKosaAfterCopy(e, a) \in LoggerKosaPackets
         /\ updateKosaAfterCopy(e, a).plume = e.plume
         /\ updateKosaAfterCopy(e, a).baseKosa = e.baseKosa
         /\ updateKosaAfterCopy(e, a).plumePackets = a
         /\ \A i \in DOMAIN updateKosaAfterCopy(e, a).items :
              updateKosaAfterCopy(e, a).items[i] = a
<1> DEFINE all == [i \in DOMAIN e.items |-> a]
<1>1. e.items \in Seq(Addresses) /\ DOMAIN e.items = 1 .. Len(e.items)
  BY DEF LoggerKosaPackets
<1>2. all \in Seq(Addresses)
  BY <1>1, IsASeq
<1>3. updateKosaAfterCopy(e, a) = [e EXCEPT !.items = all, !.plumePackets = a]
  BY DEF updateKosaAfterCopy
<1>4. \A i \in DOMAIN all : all[i] = a
  OBVIOUS
<1> HIDE DEF all
<1> QED
  BY <1>2, <1>3, <1>4 DEF LoggerKosaPackets

(* An assigned entry is the other one but for pointers of its items.       *)
LEMMA AssignedProperties ==
  ASSUME NEW e \in LoggerKosaPackets, NEW other \in LoggerKosaPackets,
         NEW grows \in BOOLEAN
  PROVE  Assigned(e, other, grows) \in LoggerKosaPackets
<1> DEFINE pointer(i) == IF ~grows /\ i <= Len(e.items) THEN e.items[i]
                         ELSE other.items[i]
           items == [i \in DOMAIN other.items |-> pointer(i)]
<1>1. /\ e.items \in Seq(Addresses)
      /\ other.items \in Seq(Addresses)
      /\ DOMAIN other.items = 1 .. Len(other.items)
  BY DEF LoggerKosaPackets
<1>2. \A i \in DOMAIN other.items : pointer(i) \in Addresses
  <2> TAKE i \in DOMAIN other.items
  <2>1. i \in 1 .. Len(other.items) /\ other.items[i] \in Addresses
    BY <1>1
  <2>2. i <= Len(e.items) => e.items[i] \in Addresses
    BY <1>1, <2>1
  <2> QED
    BY <2>1, <2>2
<1> HIDE DEF pointer
<1>3. items \in Seq(Addresses)
  BY <1>1, <1>2, IsASeq
<1>4. Assigned(e, other, grows) = [other EXCEPT !.items = items]
  BY DEF Assigned, pointer
<1> HIDE DEF items
<1> QED
  BY <1>3, <1>4 DEF LoggerKosaPackets

(* push_back() of an entry for p onto old, in block b, and the update of   *)
(* the first entry.                                                        *)
Pushed(old, p, b) ==
  [Append(old, NewKosa(p, At(b, Len(old) + 1)))
     EXCEPT ![1] = updateKosaAfterCopy(@, At(b, 1))]

(* All that the invariant needs of it.                                     *)
PushedView(ks, old, p, b) ==
  /\ ks \in Seq(LoggerKosaPackets)
  /\ Len(ks) = Len(old) + 1
  /\ \A k \in 1 .. Len(old) :
       ks[k].plume = old[k].plume /\ ks[k].baseKosa = old[k].baseKosa
  /\ ks[Len(old) + 1].plume = p
  /\ ks[Len(old) + 1].baseKosa = Nothing
  /\ ks[1].plumePackets = At(b, 1)
  /\ \A i \in DOMAIN ks[1].items : ks[1].items[i] = At(b, 1)
  /\ \A k \in 2 .. Len(old) : ks[k] = old[k]
  /\ Len(old) > 0 => InPlace(ks[Len(old) + 1], b, Len(old) + 1)

(* What push_back() and the update leave.                                  *)
LEMMA PushedProperties ==
  ASSUME NEW old \in Seq(LoggerKosaPackets), NEW p \in Plumes,
         NEW b \in Nat \ {0}
  PROVE  PushedView(Pushed(old, p, b), old, p, b)
<1> DEFINE n == Len(old)
           last == NewKosa(p, At(b, n + 1))
           pushed == Append(old, last)
           first == updateKosaAfterCopy(pushed[1], At(b, 1))
           ks == Pushed(old, p, b)
<1>1. n \in Nat /\ At(b, n + 1) \in Addresses /\ At(b, 1) \in Addresses
  BY AtType
<1>2. /\ last \in LoggerKosaPackets
      /\ last.plume = p
      /\ last.baseKosa = Nothing
      /\ last.plumePackets = At(b, n + 1)
      /\ last.items = <<Temporary>>
  BY <1>1, NewKosaProperties
<1>3. /\ pushed \in Seq(LoggerKosaPackets)
      /\ Len(pushed) = n + 1
      /\ \A k \in 1 .. n : pushed[k] = old[k]
      /\ pushed[n + 1] = last
  BY <1>2, AppendProperties
<1>4. ks = [pushed EXCEPT ![1] = first]
  BY DEF Pushed, ks
<1> HIDE DEF last, pushed
<1> HIDE DEF ks
<1>5. pushed[1] \in LoggerKosaPackets
  BY <1>1, <1>3
<1>6. /\ first \in LoggerKosaPackets
      /\ first.plume = pushed[1].plume
      /\ first.baseKosa = pushed[1].baseKosa
      /\ first.plumePackets = At(b, 1)
      /\ \A i \in DOMAIN first.items : first.items[i] = At(b, 1)
  BY <1>1, <1>5, UpdateProperties
<1> HIDE DEF first
<1>7. /\ ks \in Seq(LoggerKosaPackets)
      /\ Len(ks) = n + 1
      /\ \A k \in 1 .. n + 1 : ks[k] = IF k = 1 THEN first ELSE pushed[k]
  BY <1>1, <1>3, <1>4, <1>6, ExceptSeq
<1>8. n > 0 => InPlace(ks[n + 1], b, n + 1)
  <2> HAVE n > 0
  <2>1. ks[n + 1] = last
    BY <1>1, <1>3, <1>7
  <2>2. Temporary.block < b
    BY DEF Temporary
  <2> QED
    BY <1>2, <2>1, <2>2 DEF InPlace
<1>9. ks[1] = first /\ \A k \in 2 .. n : ks[k] = old[k]
  BY <1>1, <1>3, <1>7
<1>10. \A k \in 1 .. n :
         ks[k].plume = old[k].plume /\ ks[k].baseKosa = old[k].baseKosa
  <2> TAKE k \in 1 .. n
  <2>1. CASE k = 1
    BY <1>1, <1>3, <1>6, <1>9, <2>1
  <2>2. CASE k # 1
    BY <1>1, <1>9, <2>2
  <2> QED
    BY <2>1, <2>2
<1>11. ks[n + 1].plume = p /\ ks[n + 1].baseKosa = Nothing
  <2>1. CASE n = 0
    BY <1>2, <1>3, <1>6, <1>9, <2>1
  <2>2. CASE n # 0
    BY <1>1, <1>2, <1>3, <1>7, <2>2
  <2> QED
    BY <2>1, <2>2
<1> QED
  BY <1>6, <1>7, <1>8, <1>9, <1>10, <1>11 DEF PushedView, ks

-----------------------------------------------------------------------------
(* Each action preserves the invariant.                                    *)

(* An item joins its entry: both pointers are set.                         *)
LEMMA AddFoundPreserves ==
  ASSUME StorageInv, NEW p \in Plumes, AddFound(p)
  PROVE  StorageInv'
<1>1. PICK k \in DOMAIN koses : koses' = [koses EXCEPT ![k] = Add(@, At(block, k))]
  BY DEF AddFound
<1>2. /\ koses \in Seq(LoggerKosaPackets)
      /\ Len(koses) \in Nat
      /\ DOMAIN koses = 1 .. Len(koses)
      /\ koses[k] \in LoggerKosaPackets
      /\ block \in Nat
  BY MaxAssumption DEF StorageInv, TypeOK
<1>3. UNCHANGED <<capacity, block, heap, shifted>>
  BY DEF AddFound
<1> DEFINE e == Add(koses[k], At(block, k))
<1>4. /\ e \in LoggerKosaPackets
      /\ e.plume = koses[k].plume
      /\ e.baseKosa = koses[k].baseKosa
      /\ e.plumePackets = At(block, k)
      /\ e.items = Append(koses[k].items, At(block, k))
  <2>1. At(block, k) \in Addresses
    BY <1>2, AtType
  <2> QED
    BY <1>2, <2>1, AddProperties
<1>5. \A i \in DOMAIN e.items :
        e.items[i] = At(block, k)
          \/ (i \in DOMAIN koses[k].items /\ e.items[i] = koses[k].items[i])
  <2>1. koses[k].items \in Seq(Addresses) /\ At(block, k) \in Addresses
    BY <1>2, AtType DEF LoggerKosaPackets
  <2> QED
    BY <1>4, <2>1, AppendProperties
<1>6. koses' = [koses EXCEPT ![k] = e]
  BY <1>1
<1> HIDE DEF e
<1>7. /\ koses' \in Seq(LoggerKosaPackets)
      /\ Len(koses') = Len(koses)
      /\ DOMAIN koses' = DOMAIN koses
      /\ \A j \in DOMAIN koses : koses'[j] = IF j = k THEN e ELSE koses[j]
  BY <1>2, <1>4, <1>6, ExceptSeq
<1>8. TypeOK'
  BY <1>3, <1>7 DEF StorageInv, TypeOK
<1>9. Placed'
  <2> SUFFICES ASSUME ~shifted, NEW j \in DOMAIN koses
               PROVE  InPlace(koses'[j], block, j)
    BY <1>3, <1>7 DEF Placed
  <2>1. InPlace(koses[j], block, j)
    BY DEF StorageInv, Placed
  <2>2. CASE j = k
    BY <1>4, <1>5, <1>7, <2>1, <2>2 DEF InPlace
  <2>3. CASE j # k
    BY <1>7, <2>1, <2>3
  <2> QED
    BY <2>2, <2>3
<1>10. FirstIsInPlace'
  <2> SUFFICES ASSUME ~shifted, koses # <<>>
               PROVE  /\ koses'[1].plumePackets = At(block, 1)
                      /\ \A i \in DOMAIN koses'[1].items :
                            koses'[1].items[i] = At(block, 1)
    BY <1>2, <1>3, <1>7 DEF FirstIsInPlace, Range
  <2>1. /\ koses[1].plumePackets = At(block, 1)
        /\ \A i \in DOMAIN koses[1].items : koses[1].items[i] = At(block, 1)
    BY DEF StorageInv, FirstIsInPlace, Range
  <2>2. 1 \in DOMAIN koses
    BY <1>2
  <2>3. CASE k = 1
    BY <1>4, <1>5, <1>7, <2>1, <2>2, <2>3
  <2>4. CASE k # 1
    BY <1>7, <2>1, <2>2, <2>4
  <2> QED
    BY <2>3, <2>4
<1>11. \A j \in DOMAIN koses : koses'[j].plume = koses[j].plume
                              /\ koses'[j].baseKosa = koses[j].baseKosa
  BY <1>4, <1>7
<1>12. BasesAreOwned'
  <2>1. BasesOf(koses') = BasesOf(koses)
    BY <1>7, <1>11 DEF BasesOf
  <2> QED
    BY <1>3, <1>7, <1>11, <2>1 DEF StorageInv, BasesAreOwned
<1> QED
  BY <1>8, <1>9, <1>10, <1>12 DEF StorageInv

(* There is room: the entries stay where they are.                         *)
LEMMA PushInPlacePreserves ==
  ASSUME StorageInv, NEW p \in Plumes, PushInPlace(p)
  PROVE  StorageInv'
<1> DEFINE n == Len(koses)
<1>1. /\ koses \in Seq(LoggerKosaPackets)
      /\ n \in Nat /\ capacity \in Nat /\ n < capacity
      /\ DOMAIN koses = 1 .. n
      /\ block \in Nat \ {0}
  BY MaxAssumption DEF StorageInv, TypeOK, PushInPlace
<1>2. UNCHANGED <<capacity, block, heap, shifted>>
  BY DEF PushInPlace
<1>3. koses' = Pushed(koses, p, block)
  BY DEF PushInPlace, Pushed
<1>4. /\ koses' \in Seq(LoggerKosaPackets)
      /\ Len(koses') = n + 1
      /\ \A k \in 1 .. n :
           koses'[k].plume = koses[k].plume /\ koses'[k].baseKosa = koses[k].baseKosa
      /\ koses'[n + 1].plume = p
      /\ koses'[n + 1].baseKosa = Nothing
      /\ koses'[1].plumePackets = At(block, 1)
      /\ \A i \in DOMAIN koses'[1].items : koses'[1].items[i] = At(block, 1)
      /\ \A k \in 2 .. n : koses'[k] = koses[k]
      /\ n > 0 => InPlace(koses'[n + 1], block, n + 1)
  <2>1. PushedView(koses', koses, p, block)
    BY <1>1, <1>3, PushedProperties
  <2> QED
    BY <2>1 DEF PushedView
<1>5. DOMAIN koses' = 1 .. n + 1
  BY <1>4
<1>6. TypeOK'
  BY <1>1, <1>2, <1>4 DEF StorageInv, TypeOK
<1>7. Placed'
  <2> SUFFICES ASSUME ~shifted, NEW k \in 1 .. n + 1
               PROVE  InPlace(koses'[k], block, k)
    BY <1>2, <1>5 DEF Placed
  <2>1. CASE k = 1
    BY <1>4, <2>1 DEF InPlace
  <2>2. CASE k \in 2 .. n
    BY <1>1, <1>4, <2>2 DEF StorageInv, Placed
  <2>3. CASE k = n + 1 /\ n > 0
    BY <1>4, <2>3
  <2> QED
    BY <1>1, <2>1, <2>2, <2>3
<1>8. FirstIsInPlace'
  BY <1>2, <1>4 DEF FirstIsInPlace, Range
<1>9. BasesAreOwned'
  <2>1. BasesOf(koses') = BasesOf(koses)
    BY <1>1, <1>4, <1>5 DEF BasesOf
  <2> QED
    BY <1>1, <1>2, <1>4, <1>5, <2>1 DEF StorageInv, BasesAreOwned
<1> QED
  BY <1>6, <1>7, <1>8, <1>9 DEF StorageInv

(* The vector moves: the entries are copied without their base             *)
(* measurements, and those are deleted with the entries left behind.       *)
LEMMA PushReallocatingPreserves ==
  ASSUME StorageInv, NEW p \in Plumes, PushReallocating(p)
  PROVE  StorageInv'
<1> DEFINE n == Len(koses)
           b == block + 1
           copied == [k \in DOMAIN koses |-> Copy(koses[k], At(b, k))]
<1>1. /\ koses \in Seq(LoggerKosaPackets)
      /\ n \in Nat /\ capacity \in Nat /\ n = capacity
      /\ DOMAIN koses = 1 .. n
      /\ block \in Nat /\ b \in Nat \ {0}
      /\ b \in 0 .. MaxBlocks
  BY MaxAssumption DEF StorageInv, TypeOK, PushReallocating
<1>2. /\ block' = b /\ shifted' = shifted
      /\ capacity' = (IF capacity = 0 THEN 1 ELSE 2 * capacity)
      /\ heap' = Freed(BasesOf(koses))
  BY DEF PushReallocating
<1>3. \A k \in 1 .. n :
        /\ Copy(koses[k], At(b, k)) \in LoggerKosaPackets
        /\ Copy(koses[k], At(b, k)).plume = koses[k].plume
        /\ Copy(koses[k], At(b, k)).baseKosa = Nothing
        /\ Copy(koses[k], At(b, k)).plumePackets = At(b, k)
        /\ Copy(koses[k], At(b, k)).items = koses[k].items
  <2> TAKE k \in 1 .. n
  <2>1. koses[k] \in LoggerKosaPackets /\ At(b, k) \in Addresses
    BY <1>1, AtType
  <2> QED
    BY <2>1, CopyProperties
<1>4. /\ copied \in Seq(LoggerKosaPackets)
      /\ Len(copied) = n
      /\ \A k \in 1 .. n : copied[k] = Copy(koses[k], At(b, k))
  <2>1. copied = [k \in 1 .. n |-> Copy(koses[k], At(b, k))]
    BY <1>1
  <2> HIDE DEF b
  <2> QED
    BY <1>1, <1>3, <2>1, IsASeq, LenProperties
<1>5. koses' = Pushed(copied, p, b)
  BY <1>4, <1>2 DEF PushReallocating, Pushed
<1> HIDE DEF copied, b
<1>6. /\ koses' \in Seq(LoggerKosaPackets)
      /\ Len(koses') = n + 1
      /\ \A k \in 1 .. n : koses'[k].baseKosa = Nothing
      /\ koses'[n + 1].baseKosa = Nothing
      /\ koses'[1].plumePackets = At(b, 1)
      /\ \A i \in DOMAIN koses'[1].items : koses'[1].items[i] = At(b, 1)
      /\ \A k \in 2 .. n : koses'[k] = copied[k]
      /\ n > 0 => InPlace(koses'[n + 1], b, n + 1)
  <2>1. PushedView(koses', copied, p, b)
    BY <1>1, <1>4, <1>5, PushedProperties
  <2> QED
    BY <1>3, <1>4, <2>1 DEF PushedView
<1>7. DOMAIN koses' = 1 .. n + 1
  BY <1>6
<1>8. heap' \in [Bases -> Plumes \cup {Nothing}]
  BY <1>2 DEF Freed, StorageInv, TypeOK
<1>9. TypeOK'
  <2>1. capacity' \in Nat /\ n + 1 <= capacity'
    BY <1>1, <1>2
  <2> QED
    BY <1>1, <1>2, <1>6, <1>8, <2>1 DEF StorageInv, TypeOK
<1>10. Placed'
  <2> SUFFICES ASSUME ~shifted, NEW k \in 1 .. n + 1
               PROVE  InPlace(koses'[k], b, k)
    BY <1>2, <1>7 DEF Placed
  <2>1. CASE k = 1
    BY <1>6, <2>1 DEF InPlace
  <2>2. CASE k \in 2 .. n
    <3>1. /\ koses'[k].plumePackets = At(b, k)
          /\ koses'[k].items = koses[k].items
      BY <1>3, <1>4, <1>6, <2>2
    <3>2. \A i \in DOMAIN koses[k].items :
            koses[k].items[i].block < block \/ koses[k].items[i] = At(block, k)
      BY <1>1, <2>2 DEF StorageInv, Placed, InPlace
    <3>3. At(block, k).block = block
      BY DEF At
    <3>4. \A i \in DOMAIN koses[k].items : koses[k].items[i].block \in Nat
      <4>1. koses[k] \in LoggerKosaPackets
        BY <1>1, <2>2
      <4>2. koses[k].items \in Seq(Addresses)
        BY <4>1 DEF LoggerKosaPackets
      <4>3. \A i \in DOMAIN koses[k].items : koses[k].items[i] \in Addresses
        BY <4>2
      <4> QED
        BY <4>3 DEF Addresses
    <3>5. \A i \in DOMAIN koses[k].items : koses[k].items[i].block < b
      BY <1>1, <3>2, <3>3, <3>4 DEF b
    <3> QED
      BY <3>1, <3>5 DEF InPlace
  <2>3. CASE k = n + 1 /\ n > 0
    BY <1>6, <2>3
  <2> QED
    BY <1>1, <2>1, <2>2, <2>3
<1>11. FirstIsInPlace'
  BY <1>2, <1>6 DEF FirstIsInPlace, Range
<1>12. BasesAreOwned'
  <2>1. \A k \in DOMAIN koses' : koses'[k].baseKosa = Nothing
    BY <1>1, <1>6, <1>7
  <2>2. ~shifted => \A base \in Bases : heap'[base] = Nothing
    BY <1>2 DEF StorageInv, BasesAreOwned, Freed
  <2> QED
    BY <1>2, <2>1, <2>2 DEF BasesAreOwned
<1> QED
  BY <1>9, <1>10, <1>11, <1>12 DEF StorageInv

(* Reading: each item leads to the entry it is in, if anywhere, and so the *)
(* only base measurement loaded is that entry's.                           *)
LEMMA GetPreserves ==
  ASSUME StorageInv, NEW k \in DOMAIN koses, Get(k)
  PROVE  StorageInv'
<1>1. PICK new \in [loadBaseKosa(k) -> {b \in Bases : heap[b] = Nothing}] :
        /\ IsInjective(new)
        /\ koses' = [e \in DOMAIN koses |->
                       IF e \in DOMAIN new
                       THEN [koses[e] EXCEPT !.baseKosa = new[e]] ELSE koses[e]]
        /\ heap' = [b \in Bases |->
                      IF b \in Range(new) THEN koses[k].plume ELSE heap[b]]
  BY DEF Get
<1> DEFINE Entry(e) == IF e \in DOMAIN new
                       THEN [koses[e] EXCEPT !.baseKosa = new[e]] ELSE koses[e]
<1>2. /\ koses \in Seq(LoggerKosaPackets)
      /\ DOMAIN koses = 1 .. Len(koses)
      /\ Len(koses) \in Nat
      /\ UNCHANGED <<capacity, block, shifted>>
  BY DEF StorageInv, TypeOK, Get
<1>3. /\ DOMAIN new = loadBaseKosa(k)
      /\ \A e \in DOMAIN new : new[e] \in Bases /\ heap[new[e]] = Nothing
  BY <1>1
<1>4. \A e \in DOMAIN koses :
        /\ Entry(e) \in LoggerKosaPackets
        /\ Entry(e).plume = koses[e].plume
        /\ Entry(e).items = koses[e].items
        /\ Entry(e).plumePackets = koses[e].plumePackets
        /\ Entry(e).baseKosa = IF e \in DOMAIN new THEN new[e] ELSE koses[e].baseKosa
  <2> TAKE e \in DOMAIN koses
  <2>1. koses[e] \in LoggerKosaPackets
    BY <1>2
  <2> QED
    BY <1>3, <2>1 DEF LoggerKosaPackets
<1>5. /\ koses' \in Seq(LoggerKosaPackets)
      /\ Len(koses') = Len(koses)
      /\ DOMAIN koses' = DOMAIN koses
      /\ \A e \in DOMAIN koses : koses'[e] = Entry(e)
  <2>1. koses' = [e \in 1 .. Len(koses) |-> Entry(e)]
    BY <1>1, <1>2
  <2> HIDE DEF Entry
  <2> QED
    BY <1>2, <1>4, <2>1, IsASeq, LenProperties
<1> HIDE DEF Entry
<1>6. TypeOK'
  <2>1. koses[k].plume \in Plumes
    <3>1. koses[k] \in LoggerKosaPackets
      BY <1>2
    <3> QED
      BY <3>1 DEF LoggerKosaPackets
  <2>2. heap' \in [Bases -> Plumes \cup {Nothing}]
    BY <1>1, <2>1 DEF StorageInv, TypeOK
  <2> QED
    BY <1>2, <1>5, <2>2 DEF StorageInv, TypeOK
<1>7. Placed'
  BY <1>2, <1>4, <1>5 DEF StorageInv, Placed, InPlace
<1>8. FirstIsInPlace'
  <2> SUFFICES ASSUME ~shifted, koses # <<>>
               PROVE  /\ koses'[1].plumePackets = At(block, 1)
                      /\ \A a \in Range(koses'[1].items) : a = At(block, 1)
    BY <1>2, <1>5 DEF FirstIsInPlace
  <2>1. 1 \in DOMAIN koses
    BY <1>2
  <2>2. /\ koses'[1].plumePackets = koses[1].plumePackets
        /\ koses'[1].items = koses[1].items
    BY <1>4, <1>5, <2>1
  <2> QED
    BY <2>2 DEF StorageInv, FirstIsInPlace
<1>9. BasesAreOwned'
  <2> SUFFICES ASSUME ~shifted
               PROVE  BasesAreOwned'
    BY <1>2 DEF BasesAreOwned
  <2>1. \A e \in DOMAIN new : e = k /\ koses[k].baseKosa = Nothing
    <3> TAKE e \in DOMAIN new
    <3>1. PICK i \in DOMAIN koses[k].items : e = Reached(koses[k].items[i])
      BY <1>3 DEF loadBaseKosa, Range
    <3>2. Live(koses[k].items[i])
      BY DEF Get, Reaches, Range
    <3>3. koses[k].items[i].block = block
      BY <3>2 DEF Live
    <3>4. koses[k].items[i] = At(block, k)
      <4>1. block \in Nat
        BY MaxAssumption DEF StorageInv, TypeOK
      <4> QED
        BY <3>3, <4>1 DEF StorageInv, Placed, InPlace
    <3>5. koses[k].plumePackets = At(block, k)
      BY DEF StorageInv, Placed, InPlace
    <3>6. e = k
      BY <3>1, <3>4, <3>5 DEF Reached, At
    <3> QED
      BY <1>3, <3>6 DEF loadBaseKosa
  <2>2. CASE DOMAIN new = {}
    <3>1. \A e \in DOMAIN koses : koses'[e].plume = koses[e].plume
                                 /\ koses'[e].baseKosa = koses[e].baseKosa
      BY <1>4, <1>5, <2>2
    <3>2. BasesOf(koses') = BasesOf(koses)
      BY <1>5, <3>1 DEF BasesOf
    <3>3. \A b \in Bases : heap'[b] = heap[b]
      BY <1>1, <2>2 DEF Range
    <3>4. \A e \in DOMAIN koses : koses[e].baseKosa \in Bases \cup {Nothing}
      <4>1. \A e \in DOMAIN koses : koses[e] \in LoggerKosaPackets
        BY <1>2
      <4> QED
        BY <4>1 DEF LoggerKosaPackets
    <3> QED
      BY <1>2, <1>5, <3>1, <3>2, <3>3, <3>4 DEF StorageInv, BasesAreOwned
  <2>3. CASE DOMAIN new # {}
    <3>1. DOMAIN new = {k} /\ koses[k].baseKosa = Nothing
      BY <2>1, <2>3
    <3>2. new[k] \in Bases /\ heap[new[k]] = Nothing /\ new[k] # Nothing
      BY <1>3, <3>1, NothingAssumption
    <3>3. /\ koses'[k].baseKosa = new[k]
          /\ \A e \in DOMAIN koses : koses'[e].plume = koses[e].plume
          /\ \A e \in DOMAIN koses \ {k} : koses'[e].baseKosa = koses[e].baseKosa
      BY <1>4, <1>5, <3>1
    <3>4. \A b \in Bases : heap'[b] = IF b = new[k] THEN koses[k].plume ELSE heap[b]
      BY <1>1, <3>1 DEF Range
    <3>5. \A e \in DOMAIN koses :
            koses[e].baseKosa # Nothing =>
              /\ koses[e].baseKosa \in Bases
              /\ heap[koses[e].baseKosa] = koses[e].plume
              /\ koses[e].plume # Nothing
      <4> TAKE e \in DOMAIN koses
      <4>1. koses[e] \in LoggerKosaPackets
        BY <1>2
      <4> QED
        BY <4>1, NothingAssumption DEF StorageInv, BasesAreOwned, LoggerKosaPackets
    <3>6. \A e \in DOMAIN koses \ {k} : koses[e].baseKosa # new[k]
      BY <3>2, <3>5
    <3>7. \A b \in BasesOf(koses) \cup {new[k]} : b \in BasesOf(koses')
      BY <1>5, <3>1, <3>2, <3>3 DEF BasesOf
    <3>8. \A e \in DOMAIN koses' : koses'[e].baseKosa # Nothing =>
            heap'[koses'[e].baseKosa] = koses'[e].plume
      BY <1>5, <3>2, <3>3, <3>4, <3>5, <3>6
    <3>9. \A j, e \in DOMAIN koses' : j # e =>
            koses'[j].baseKosa = Nothing \/ koses'[j].baseKosa # koses'[e].baseKosa
      BY <1>5, <3>2, <3>3, <3>6 DEF StorageInv, BasesAreOwned
    <3>10. \A b \in Bases : heap'[b] # Nothing => b \in BasesOf(koses')
      BY <3>4, <3>7 DEF StorageInv, BasesAreOwned
    <3> QED
      BY <3>8, <3>9, <3>10 DEF BasesAreOwned
  <2> QED
    BY <2>2, <2>3
<1> QED
  BY <1>6, <1>7, <1>8, <1>9 DEF StorageInv

(* Erasing: without a shift it is the last entry that goes, with the base  *)
(* measurement no other refers to.                                         *)
LEMMA ErasePreserves ==
  ASSUME StorageInv, NEW k \in DOMAIN koses, Erase(k)
  PROVE  StorageInv'
<1> DEFINE n == Len(koses)
<1>1. /\ koses \in Seq(LoggerKosaPackets)
      /\ n \in Nat \ {0}
      /\ DOMAIN koses = 1 .. n
      /\ k \in 1 .. n
  BY DEF StorageInv, TypeOK
<1>2. /\ UNCHANGED <<capacity, block>>
      /\ shifted' = (shifted \/ k < n)
      /\ heap' = Freed({koses[n].baseKosa})
  BY DEF Erase
<1>3. PICK grows \in SUBSET {j \in k .. n - 1 :
                              Len(koses[j + 1].items) > Len(koses[j].items)} :
        koses' = [j \in 1 .. n - 1 |->
                    IF j < k THEN koses[j]
                    ELSE Assigned(koses[j], koses[j + 1], j \in grows)]
  BY DEF Erase
<1> DEFINE Entry(j) == IF j < k THEN koses[j]
                       ELSE Assigned(koses[j], koses[j + 1], j \in grows)
<1>4. \A j \in 1 .. n - 1 : Entry(j) \in LoggerKosaPackets
  <2> TAKE j \in 1 .. n - 1
  <2>1. koses[j] \in LoggerKosaPackets /\ koses[j + 1] \in LoggerKosaPackets
    BY <1>1
  <2> DEFINE grow == j \in grows
  <2>2. grow \in BOOLEAN
    OBVIOUS
  <2> HIDE DEF grow
  <2>3. Assigned(koses[j], koses[j + 1], grow) \in LoggerKosaPackets
    BY <2>1, <2>2, AssignedProperties
  <2> QED
    BY <2>1, <2>3 DEF grow
<1>5. koses' = [j \in 1 .. n - 1 |-> Entry(j)]
  BY <1>3
<1> HIDE DEF Entry
<1>6. /\ koses' \in Seq(LoggerKosaPackets)
      /\ Len(koses') = n - 1
      /\ DOMAIN koses' = 1 .. n - 1
      /\ \A j \in 1 .. n - 1 : koses'[j] = Entry(j)
  BY <1>1, <1>4, <1>5, IsASeq, LenProperties
<1>7. TypeOK'
  <2>1. heap' \in [Bases -> Plumes \cup {Nothing}]
    BY <1>2 DEF Freed, StorageInv, TypeOK
  <2>2. shifted' \in BOOLEAN
    BY <1>2 DEF StorageInv, TypeOK
  <2>3. /\ capacity' \in Nat /\ Len(koses') <= capacity'
        /\ capacity' > 0 => block' > 0
        /\ block' \in 0 .. MaxBlocks
    BY <1>1, <1>2, <1>6 DEF StorageInv, TypeOK
  <2> QED
    BY <1>6, <2>1, <2>2, <2>3, Zenon DEF TypeOK
<1>8. ~shifted' => /\ ~shifted
                  /\ \A j \in 1 .. n - 1 : koses'[j] = koses[j]
  <2> HAVE ~shifted'
  <2>1. ~shifted /\ k = n
    <3>1. ~shifted /\ ~(k < n)
      BY <1>2, Zenon
    <3> QED
      BY <1>1, <3>1
  <2> QED
    BY <1>1, <1>6, <2>1 DEF Entry
<1>9. Placed'
  BY <1>1, <1>2, <1>6, <1>8 DEF StorageInv, Placed
<1>10. FirstIsInPlace'
  <2> SUFFICES ASSUME ~shifted', koses' # <<>>
               PROVE  /\ koses'[1].plumePackets = At(block, 1)
                      /\ \A a \in Range(koses'[1].items) : a = At(block, 1)
    BY <1>2 DEF FirstIsInPlace
  <2>1. 1 \in 1 .. n - 1
    BY <1>1, <1>6
  <2>2. koses'[1] = koses[1] /\ ~shifted /\ koses # <<>>
    BY <1>1, <1>8, <2>1
  <2> QED
    BY <2>2 DEF StorageInv, FirstIsInPlace
<1>11. BasesAreOwned'
  <2> SUFFICES ASSUME ~shifted'
               PROVE  BasesAreOwned'
    BY DEF BasesAreOwned
  <2>1. ~shifted /\ \A j \in 1 .. n - 1 : koses'[j] = koses[j]
    BY <1>8
  <2>2. \A j \in 1 .. n : /\ koses[j].baseKosa \in Bases \cup {Nothing}
                          /\ koses[j].plume # Nothing
    <3> TAKE j \in 1 .. n
    <3>1. koses[j] \in LoggerKosaPackets
      BY <1>1
    <3> QED
      BY <3>1, NothingAssumption DEF LoggerKosaPackets
  <2>3. \A b \in Bases : heap'[b] = IF b = koses[n].baseKosa THEN Nothing ELSE heap[b]
    BY <1>2 DEF Freed
  <2>4. \A j \in 1 .. n - 1 : koses[j].baseKosa # Nothing =>
          koses[j].baseKosa # koses[n].baseKosa
    BY <1>1, <2>1 DEF StorageInv, BasesAreOwned
  <2>5. \A j \in 1 .. n - 1 : koses'[j].baseKosa # Nothing =>
          heap'[koses'[j].baseKosa] = koses'[j].plume
    BY <1>1, <2>1, <2>2, <2>3, <2>4 DEF StorageInv, BasesAreOwned
  <2>6. \A i, j \in 1 .. n - 1 : i # j =>
          koses'[i].baseKosa = Nothing \/ koses'[i].baseKosa # koses'[j].baseKosa
    BY <1>1, <2>1 DEF StorageInv, BasesAreOwned
  <2>7. \A b \in Bases : heap'[b] # Nothing => b \in BasesOf(koses')
    <3> TAKE b \in Bases
    <3> HAVE heap'[b] # Nothing
    <3>1. heap[b] # Nothing /\ b # koses[n].baseKosa
      BY <2>3
    <3>2. b \in BasesOf(koses)
      BY <2>1, <3>1 DEF StorageInv, BasesAreOwned
    <3>3. PICK j \in 1 .. n : koses[j].baseKosa = b /\ b # Nothing
      BY <1>1, <3>2 DEF BasesOf
    <3>4. j \in 1 .. n - 1
      BY <1>1, <3>1, <3>3
    <3> QED
      BY <1>6, <2>1, <3>3, <3>4 DEF BasesOf
  <2> QED
    BY <1>6, <2>5, <2>6, <2>7 DEF BasesAreOwned
<1> QED
  BY <1>7, <1>9, <1>10, <1>11 DEF StorageInv

(* Deleting the collector deletes every base measurement.                  *)
LEMMA DeletePreserves ==
  ASSUME StorageInv, Delete
  PROVE  StorageInv'
<1>1. /\ koses' = <<>> /\ capacity' = 0 /\ block' = 0
      /\ heap' = Freed(BasesOf(koses)) /\ shifted' = shifted
  BY DEF Delete
<1>2. TypeOK'
  BY <1>1, MaxAssumption DEF StorageInv, TypeOK, Freed
<1>3. ~shifted => \A b \in Bases : heap'[b] = Nothing
  BY <1>1 DEF StorageInv, BasesAreOwned, Freed
<1>4. DOMAIN koses' = {}
  BY <1>1
<1> QED
  BY <1>1, <1>2, <1>3, <1>4
  DEF StorageInv, Placed, FirstIsInPlace, BasesAreOwned, BasesOf

-----------------------------------------------------------------------------
(* The theorems.                                                           *)

(* The invariant holds in every reachable state.                           *)
THEOREM StorageInvCorrect == Spec => []StorageInv
<1>1. Init => StorageInv
  <2> SUFFICES ASSUME Init PROVE StorageInv
    OBVIOUS
  <2>1. koses = <<>> /\ DOMAIN koses = {} /\ ~shifted
    BY DEF Init
  <2>2. TypeOK
    <3>1. koses \in Seq(LoggerKosaPackets) /\ Len(koses) = 0
      BY <2>1
    <3>2. capacity = 0 /\ block \in 0 .. MaxBlocks
      BY MaxAssumption DEF Init
    <3>3. heap \in [Bases -> Plumes \cup {Nothing}] /\ shifted \in BOOLEAN
      BY DEF Init
    <3> QED
      BY <3>1, <3>2, <3>3 DEF TypeOK
  <2>3. \A b \in Bases : heap[b] = Nothing
    BY DEF Init
  <2> QED
    BY <2>1, <2>2, <2>3 DEF StorageInv, Placed, FirstIsInPlace, BasesAreOwned
<1>2. StorageInv /\ [Next]_vars => StorageInv'
  <2> SUFFICES ASSUME StorageInv, [Next]_vars PROVE StorageInv'
    OBVIOUS
  <2>1. CASE \E p \in Plumes : AddFound(p) \/ PushInPlace(p) \/ PushReallocating(p)
    BY <2>1, AddFoundPreserves, PushInPlacePreserves, PushReallocatingPreserves
  <2>2. CASE \E k \in DOMAIN koses : Get(k) \/ Erase(k)
    BY <2>2, GetPreserves, ErasePreserves
  <2>3. CASE Delete
    BY <2>3, DeletePreserves
  <2>4. CASE UNCHANGED vars
    BY <2>4 DEF vars, StorageInv, TypeOK, Placed, FirstIsInPlace, BasesAreOwned,
                BasesOf
  <2> QED
    BY <2>1, <2>2, <2>3, <2>4 DEF Next
<1> QED
  BY <1>1, <1>2, PTL DEF Spec

(* The storage keeps its types: the type invariant of the run.             *)
THEOREM StorageTypeCorrect == Spec => []TypeOK
<1>1. StorageInv => TypeOK
  BY DEF StorageInv
<1> QED
  BY <1>1, StorageInvCorrect, PTL

(* The first entry is read from itself, wherever the vector has moved it.  *)
THEOREM FirstStaysInPlace == Spec => []FirstIsInPlace
<1>1. StorageInv => FirstIsInPlace
  BY DEF StorageInv
<1> QED
  BY <1>1, StorageInvCorrect, PTL

(* No pointer that can be followed leads from one plume to another.        *)
THEOREM NoneEverReadsAnother == Spec => []NoneReadsAnother
<1>1. StorageInv => NoneReadsAnother
  <2> SUFFICES ASSUME StorageInv, ~shifted, NEW k \in DOMAIN koses,
                      NEW a \in Range(koses[k].items), Reaches(a)
               PROVE  Reached(a) = k
    BY DEF NoneReadsAnother
  <2>1. PICK i \in DOMAIN koses[k].items : a = koses[k].items[i]
    BY DEF Range
  <2>2. a.block = block /\ block \in Nat
    BY MaxAssumption DEF Reaches, Live, StorageInv, TypeOK
  <2>3. a = At(block, k)
    BY <2>1, <2>2 DEF StorageInv, Placed, InPlace
  <2>4. koses[k].plumePackets = At(block, k)
    BY DEF StorageInv, Placed, InPlace
  <2> QED
    BY <2>3, <2>4 DEF Reached, At
<1> QED
  BY <1>1, StorageInvCorrect, PTL

(* Every base measurement on the heap is deleted by the one entry that has *)
(* it, and no entry refers to one that is deleted.                         *)
THEOREM BasesStayOwned == Spec => []BasesAreOwned
<1>1. StorageInv => BasesAreOwned
  BY DEF StorageInv
<1> QED
  BY <1>1, StorageInvCorrect, PTL
=============================================================================
