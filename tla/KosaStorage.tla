---------------------------- MODULE KosaStorage ----------------------------
(***************************************************************************)
(* The pointers between the objects of logger-collection.cpp.  An item     *)
(* points to the collection it is in (LoggerItem::collection), that points *)
(* to its entry (LoggerCollection::plumePackets), and the entry owns the   *)
(* base measurement loaded for it (LoggerKosaPackets::baseKosa).  All of   *)
(* them live in a vector of entries, whose push_back() moves and whose     *)
(* erase() assigns them, and reading a frame of differences follows them.  *)
(*                                                                         *)
(* An address is a block of memory the vector has or had, and a place in   *)
(* it.  Items are those of differences: no other follows its pointers.     *)
(***************************************************************************)
EXTENDS Naturals, Sequences, Functions

CONSTANTS
  Plumes,     (* Serial number and year, what an entry is found by.        *)
  Bases,      (* Addresses the heap has for base measurements.             *)
  Nothing,    (* The null pointer, and the owner of free memory.           *)
  MaxItems,   (* Bound of the model: items of an entry.                    *)
  MaxBlocks   (* Bound of the model: blocks the vectors ever occupy.       *)

ASSUME NothingAssumption == Nothing \notin Bases \cup Plumes
ASSUME MaxAssumption == MaxItems \in Nat /\ MaxBlocks \in Nat

VARIABLES
  koses,      (* std::vector<LoggerKosaPackets>                            *)
  capacity,   (* its capacity                                              *)
  block,      (* the block it occupies                                     *)
  heap,       (* the plume each base measurement was loaded for            *)
  shifted     (* whether an entry in front of another was ever erased      *)

vars == <<koses, capacity, block, heap, shifted>>

Addresses == [block : Nat, slot : Nat]

(* LoggerKosaPackets: items holds the pointer collection of each item, and *)
(* plumePackets that of its LoggerCollection.                              *)
LoggerKosaPackets == [plume : Plumes, items : Seq(Addresses),
                      plumePackets : Addresses, baseKosa : Bases \cup {Nothing}]

(* The entry p on the stack of LoggerKosaCollector::add().                 *)
Temporary == [block |-> 0, slot |-> 0]

At(b, k) == [block |-> b, slot |-> k]
Live(a) == a.block = block /\ a.slot \in DOMAIN koses

BasesOf(entries) == {entries[k].baseKosa : k \in DOMAIN entries} \ {Nothing}

(* delete baseKosa, in the destructor of each of the entries.              *)
Freed(bases) == [b \in Bases |-> IF b \in bases THEN Nothing ELSE heap[b]]

Init ==
  /\ koses = <<>> /\ capacity = 0 /\ block = 0
  /\ heap = [b \in Bases |-> Nothing]
  /\ shifted = FALSE

-----------------------------------------------------------------------------
(* Filing an item.                                                         *)

(* LoggerKosaPackets::add() of the entry at a.                             *)
Add(kosa, a) == [kosa EXCEPT !.items = Append(@, a), !.plumePackets = a]

(* LoggerKosaPackets p(this); p.add(item); a copy of p.                    *)
NewKosa(p, a) ==
  [plume |-> p, items |-> <<Temporary>>, plumePackets |-> a, baseKosa |-> Nothing]

(* Mutant: the base measurement is copied with its entry.                  *)
CopyAll(kosa, a) == [kosa EXCEPT !.plumePackets = a]

(* LoggerKosaPackets(const LoggerKosaPackets &): "do not copy baseKosa".   *)
Copy(kosa, a) == [kosa EXCEPT !.plumePackets = a, !.baseKosa = Nothing]

(* Mutant: the items are forgotten.                                        *)
updatePlumePackets(kosa, a) == [kosa EXCEPT !.plumePackets = a]

updateKosaAfterCopy(kosa, a) ==
  [kosa EXCEPT !.items = [i \in DOMAIN @ |-> a], !.plumePackets = a]

(* Mutant: &koses[0] is taken for the entry that was found.                *)
AddFoundFirst(p) ==
  /\ \E k \in DOMAIN koses :
       /\ koses[k].plume = p
       /\ Len(koses[k].items) < MaxItems
       /\ koses' = [koses EXCEPT ![k] = Add(@, At(block, 1))]
  /\ UNCHANGED <<capacity, block, heap, shifted>>

(* The plume has an entry.                                                 *)
AddFound(p) ==
  /\ \E k \in DOMAIN koses :
       /\ koses[k].plume = p
       /\ Len(koses[k].items) < MaxItems
       /\ koses' = [koses EXCEPT ![k] = Add(@, At(block, k))]
  /\ UNCHANGED <<capacity, block, heap, shifted>>

(* Mutant: an entry is pushed when the vector is full.                     *)
PushBeyond(p) ==
  /\ \A k \in DOMAIN koses : koses[k].plume # p
  /\ Len(koses) \in 1 .. capacity
  /\ koses' = Append(koses, NewKosa(p, At(block, Len(koses) + 1)))
  /\ UNCHANGED <<capacity, block, heap, shifted>>

(* koses.push_back(p), with room for it and without; whichever entry is    *)
(* pushed, it is the first that is updated.                                *)
PushInPlace(p) ==
  /\ \A k \in DOMAIN koses : koses[k].plume # p
  /\ Len(koses) < capacity
  /\ LET n == Len(koses) + 1
         pushed == Append(koses, NewKosa(p, At(block, n)))
     IN  koses' = [pushed EXCEPT ![1] = updateKosaAfterCopy(@, At(block, 1))]
  /\ UNCHANGED <<capacity, block, heap, shifted>>

PushReallocating(p) ==
  /\ \A k \in DOMAIN koses : koses[k].plume # p
  /\ Len(koses) = capacity
  /\ block < MaxBlocks
  /\ block' = block + 1
  /\ capacity' = IF capacity = 0 THEN 1 ELSE 2 * capacity
  /\ LET n == Len(koses) + 1
         copied == [k \in DOMAIN koses |-> Copy(koses[k], At(block', k))]
         pushed == Append(copied, NewKosa(p, At(block', n)))
     IN  koses' = [pushed EXCEPT ![1] = updateKosaAfterCopy(@, At(block', 1))]
  /\ heap' = Freed(BasesOf(koses))
  /\ UNCHANGED shifted

-----------------------------------------------------------------------------
(* Reading differences.                                                    *)

(* getByDiff() dereferences item.collection, and its plumePackets.         *)
Reaches(a) == Live(a) /\ Live(koses[a.slot].plumePackets)

(* The entry whose base measurement the item takes.                        *)
Reached(a) == koses[a.slot].plumePackets.slot

(* loadBaseKosa(): entries that have yet to load one, for the items of k.  *)
loadBaseKosa(k) ==
  {e \in {Reached(a) : a \in Range(koses[k].items)} : koses[e].baseKosa = Nothing}

(* LoggerCollection::get() of the packets of entry k.  A destroyed object  *)
(* has no defined behaviour to model; where load() returns false nothing   *)
(* changes.                                                                *)
Get(k) ==
  /\ \A a \in Range(koses[k].items) : Reaches(a)
  /\ \E new \in [loadBaseKosa(k) -> {b \in Bases : heap[b] = Nothing}] :
       /\ IsInjective(new)
       /\ koses' = [e \in DOMAIN koses |->
                      IF e \in DOMAIN new
                      THEN [koses[e] EXCEPT !.baseKosa = new[e]] ELSE koses[e]]
       /\ heap' = [b \in Bases |->
                     IF b \in Range(new) THEN koses[k].plume ELSE heap[b]]
  /\ UNCHANGED <<capacity, block, shifted>>

-----------------------------------------------------------------------------
(* Removing entries.                                                       *)

(* The implicit assignment of an entry: LoggerItem::operator=() leaves the *)
(* pointer alone, the items beyond those there are copied with it, as all  *)
(* are when their vector has to grow.                                      *)
Assigned(kosa, other, grows) ==
  [other EXCEPT !.items = [i \in DOMAIN @ |->
     IF ~grows /\ i <= Len(kosa.items) THEN kosa.items[i] ELSE @[i]]]

(* koses.erase(): each entry behind k is assigned to the one before it,    *)
(* and the last one is destroyed.                                          *)
Erase(k) ==
  /\ \E grows \in SUBSET {j \in k .. Len(koses) - 1 :
                            Len(koses[j + 1].items) > Len(koses[j].items)} :
       koses' = [j \in 1 .. Len(koses) - 1 |->
                   IF j < k THEN koses[j]
                   ELSE Assigned(koses[j], koses[j + 1], j \in grows)]
  /\ heap' = Freed({koses[Len(koses)].baseKosa})
  /\ shifted' = (shifted \/ k < Len(koses))
  /\ UNCHANGED <<capacity, block>>

(* doneLoggerParser() deletes the collector; the program starts anew, with *)
(* any block, since no pointer is left.                                    *)
Delete ==
  /\ koses # <<>>
  /\ koses' = <<>> /\ capacity' = 0 /\ block' = 0
  /\ heap' = Freed(BasesOf(koses))
  /\ UNCHANGED shifted

Next ==
  \/ \E p \in Plumes : AddFound(p) \/ PushInPlace(p) \/ PushReallocating(p)
  \/ \E k \in DOMAIN koses : Get(k) \/ Erase(k)
  \/ Delete

Spec == Init /\ [][Next]_vars

-----------------------------------------------------------------------------
(* Properties.                                                             *)

(* The type invariant.                                                     *)
TypeOK ==
  /\ koses \in Seq(LoggerKosaPackets)
  /\ capacity \in Nat /\ Len(koses) <= capacity
  /\ capacity > 0 => block > 0
  /\ block \in 0 .. MaxBlocks
  /\ heap \in [Bases -> Plumes \cup {Nothing}]
  /\ shifted \in BOOLEAN

(* As long as no entry was erased in front of another, the first entry's   *)
(* items are read from the entry itself: the vector may have moved it      *)
(* since, and the pointers of both levels have followed.                   *)
FirstIsInPlace ==
  ~shifted /\ koses # <<>> =>
    /\ koses[1].plumePackets = At(block, 1)
    /\ \A a \in Range(koses[1].items) : a = At(block, 1)

(* Up to then, no item is read through the entry of another plume, whose   *)
(* base measurement its differences would be added to.                     *)
NoneReadsAnother ==
  ~shifted => \A k \in DOMAIN koses : \A a \in Range(koses[k].items) :
                Reaches(a) => Reached(a) = k

(* Up to then, too, no base measurement is deleted while an entry refers   *)
(* to it, none is shared by two entries or is of another plume, and none   *)
(* is left behind when its entry is destroyed, moved or deleted.           *)
BasesAreOwned ==
  ~shifted =>
    /\ \A k \in DOMAIN koses : koses[k].baseKosa # Nothing =>
         heap[koses[k].baseKosa] = koses[k].plume
    /\ \A j, k \in DOMAIN koses :
         j # k => koses[j].baseKosa = Nothing \/ koses[j].baseKosa # koses[k].baseKosa
    /\ \A b \in Bases : heap[b] # Nothing => b \in BasesOf(koses)

(* "set parent pointer", logger-collection.cpp:2203: the parents an item   *)
(* is read through are there.  It does not hold of a second entry:         *)
(* README.md, other disagreements.                                         *)
ParentsAreThere ==
  \A k \in DOMAIN koses : \A a \in Range(koses[k].items) : Reaches(a)
=============================================================================
