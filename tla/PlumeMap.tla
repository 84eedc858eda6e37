------------------------------ MODULE PlumeMap ------------------------------
(***************************************************************************)
(* What the collector promises, free of vectors, iterators and loops: a    *)
(* map from plumes to what was received of them.  Every decoded item       *)
(* leaves the inbox in order, and ends up at the end of the list of its    *)
(* own plume and nowhere else; only an item of the wildcard year may be    *)
(* refused.  A plume is forgotten whole.                                   *)
(***************************************************************************)
EXTENDS Integers, Sequences

CONSTANT Wildcard  (* The year no plume is made in.                        *)

VARIABLES
  inbox,  (* items decoded and not filed yet                               *)
  plumes  (* plume -> its items, in the order they were filed              *)

Plume(item) == [kosa |-> item.id.kosa, kosa_year |-> item.id.kosa_year]

Init == inbox = <<>> /\ plumes = [p \in {} |-> <<>>]

(* Another frame of the running call is decoded.                           *)
Decode ==
  /\ Len(inbox') = Len(inbox) + 1
  /\ \A i \in DOMAIN inbox : inbox'[i] = inbox[i]
  /\ UNCHANGED plumes

(* More of a measurement without packet headers: no item of its own.       *)
Extend ==
  /\ Len(inbox') = Len(inbox)
  /\ \A i \in DOMAIN inbox : inbox'[i].id = inbox[i].id
  /\ UNCHANGED plumes

File ==
  /\ inbox # <<>>
  /\ inbox' = Tail(inbox)
  /\ LET p == Plume(Head(inbox))
     IN  plumes' = [q \in DOMAIN plumes \cup {p} |->
                      IF q # p THEN plumes[q]
                      ELSE IF p \in DOMAIN plumes
                      THEN Append(plumes[p], Head(inbox))
                      ELSE <<Head(inbox)>>]

Refuse ==
  /\ inbox # <<>>
  /\ Head(inbox).id.kosa_year = Wildcard
  /\ inbox' = Tail(inbox)
  /\ UNCHANGED plumes

Forget(p) ==
  /\ plumes' = [q \in DOMAIN plumes \ {p} |-> plumes[q]]
  /\ UNCHANGED inbox

Next ==
  \/ Decode
  \/ Extend
  \/ File
  \/ Refuse
  \/ \E p \in DOMAIN plumes : Forget(p)

Spec == Init /\ [][Next]_<<inbox, plumes>>
=============================================================================
