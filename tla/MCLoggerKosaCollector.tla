----------------------- MODULE MCLoggerKosaCollector -----------------------
(***************************************************************************)
(* Every packet type, a base measurement for the logger at address 1, the  *)
(* same serial number in two years, and an erased (0xff) year.             *)
(***************************************************************************)
EXTENDS LoggerKosaCollector

Frame(typ, addr, kosa, year, packet) ==
  [typ |-> typ, addr |-> addr, kosa |-> kosa, kosa_year |-> year,
   measure |-> 1, packet |-> packet, packets |-> 2]

BaseOfOne == [a \in {1} |-> [kosa |-> 28, kosa_year |-> 21, measure |-> 1]]
AnyYear == {0, 255}

Plain == << Frame("PKT_1", 2, 28, 19, 1), Frame("PKT_2", 2, 28, 19, 2) >>
Delta == << Frame("DELTA_1", 1, 28, 21, 1), Frame("DELTA_2", 1, 28, 21, 2) >>
Huffman == << Frame("HUFF_1", 3, 0, 21, 1), Frame("HUFF_2", 3, 0, 21, 2) >>
Raw == Frame("RAW", 3, 0, 21, 0)

(* Whole measurements, lone frames, erased years, and RAW with a stray     *)
(* continuation.                                                           *)
MCBatches ==
  { Plain, Tail(Plain), Delta, Tail(Delta), Huffman, <<Huffman[1]>>,
    << Frame("PKT_1", 2, 28, 255, 1) >>, << Frame("PKT_1", 3, 0, 255, 1) >>,
    << Raw, Raw, Raw, Frame("UNKNOWN", 3, 0, 21, 0) >>, << Huffman[1], Raw >> }
=============================================================================
